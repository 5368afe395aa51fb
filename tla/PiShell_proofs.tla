--------------------------- MODULE PiShell_proofs ---------------------------
(***************************************************************************)
(* Proofs about PiShell for every text, every length of an answer, every   *)
(* user and every damage to the lines.                                     *)
(***************************************************************************)
EXTENDS PiShell, TLAPS
-----------------------------------------------------------------------------
(* Where a command is, from the place of the unix shell: with the Pi, at     *)
(* work, or answered.                                                        *)

AtRest == u2p = <<>> /\ p2u = <<>>
Asked(cmd, crlf) == asked.cmd = cmd /\ asked.crlf = crlf

\* The command is on its way to the Pi, which is in the loop `at`.
OnItsWay(at) == ppc = at /\ u2p = <<asked>> /\ p2u = <<>>
\* The Pi has obeyed it, is at `at`, and has said all of `rs`.
Answered(at, rs) == ppc = at /\ u2p = <<>> /\ p2u = rs

EchoTalk ==
  /\ Asked("echo", FALSE)
  /\ OnItsWay("readline") \/ Answered("readline", <<Reply("echo", asked.text)>>)
RebootTalk ==
  /\ Asked("reboot", FALSE)
  /\ OnItsWay("readline") \/ Answered("down", <<Bare("PI REBOOT!!!"), Bare("DONE!!!")>>)
RunTalk ==
  /\ Asked("run", FALSE)
  /\ OnItsWay("readline") \/ (AtRest /\ ppc \in {"loader", "down"})
WelcomeTalk ==
  /\ Asked("esp", FALSE)
  /\ OnItsWay("readline") \/ Answered("espReset", <<>>) \/ Answered("espLine", <<Bare("Welcome!")>>)

\* No line ends the answer before its time, or belongs to another command.
Inside(i) == ~BeginsEnd(p2u[i]) /\ (p2u[i].from = "lua" => p2u[i].text = asked.text)
LuaTalk ==
  /\ Asked("lua", TRUE) /\ asked.text \notin EndText
  /\ \/ OnItsWay("espLine")
     \/ /\ ppc \in {"espWrite", "espRead"} /\ u2p = <<>>
        /\ \A i \in 1..Len(p2u) : Inside(i)
     \/ /\ ppc = "espLine" /\ u2p = <<>> /\ p2u # <<>>
        /\ p2u[Len(p2u)] = Bare("END") /\ \A i \in 1..(Len(p2u) - 1) : Inside(i)
BlankTalk ==
  /\ Asked("blank", TRUE)
  /\ OnItsWay("espLine") \/ Answered("readline", <<>>)
ExitTalk ==
  /\ Asked("exit", TRUE)
  /\ OnItsWay("espLine") \/ Answered("readline", <<Bare("ESP shell exited")>>)

\* The shell and the Pi follow one conversation until the shell gives up.
Conversation ==
  /\ upc = "prompt" => AtRest /\ ppc \in {"settle", "readline"}
  /\ upc = "espPrompt" => AtRest /\ ppc = "espLine"
  /\ upc = "wEcho" => EchoTalk
  /\ upc = "wReboot" => RebootTalk
  /\ upc = "wReady" => RunTalk
  /\ upc = "wWelcome" => WelcomeTalk
  /\ upc = "wAnswer" => LuaTalk \/ BlankTalk
  /\ upc = "wExit" => ExitTalk
  /\ upc \notin {"bye", "wBye", "exited"} => ~partial
  /\ "reboot" \notin hosted
-----------------------------------------------------------------------------
(* Types.                                                                    *)

LEMMA LineType ==
  ASSUME NEW cmd \in {"echo", "reboot", "run", "esp", "lua", "exit", "blank", "noise"},
         NEW t \in Text \cup {NoText}, NEW crlf \in BOOLEAN
  PROVE  Line(cmd, t, crlf) \in Lines
  BY DEF Line, Lines

LEMMA ReplyType ==
  ASSUME NEW from \in {"echo", "PI REBOOT!!!", "DONE!!!", "Welcome!", "lua", "answer", "late",
                       "END", "ESP shell exited", "noise"},
         NEW t \in Text \cup {NoText}
  PROVE  Reply(from, t) \in Replies
  BY DEF Reply, Replies

LEMMA ShortSeqs ==
  ASSUME NEW S
  PROVE  /\ <<>> \in Seq(S)
         /\ \A a \in S : <<a>> \in Seq(S)
         /\ \A a, b \in S : <<a, b>> \in Seq(S)
  OBVIOUS

\* A line that is heard leaves the line to the Pi one shorter.
LEMMA HeardType ==
  ASSUME TypeOK, u2p # <<>>
  PROVE  Head(u2p) \in Lines /\ Tail(u2p) \in Seq(Lines)
  BY DEF TypeOK

LEMMA ReadType ==
  ASSUME TypeOK, p2u # <<>>
  PROVE  Head(p2u) \in Replies /\ Tail(p2u) \in Seq(Replies)
  BY DEF TypeOK

LEMMA UpsetType ==
  ASSUME TypeOK, NEW b \in BOOLEAN, Upset(b)
  PROVE  upsets' \in 0..MaxUpsets
  BY BoundAssumption DEF TypeOK, Upset

\* A calm line has been calm all along.
LEMMA StaysCalm ==
  ASSUME TypeOK, NEW b \in BOOLEAN, Upset(b), calm'
  PROVE  calm /\ ~b
  BY DEF TypeOK, Upset, calm

LEMMA AskType ==
  ASSUME TypeOK, NEW from, NEW l \in Lines, NEW to \in Waits, Ask(from, l, to)
  PROVE  TypeOK'
  <1>1. u2p' \in Seq(Lines)
    BY DEF Ask, TypeOK
  <1>2. upsets' \in 0..MaxUpsets
    BY UpsetType DEF Ask
  <1> QED BY <1>1, <1>2 DEF Ask, TypeOK, pi

LEMMA UserType == TypeOK /\ User => TypeOK'
  <1> SUFFICES ASSUME TypeOK, User PROVE TypeOK'
    OBVIOUS
  <1>1. CASE TypeCommand
    <2>1. CASE \E t \in Text : Ask("prompt", Line("echo", t, FALSE), "wEcho")
      BY <2>1, AskType, LineType DEF Waits
    <2>2. Command("reboot") \in Lines /\ Command("esp") \in Lines /\ Command("run") \in Lines
      BY LineType DEF Command
    <2> QED BY <1>1, <2>1, <2>2, AskType DEF TypeCommand, Waits
  <1>2. CASE TypeEsp
    <2>1. CASE \E t \in Text : Ask("espPrompt", Line("lua", t, TRUE), "wAnswer")
      BY <2>1, AskType, LineType DEF Waits
    <2>2. EspCommand("blank") \in Lines /\ EspCommand("exit") \in Lines
      BY LineType DEF EspCommand
    <2> QED BY <1>2, <2>1, <2>2, AskType DEF TypeEsp, Waits
  <1>3. CASE TypeOther \/ Eof
    BY <1>3 DEF TypeOther, Eof, TypeOK, ToPrompt, Prompts, pi, wires, line
  <1>4. CASE ControlC
    BY <1>4 DEF ControlC, TypeOK, Prompts, pi, wires, line
  <1> QED BY <1>1, <1>2, <1>3, <1>4 DEF User

LEMMA ReadLineType ==
  ASSUME TypeOK, NEW from, NEW to \in Waits \cup Prompts \cup {"bye", "exited"},
         NEW cmds \in SUBSET {"reboot"}, ReadLine(from, to, cmds)
  PROVE  TypeOK'
  BY ReadType DEF ReadLine, TypeOK, pi

LEMMA UnixReadsType == TypeOK /\ UnixReads => TypeOK'
  <1> SUFFICES ASSUME TypeOK, UnixReads PROVE TypeOK'
    OBVIOUS
  <1> DEFINE Places == Waits \cup Prompts \cup {"bye", "exited"}
  <1>1. /\ ToPrompt \in Places /\ ToEspPrompt \in Places /\ "exited" \in Places /\ "wAnswer" \in Places
        /\ {} \in SUBSET {"reboot"} /\ {"reboot"} \in SUBSET {"reboot", "other"}
    BY DEF ToPrompt, ToEspPrompt, Prompts, Waits
  <1>2. CASE EchoRead \/ RebootRead \/ ByeRead \/ ExitRead \/ NoAckRead
    BY <1>1, <1>2, ReadLineType DEF EchoRead, RebootRead, ByeRead, ExitRead, NoAckRead
  <1>3. CASE WelcomeRead
    <2>1. PICK to \in Places : ReadLine("wWelcome", to, {})
      BY <1>1, <1>3 DEF WelcomeRead
    <2> QED BY <1>1, <2>1, ReadLineType
  <1>4. CASE AnswerRead
    <2>1. PICK to \in Places : ReadLine("wAnswer", to, {})
      BY <1>1, <1>4 DEF AnswerRead
    <2> QED BY <1>1, <2>1, ReadLineType
  <1>5. CASE SendReboot
    <2>1. Command("reboot") \in Lines
      BY LineType DEF Command
    <2>2. u2p' \in Seq(Lines)
      BY <1>5, <2>1 DEF SendReboot, TypeOK
    <2> QED BY <1>5, <2>1, <2>2 DEF SendReboot, TypeOK, Waits, pi
  <1> QED BY <1>2, <1>3, <1>4, <1>5 DEF UnixReads

LEMMA HearType ==
  ASSUME TypeOK, u2p # <<>>, NEW from, NEW to \in PiListens \cup PiDeaf,
         NEW rs \in Seq(Replies), Hear(from, to, rs), partial' \in BOOLEAN
  PROVE  TypeOK'
  <1>1. p2u' \in Seq(Replies)
    BY DEF Hear, TypeOK
  <1> QED BY <1>1, HeardType DEF Hear, TypeOK, unix

LEMMA BareType ==
  ASSUME NEW from \in {"PI REBOOT!!!", "DONE!!!", "Welcome!", "late", "END", "ESP shell exited", "noise"}
  PROVE  Bare(from) \in Replies
  BY ReplyType DEF Bare

LEMMA HearsType ==
  ASSUME TypeOK, \/ HearEcho \/ HearReboot \/ HearRun \/ HearEsp \/ HearEmpty \/ HearOther
                 \/ HearUnfinished \/ HearBlank \/ HearExit \/ HearLua
  PROVE  TypeOK'
  <1> DEFINE Places == PiListens \cup PiDeaf
  <1>1. /\ "readline" \in Places /\ "down" \in Places /\ "loader" \in Places /\ "espReset" \in Places
        /\ "espLine" \in Places /\ "espWrite" \in Places /\ partial \in BOOLEAN
    BY DEF PiListens, PiDeaf, TypeOK
  <1>2. CASE HearEcho
    <2>1. <<Reply("echo", Next1.text)>> \in Seq(Replies)
      <3>1. Next1.text \in Text \cup {NoText}
        BY <1>2, HeardType DEF HearEcho, Shell, Next1, Lines
      <3>2. Reply("echo", Next1.text) \in Replies
        BY <3>1, ReplyType
      <3> QED BY <3>2, ShortSeqs
    <2> QED BY <1>1, <1>2, <2>1, HearType DEF HearEcho, Shell
  <1>3. CASE HearReboot
    <2>1. <<Bare("PI REBOOT!!!"), Bare("DONE!!!")>> \in Seq(Replies)
      BY BareType, ShortSeqs
    <2> QED BY <1>1, <1>3, <2>1, HearType DEF HearReboot, Shell
  <1>4. <<>> \in Seq(Replies) /\ <<Bare("DONE!!!")>> \in Seq(Replies)
        /\ <<Bare("ESP shell exited")>> \in Seq(Replies)
    BY BareType, ShortSeqs
  <1>5. CASE HearRun \/ HearEsp \/ HearEmpty \/ HearOther
    BY <1>1, <1>4, <1>5, HearType DEF HearRun, HearEsp, HearEmpty, HearOther, Shell
  <1>6. CASE HearUnfinished \/ HearBlank \/ HearExit
    BY <1>1, <1>4, <1>6, HearType DEF HearUnfinished, HearBlank, HearExit, Esp
  <1>7. CASE HearLua
    <2>1. Shown \in Replies
      BY <1>7, HeardType, ReplyType, BareType DEF HearLua, Shown, Next1, Lines
    <2>2. PICK rs \in Seq(Replies) : Hear("espLine", "espWrite", rs)
      <3>1. <<Shown>> \in Seq(Replies) /\ <<Bare("noise"), Shown>> \in Seq(Replies)
        BY <2>1, BareType, ShortSeqs
      <3> QED BY <1>7, <3>1 DEF HearLua
    <2> QED BY <1>1, <1>7, <2>2, HearType DEF HearLua
  <1> QED BY <1>2, <1>3, <1>5, <1>6, <1>7

LEMMA AnswerType ==
  ASSUME TypeOK, PrintAnswer \/ PromptSeen \/ EspLate \/ EspResets
  PROVE  TypeOK'
  <1>1. CASE PrintAnswer
    <2>1. PICK t \in Text : p2u' = Append(p2u, Reply("answer", t))
      BY <1>1 DEF PrintAnswer
    <2>2. Reply("answer", t) \in Replies
      BY ReplyType
    <2>3. p2u' \in Seq(Replies)
      BY <2>1, <2>2 DEF TypeOK
    <2>4. left' \in 0..MaxLines
      BY <1>1, BoundAssumption DEF PrintAnswer, TypeOK
    <2>5. upsets' \in 0..MaxUpsets
      <3>1. PICK text \in Text : Upset(text \in EndText)
        BY <1>1 DEF PrintAnswer
      <3>2. (text \in EndText) \in BOOLEAN
        OBVIOUS
      <3> QED BY <3>1, <3>2, UpsetType
    <2> QED BY <1>1, <2>3, <2>4, <2>5 DEF PrintAnswer, TypeOK, unix
  <1>2. CASE PromptSeen \/ EspLate
    <2>1. <<Bare("END")>> \in Seq(Replies) /\ <<Bare("late"), Bare("END")>> \in Seq(Replies)
      BY BareType, ShortSeqs
    <2>2. PICK rs \in Seq(Replies) : EndAnswer(rs)
      BY <1>2, <2>1 DEF PromptSeen, EspLate
    <2>3. p2u' \in Seq(Replies)
      BY <2>2 DEF EndAnswer, TypeOK
    <2>4. 0 \in 0..MaxLines
      BY BoundAssumption
    <2> QED BY <2>2, <2>3, <2>4 DEF EndAnswer, TypeOK, PiListens, unix
  <1>3. CASE EspResets
    <2>1. p2u' \in Seq(Replies)
      <3>1. Bare("Welcome!") \in Replies
        BY BareType
      <3> QED BY <1>3, <3>1 DEF EspResets, TypeOK
    <2> QED BY <1>3, <2>1 DEF EspResets, TypeOK, PiListens, unix
  <1> QED BY <1>1, <1>2, <1>3

LEMMA GarbleType == TypeOK /\ Garble => TypeOK'
  <1> SUFFICES ASSUME TypeOK, Garble PROVE TypeOK'
    OBVIOUS
  <1>1. upsets' \in 0..MaxUpsets
    BY UpsetType DEF Garble
  <1>2. CASE u2p # <<>> /\ p2u' = p2u
    <2>1. Line("noise", NoText, Head(u2p).crlf) \in Lines
      BY <1>2, HeardType, LineType DEF Lines
    <2>2. Tail(u2p) \in Seq(Lines) /\ <<Line("noise", NoText, Head(u2p).crlf)>> \o Tail(u2p) \in Seq(Lines)
      BY <1>2, <2>1, HeardType
    <2>3. u2p' \in Seq(Lines) \/ (p2u # <<>> /\ u2p' = u2p)
      BY <1>2, <2>2 DEF Garble
    <2> QED BY <1>1, <1>2, <2>3 DEF Garble, TypeOK, unix, pi
  <1>3. CASE p2u # <<>> /\ u2p' = u2p
    <2>1. Tail(p2u) \in Seq(Replies) /\ <<Bare("noise")>> \o Tail(p2u) \in Seq(Replies)
      <3>1. Bare("noise") \in Replies
        BY BareType
      <3>2. Tail(p2u) \in Seq(Replies) /\ <<Bare("noise")>> \in Seq(Replies)
        BY <1>3, <3>1, ReadType, ShortSeqs
      <3> QED BY <3>2
    <2>2. p2u' \in Seq(Replies) \/ p2u' = p2u
      BY <1>3, <2>1 DEF Garble
    <2> QED BY <1>1, <1>3, <2>2 DEF Garble, TypeOK, unix, pi
  <1> QED BY <1>2, <1>3 DEF Garble

LEMMA UnheardType == TypeOK /\ Unheard => TypeOK'
  <1> SUFFICES ASSUME TypeOK, Unheard PROVE TypeOK'
    OBVIOUS
  <1>1. CASE u2p' = Tail(u2p)
    BY <1>1, HeardType DEF Unheard, TypeOK, unix, pi
  <1>2. CASE \E cmd \in {"noise", "blank"} : u2p' = [u2p EXCEPT ![1] = Line(cmd, NoText, @.crlf)]
    <2>1. PICK cmd \in {"noise", "blank"} : u2p' = [u2p EXCEPT ![1] = Line(cmd, NoText, u2p[1].crlf)]
      BY <1>2
    <2>2. u2p # <<>> /\ u2p[1] \in Lines
      BY DEF Unheard, TypeOK
    <2>3. Line(cmd, NoText, u2p[1].crlf) \in Lines
      BY <2>2, LineType DEF Lines
    <2>4. u2p' \in Seq(Lines)
      BY <2>1, <2>2, <2>3 DEF TypeOK
    <2> QED BY <2>4 DEF Unheard, TypeOK, unix, pi
  <1> QED BY <1>1, <1>2 DEF Unheard

LEMMA TypeStep == TypeOK /\ [Next]_vars => TypeOK'
  <1> SUFFICES ASSUME TypeOK, [Next]_vars PROVE TypeOK'
    OBVIOUS
  <1>1. CASE Timeout
    BY <1>1 DEF Timeout, TypeOK, pi, wires, line
  <1>2. CASE Settle \/ LoaderDies
    BY <1>2 DEF Settle, LoaderDies, TypeOK, PiListens, PiDeaf, unix, wires, line
  <1>3. CASE EspTakes
    BY <1>3 DEF EspTakes, TypeOK, PiDeaf, unix, wires, line
  <1>4. CASE UNCHANGED vars
    BY <1>4 DEF vars, unix, pi, wires, line, TypeOK
  <1> QED BY <1>1, <1>2, <1>3, <1>4, UserType, UnixReadsType, HearsType, AnswerType, GarbleType, UnheardType
      DEF Next, Pi, EspUser

\* Type correctness of both shells, under every interruption and damage.
THEOREM TypeSafe == Spec => []TypeOK
  <1>1. Init => TypeOK
    <2>1. Command("blank") \in Lines
      BY LineType DEF Command
    <2>2. 0 \in 0..MaxLines /\ 0 \in 0..MaxUpsets
      BY BoundAssumption
    <2>3. <<>> \in Seq(Lines) /\ <<>> \in Seq(Replies)
      BY ShortSeqs
    <2> QED BY <2>1, <2>2, <2>3 DEF Init, TypeOK, Prompts, PiDeaf
  <1> QED BY <1>1, TypeStep, PTL DEF Spec
-----------------------------------------------------------------------------
(* The conversation.                                                         *)

LEMMA OneLine ==
  ASSUME NEW S, NEW a \in S
  PROVE  /\ <<a>> # <<>> /\ Head(<<a>>) = a /\ Tail(<<a>>) = <<>>
         /\ Append(<<>>, a) = <<a>>
         /\ \A s \in Seq(S) : <<>> \o s = s
  OBVIOUS

LEMMA TwoLines ==
  ASSUME NEW S, NEW a \in S, NEW b \in S
  PROVE  <<a, b>> # <<>> /\ Head(<<a, b>>) = a
  OBVIOUS

LEMMA TailFacts ==
  ASSUME NEW S, NEW s \in Seq(S), s # <<>>
  PROVE  /\ Len(s) = 1 => Tail(s) = <<>>
         /\ Len(s) # 1 => Tail(s) # <<>> /\ Tail(s)[Len(Tail(s))] = s[Len(s)]
  <1>1. /\ Len(s) \in Nat /\ Len(s) > 0 /\ Tail(s) \in Seq(S) /\ Len(Tail(s)) = Len(s) - 1
        /\ \A i \in 1..(Len(s) - 1) : Tail(s)[i] = s[i + 1]
    OBVIOUS
  <1>2. CASE Len(s) = 1
    <2>1. Len(Tail(s)) = 0
      BY <1>1, <1>2
    <2>2. \A t \in Seq(S) : Len(t) = 0 => t = <<>>
      OBVIOUS
    <2> QED BY <1>1, <1>2, <2>1, <2>2
  <1>3. CASE Len(s) # 1
    <2>1. Len(s) - 1 \in 1..(Len(s) - 1)
      BY <1>1, <1>3
    <2>2. Tail(s)[Len(s) - 1] = s[(Len(s) - 1) + 1]
      BY <1>1, <2>1
    <2>3. (Len(s) - 1) + 1 = Len(s)
      BY <1>1
    <2>4. Len(Tail(s)) # 0
      BY <1>1, <1>3
    <2>5. Tail(s) # <<>>
      <3>1. Len(<<>>) = 0
        OBVIOUS
      <3> QED BY <2>4, <3>1
    <2> QED BY <1>1, <1>3, <2>2, <2>3, <2>5
  <1> QED BY <1>2, <1>3

\* What the Pi, the ESP and the line do in answer.
PiStep == Pi \/ EspUser \/ Unheard

\* With nothing on the line the Pi obeys nothing.
LEMMA IdlePi ==
  ASSUME u2p = <<>>, ppc \in {"settle", "readline", "espLine", "down"}, PiStep
  PROVE  /\ ppc = "settle" /\ ppc' = "readline"
         /\ UNCHANGED <<unix, partial, wires>>
  BY DEF PiStep, Pi, Settle, HearEcho, HearReboot, HearRun, HearEsp, HearEmpty, HearOther,
         HearUnfinished, HearBlank, HearExit, HearLua, PrintAnswer, PromptSeen, EspLate, EndAnswer,
         EspUser, EspResets, EspTakes, LoaderDies, Unheard, Shell, Esp, wires, line

\* The Pi in its own loop obeys the one line on its way as notmain says.
LEMMA ShellObeys ==
  ASSUME TypeOK, OnItsWay("readline"), ~asked.crlf, asked.cmd \in {"echo", "reboot", "run", "esp"}, PiStep
  PROVE  /\ UNCHANGED <<unix, partial>> /\ u2p' = <<>>
         /\ \/ asked.cmd = "echo" /\ ppc' = "readline" /\ p2u' = <<Reply("echo", asked.text)>>
            \/ asked.cmd = "reboot" /\ ppc' = "down" /\ p2u' = <<Bare("PI REBOOT!!!"), Bare("DONE!!!")>>
            \/ asked.cmd = "run" /\ ppc' = "loader" /\ p2u' = <<>>
            \/ asked.cmd = "esp" /\ ppc' = "espReset" /\ p2u' = <<>>
  <1>1. u2p # <<>> /\ Next1 = asked /\ Tail(u2p) = <<>>
    BY OneLine DEF OnItsWay, Next1
  <1>2. \A rs \in Seq(Replies) : p2u \o rs = rs
    BY DEF OnItsWay
  <1>3. \/ HearEcho \/ HearReboot \/ HearRun \/ HearEsp
    BY <1>1 DEF OnItsWay, PiStep, Pi, Settle, HearEmpty, HearOther, HearUnfinished, HearBlank, HearExit,
           HearLua, PrintAnswer, PromptSeen, EspLate, EndAnswer, EspUser, EspResets, EspTakes, LoaderDies,
           Unheard, Shell, Esp, Hear, PiDeaf
  <1>4. /\ <<Reply("echo", asked.text)>> \in Seq(Replies)
        /\ <<Bare("PI REBOOT!!!"), Bare("DONE!!!")>> \in Seq(Replies) /\ <<>> \in Seq(Replies)
    <2>1. Reply("echo", asked.text) \in Replies /\ Bare("PI REBOOT!!!") \in Replies /\ Bare("DONE!!!") \in Replies
      BY ReplyType, BareType DEF TypeOK, Lines
    <2> QED BY <2>1, ShortSeqs
  <1> QED BY <1>1, <1>2, <1>3, <1>4 DEF HearEcho, HearReboot, HearRun, HearEsp, Shell, Hear

\* The Pi in the ESP's loop, likewise.
LEMMA EspObeys ==
  ASSUME TypeOK, OnItsWay("espLine"), asked.crlf, ~partial, asked.cmd \in {"lua", "blank", "exit"}, PiStep
  PROVE  /\ UNCHANGED unix /\ ~partial' /\ u2p' = <<>>
         /\ \/ asked.cmd = "lua" /\ ppc' = "espWrite" /\ p2u' = <<Reply("lua", asked.text)>>
            \/ asked.cmd = "blank" /\ ppc' = "readline" /\ p2u' = <<>>
            \/ asked.cmd = "exit" /\ ppc' = "readline" /\ p2u' = <<Bare("ESP shell exited")>>
  <1>1. u2p # <<>> /\ Next1 = asked /\ Tail(u2p) = <<>>
    BY OneLine DEF OnItsWay, Next1
  <1>2. \A rs \in Seq(Replies) : p2u \o rs = rs
    BY DEF OnItsWay
  <1>3. \/ HearLua \/ HearBlank \/ HearExit
    BY <1>1 DEF OnItsWay, PiStep, Pi, Settle, HearEcho, HearReboot, HearRun, HearEsp, HearEmpty, HearOther,
           HearUnfinished, PrintAnswer, PromptSeen, EspLate, EndAnswer, EspUser, EspResets, EspTakes,
           LoaderDies, Unheard, Shell, Hear, PiDeaf
  <1>4. /\ <<Reply("lua", asked.text)>> \in Seq(Replies)
        /\ <<Bare("ESP shell exited")>> \in Seq(Replies) /\ <<>> \in Seq(Replies)
    <2>1. Reply("lua", asked.text) \in Replies /\ Bare("ESP shell exited") \in Replies
      BY ReplyType, BareType DEF TypeOK, Lines
    <2> QED BY <2>1, ShortSeqs
  <1>5. CASE HearLua
    <2>1. asked.cmd = "lua"
      BY <1>1, <1>5 DEF HearLua
    <2>2. Hear("espLine", "espWrite", <<Reply("lua", asked.text)>>) /\ ~partial'
      BY <1>1, <1>5, <2>1 DEF HearLua, Shown
    <2> QED BY <1>1, <1>2, <1>4, <2>1, <2>2 DEF Hear
  <1>6. CASE HearBlank \/ HearExit
    <2>1. asked.cmd = IF HearBlank THEN "blank" ELSE "exit"
      BY <1>1, <1>6 DEF HearBlank, HearExit, Esp
    <2>2. /\ UNCHANGED unix /\ u2p' = <<>> /\ ppc' = "readline"
          /\ p2u' = IF HearBlank THEN <<>> ELSE <<Bare("ESP shell exited")>>
      BY <1>1, <1>2, <1>4, <1>6 DEF HearBlank, HearExit, Hear
    <2>3. partial' = partial
      BY <1>6 DEF HearBlank, HearExit
    <2>4. ~partial'
      BY <2>3
    <2> QED BY <2>1, <2>2, <2>4
  <1> QED BY <1>3, <1>5, <1>6

\* The lines of an answer are inside it, until END comes.
LEMMA AnswerGoesOn ==
  ASSUME TypeOK, calm', LuaTalk, ~partial, PiStep
  PROVE  LuaTalk' /\ ~partial' /\ UNCHANGED unix
  <1>1. CASE OnItsWay("espLine")
    <2>1. UNCHANGED unix /\ ~partial' /\ u2p' = <<>> /\ ppc' = "espWrite" /\ p2u' = <<Reply("lua", asked.text)>>
      BY <1>1, EspObeys DEF LuaTalk, Asked
    <2>2. asked' = asked
      BY <2>1 DEF unix
    <2>3. \A i \in 1..Len(p2u') : Inside(i)'
      BY <2>1, <2>2 DEF Inside, BeginsEnd, Reply, LuaTalk
    <2> QED BY <2>1, <2>2, <2>3 DEF LuaTalk, Asked
  <1>2. CASE ppc \in {"espWrite", "espRead"} /\ u2p = <<>> /\ \A i \in 1..Len(p2u) : Inside(i)
    <2>1. EspTakes \/ PrintAnswer \/ PromptSeen \/ EspLate
      BY <1>2 DEF PiStep, Pi, Settle, HearEcho, HearReboot, HearRun, HearEsp, HearEmpty, HearOther,
             HearUnfinished, HearBlank, HearExit, HearLua, EspUser, EspResets, LoaderDies, Unheard, Hear
    <2>2. /\ asked' = asked /\ u2p' = u2p /\ partial' = partial /\ UNCHANGED unix
      BY <2>1 DEF EspTakes, PrintAnswer, PromptSeen, EspLate, EndAnswer, unix, wires, line
    <2>3. CASE EspTakes
      BY <1>2, <2>2, <2>3 DEF EspTakes, wires, line, LuaTalk, Asked, Inside, BeginsEnd
    <2>4. CASE PrintAnswer
      <3>1. PICK t \in Text : p2u' = Append(p2u, Reply("answer", t)) /\ t \notin EndText
        BY <2>4 DEF PrintAnswer, TypeOK, Upset, calm
      <3>2. \A i \in 1..Len(p2u') : p2u'[i] = IF i <= Len(p2u) THEN p2u[i] ELSE Reply("answer", t)
        BY <3>1 DEF TypeOK
      <3>3. Len(p2u') = Len(p2u) + 1 /\ Len(p2u) \in Nat
        BY <3>1 DEF TypeOK
      <3>4. \A i \in 1..Len(p2u') : Inside(i)'
        BY <1>2, <2>2, <3>1, <3>2, <3>3 DEF Inside, BeginsEnd, Reply
      <3> QED BY <1>2, <2>2, <2>4, <3>4 DEF PrintAnswer, LuaTalk, Asked
    <2>5. CASE EndAnswer(<<Bare("END")>>)
      <3>1. p2u' = p2u \o <<Bare("END")>>
        BY <2>5 DEF EndAnswer
      <3>2. /\ Len(p2u') = Len(p2u) + 1 /\ Len(p2u) \in Nat /\ p2u' # <<>> /\ p2u'[Len(p2u')] = Bare("END")
            /\ \A i \in 1..Len(p2u) : p2u'[i] = p2u[i]
        BY <3>1 DEF TypeOK
      <3>3. \A i \in 1..(Len(p2u') - 1) : Inside(i)'
        BY <1>2, <2>2, <3>2 DEF Inside, BeginsEnd
      <3> QED BY <1>2, <2>2, <2>5, <3>2, <3>3 DEF EndAnswer, LuaTalk, Asked
    <2>6. CASE EndAnswer(<<Bare("late"), Bare("END")>>)
      <3>1. p2u' = p2u \o <<Bare("late"), Bare("END")>>
        BY <2>6 DEF EndAnswer
      <3>2. /\ Len(p2u') = Len(p2u) + 2 /\ Len(p2u) \in Nat /\ p2u' # <<>> /\ p2u'[Len(p2u')] = Bare("END")
            /\ p2u'[Len(p2u) + 1] = Bare("late")
            /\ \A i \in 1..Len(p2u) : p2u'[i] = p2u[i]
        BY <3>1 DEF TypeOK
      <3>3. \A i \in 1..(Len(p2u') - 1) : i \in 1..Len(p2u) \/ i = Len(p2u) + 1
        BY <3>2
      <3>4. \A i \in 1..(Len(p2u') - 1) : Inside(i)'
        BY <1>2, <2>2, <3>2, <3>3 DEF Inside, BeginsEnd, Bare, Reply
      <3> QED BY <1>2, <2>2, <2>6, <3>2, <3>4 DEF EndAnswer, LuaTalk, Asked
    <2> QED BY <2>1, <2>3, <2>4, <2>5, <2>6, <2>2 DEF PromptSeen, EspLate
  <1>3. ~(ppc = "espLine" /\ u2p = <<>>)
    BY IdlePi
  <1> QED BY <1>1, <1>2, <1>3 DEF LuaTalk

\* Every other exchange is a command, and what comes of it.
LEMMA TalkGoesOn ==
  ASSUME TypeOK, ~partial, PiStep
  PROVE  /\ EchoTalk => EchoTalk' /\ ~partial' /\ UNCHANGED unix
         /\ RebootTalk => RebootTalk' /\ ~partial' /\ UNCHANGED unix
         /\ RunTalk => RunTalk' /\ ~partial' /\ UNCHANGED unix
         /\ WelcomeTalk => WelcomeTalk' /\ ~partial' /\ UNCHANGED unix
         /\ BlankTalk => BlankTalk' /\ ~partial' /\ UNCHANGED unix
         /\ ExitTalk => ExitTalk' /\ ~partial' /\ UNCHANGED unix
  <1>1. ASSUME OnItsWay("readline"), ~asked.crlf, asked.cmd \in {"echo", "reboot", "run", "esp"}
        PROVE  /\ asked' = asked /\ ~partial' /\ UNCHANGED unix /\ u2p' = <<>>
               /\ asked.cmd = "echo" => ppc' = "readline" /\ p2u' = <<Reply("echo", asked.text)>>
               /\ asked.cmd = "reboot" => ppc' = "down" /\ p2u' = <<Bare("PI REBOOT!!!"), Bare("DONE!!!")>>
               /\ asked.cmd = "run" => ppc' = "loader" /\ p2u' = <<>>
               /\ asked.cmd = "esp" => ppc' = "espReset" /\ p2u' = <<>>
    <2>1. UNCHANGED <<unix, partial>>
      BY <1>1, ShellObeys
    <2>2. asked' = asked /\ partial' = partial
      BY <2>1 DEF unix
    <2>3. ~partial'
      BY <2>2
    <2> QED BY <1>1, <2>1, <2>2, <2>3, ShellObeys
  <1>2. ASSUME OnItsWay("espLine"), asked.crlf, asked.cmd \in {"blank", "exit"}
        PROVE  /\ asked' = asked /\ ~partial' /\ UNCHANGED unix /\ u2p' = <<>>
               /\ asked.cmd = "blank" => ppc' = "readline" /\ p2u' = <<>>
               /\ asked.cmd = "exit" => ppc' = "readline" /\ p2u' = <<Bare("ESP shell exited")>>
    BY <1>2, EspObeys DEF unix
  <1>3. ~(ppc \in {"readline", "down", "espLine"} /\ u2p = <<>>)
    BY IdlePi
  <1>4. ASSUME AtRest, ppc = "loader"
        PROVE  UNCHANGED <<unix, wires, partial>> /\ ppc' = "down"
    BY <1>4 DEF AtRest, PiStep, Pi, Settle, HearEcho, HearReboot, HearRun, HearEsp, HearEmpty, HearOther,
           HearUnfinished, HearBlank, HearExit, HearLua, PrintAnswer, PromptSeen, EspLate, EndAnswer,
           EspUser, EspResets, EspTakes, LoaderDies, Unheard, Shell, Esp, Hear, wires, line
  <1>5. ASSUME Answered("espReset", <<>>)
        PROVE  UNCHANGED <<unix, u2p>> /\ ~partial' /\ ppc' = "espLine" /\ p2u' = <<Bare("Welcome!")>>
    <2>1. EspResets
      BY <1>5 DEF Answered, PiStep, Pi, Settle, HearEcho, HearReboot, HearRun, HearEsp, HearEmpty, HearOther,
           HearUnfinished, HearBlank, HearExit, HearLua, PrintAnswer, PromptSeen, EspLate, EndAnswer,
           EspUser, EspTakes, LoaderDies, Unheard, Shell, Esp, Hear
    <2>2. Bare("Welcome!") \in Replies
      BY BareType
    <2> QED BY <1>5, <2>1, <2>2, OneLine DEF EspResets, Answered
  <1>6. EchoTalk => EchoTalk' /\ ~partial' /\ UNCHANGED unix
    BY <1>1, <1>3 DEF EchoTalk, Asked, Answered
  <1>7. RebootTalk => RebootTalk' /\ ~partial' /\ UNCHANGED unix
    BY <1>1, <1>3 DEF RebootTalk, Asked, Answered
  <1>8. RunTalk => RunTalk' /\ ~partial' /\ UNCHANGED unix
    BY <1>1, <1>3, <1>4 DEF RunTalk, Asked, AtRest, unix, wires, line
  <1>9. WelcomeTalk => WelcomeTalk' /\ ~partial' /\ UNCHANGED unix
    BY <1>1, <1>3, <1>5 DEF WelcomeTalk, Asked, Answered, unix
  <1>10. BlankTalk => BlankTalk' /\ ~partial' /\ UNCHANGED unix
    BY <1>2, <1>3 DEF BlankTalk, Asked, Answered
  <1>11. ExitTalk => ExitTalk' /\ ~partial' /\ UNCHANGED unix
    BY <1>2, <1>3 DEF ExitTalk, Asked, Answered
  <1> QED BY <1>6, <1>7, <1>8, <1>9, <1>10, <1>11

\* The user begins an exchange at a prompt, or ends the shell.
LEMMA UserBegins == TypeOK /\ Conversation /\ calm' /\ User => Conversation'
  <1> SUFFICES ASSUME TypeOK, Conversation, calm', User PROVE Conversation'
    OBVIOUS
  <1> DEFINE Over == {"bye", "wBye", "exited"}
  <1>1. CASE TypeCommand
    <2>1. PICK l, to : /\ Ask("prompt", l, to) /\ l \in Lines /\ ~l.crlf
                       /\ <<l.cmd, to>> \in {<<"echo", "wEcho">>, <<"reboot", "wReboot">>,
                                             <<"esp", "wWelcome">>, <<"run", "wReady">>}
      <3>1. ASSUME NEW t \in Text
            PROVE  Line("echo", t, FALSE) \in Lines /\ Line("echo", t, FALSE).cmd = "echo"
                   /\ ~Line("echo", t, FALSE).crlf
        BY <3>1, LineType DEF Line
      <3>2. ASSUME NEW cmd \in {"reboot", "esp", "run"}
            PROVE  Command(cmd) \in Lines /\ Command(cmd).cmd = cmd /\ ~Command(cmd).crlf
        BY <3>2, LineType DEF Command, Line
      <3>3. CASE \E t \in Text : Ask("prompt", Line("echo", t, FALSE), "wEcho")
        BY <3>1, <3>3
      <3> QED BY <1>1, <3>2, <3>3 DEF TypeCommand
    <2>2. upc = "prompt" /\ u2p = <<>> /\ p2u = <<>> /\ ppc = "readline" /\ ~partial
      BY <2>1, StaysCalm DEF Ask, Conversation, AtRest
    <2>3. /\ upc' = to /\ u2p' = <<l>> /\ asked' = l /\ p2u' = <<>> /\ ppc' = "readline" /\ ~partial'
          /\ hosted' = hosted
      BY <2>1, <2>2, OneLine DEF Ask, pi
    <2>4. OnItsWay("readline")' /\ asked'.cmd = l.cmd /\ asked'.crlf = FALSE
      BY <2>1, <2>3 DEF OnItsWay, Lines
    <2> QED BY <2>1, <2>3, <2>4 DEF Conversation, EchoTalk, RebootTalk, WelcomeTalk, RunTalk, Asked
  <1>2. CASE TypeEsp
    <2>1. PICK l, to : /\ Ask("espPrompt", l, to) /\ l \in Lines /\ l.crlf
                       /\ <<l.cmd, to>> \in {<<"lua", "wAnswer">>, <<"blank", "wAnswer">>, <<"exit", "wExit">>}
      <3>1. ASSUME NEW t \in Text
            PROVE  Line("lua", t, TRUE) \in Lines /\ Line("lua", t, TRUE).cmd = "lua"
                   /\ Line("lua", t, TRUE).crlf
        BY <3>1, LineType DEF Line
      <3>2. ASSUME NEW cmd \in {"blank", "exit"}
            PROVE  EspCommand(cmd) \in Lines /\ EspCommand(cmd).cmd = cmd /\ EspCommand(cmd).crlf
        BY <3>2, LineType DEF EspCommand, Line
      <3>3. CASE \E t \in Text : Ask("espPrompt", Line("lua", t, TRUE), "wAnswer")
        BY <3>1, <3>3
      <3> QED BY <1>2, <3>2, <3>3 DEF TypeEsp
    <2>2. /\ upc = "espPrompt" /\ u2p = <<>> /\ p2u = <<>> /\ ppc = "espLine" /\ ~partial
          /\ l.cmd = "lua" => l.text \notin EndText
      BY <2>1, StaysCalm DEF Ask, Conversation, AtRest
    <2>3. /\ upc' = to /\ u2p' = <<l>> /\ asked' = l /\ p2u' = <<>> /\ ppc' = "espLine" /\ ~partial'
          /\ hosted' = hosted
      BY <2>1, <2>2, OneLine DEF Ask, pi
    <2>4. /\ OnItsWay("espLine")' /\ asked'.cmd = l.cmd /\ asked'.crlf = TRUE
          /\ l.cmd = "lua" => asked'.text \notin EndText
      BY <2>1, <2>2, <2>3 DEF OnItsWay, Lines
    <2> QED BY <2>1, <2>3, <2>4 DEF Conversation, LuaTalk, BlankTalk, ExitTalk, Asked
  <1>3. CASE TypeOther \/ Eof
    BY <1>3 DEF TypeOther, Eof, ToPrompt, Prompts, Conversation, AtRest, pi, wires, line
  <1>4. CASE ControlC
    <2>1. UNCHANGED <<asked, hosted, ppc, partial, u2p, p2u>> /\ (upc' = upc \/ upc' \in Over)
      BY <1>4 DEF ControlC, pi, wires, line
    <2>2. CASE upc' \in Over
      BY <2>1, <2>2 DEF Conversation
    <2>3. CASE upc' = upc
      BY <2>1, <2>3 DEF Conversation, AtRest, EchoTalk, RebootTalk, RunTalk, WelcomeTalk,
             LuaTalk, BlankTalk, ExitTalk, Asked, OnItsWay, Answered, Inside
    <2> QED BY <2>1, <2>2, <2>3
  <1> QED BY <1>1, <1>2, <1>3, <1>4 DEF User

\* The shell reads a reply, which is the next of the exchange it is in.
LEMMA UnixReadsOn == TypeOK /\ Conversation /\ UnixReads => Conversation'
  <1> SUFFICES ASSUME TypeOK, Conversation, UnixReads PROVE Conversation'
    OBVIOUS
  <1> DEFINE Over == {"bye", "wBye", "exited"}
  <1>1. /\ ToPrompt = "prompt" \/ ToPrompt \in Over
        /\ ToEspPrompt = "espPrompt" \/ ToEspPrompt \in Over
    BY DEF ToPrompt, ToEspPrompt
  <1>2. CASE EchoRead
    <2>1. Tail(p2u) = <<>> /\ u2p = <<>> /\ ppc = "readline" /\ ~partial
      BY <1>2, OneLine DEF EchoRead, ReadLine, Conversation, EchoTalk, OnItsWay, Answered
    <2> QED BY <1>1, <1>2, <2>1 DEF EchoRead, ReadLine, Conversation, AtRest, pi
  <1>3. CASE RebootRead
    <2>1. upc = "wReboot" /\ p2u = <<Bare("PI REBOOT!!!"), Bare("DONE!!!")>>
      BY <1>3 DEF RebootRead, ReadLine, Conversation, RebootTalk, OnItsWay, Answered
    <2>2. Heads("PI REBOOT!!!")
      <3>1. Bare("PI REBOOT!!!") \in Replies /\ Bare("DONE!!!") \in Replies
        BY BareType
      <3>2. p2u # <<>> /\ Head(p2u) = Bare("PI REBOOT!!!")
        BY <2>1, <3>1, TwoLines
      <3>3. Bare("PI REBOOT!!!").from = "PI REBOOT!!!"
        BY DEF Bare, Reply
      <3> QED BY <3>2, <3>3 DEF Heads
    <2> QED BY <1>3, <2>2 DEF RebootRead, ReadLine, Conversation
  <1>4. CASE ByeRead \/ NoAckRead \/ SendReboot
    BY <1>4 DEF ByeRead, NoAckRead, SendReboot, ReadLine, Conversation
  <1>5. CASE WelcomeRead
    <2>1. p2u = <<Bare("Welcome!")>> /\ u2p = <<>> /\ ppc = "espLine" /\ ~partial
      BY <1>5 DEF WelcomeRead, ReadLine, Conversation, WelcomeTalk, OnItsWay, Answered
    <2>2. Heads("Welcome!") /\ Tail(p2u) = <<>>
      BY <2>1, OneLine DEF Heads, Bare, Reply
    <2> QED BY <1>1, <1>5, <2>1, <2>2 DEF WelcomeRead, ReadLine, Conversation, AtRest, pi
  <1>6. CASE ExitRead
    <2>1. Tail(p2u) = <<>> /\ u2p = <<>> /\ ppc = "readline" /\ ~partial
      BY <1>6, OneLine DEF ExitRead, ReadLine, Conversation, ExitTalk, OnItsWay, Answered
    <2> QED BY <1>1, <1>6, <2>1 DEF ExitRead, ReadLine, Conversation, AtRest, pi
  <1>7. CASE AnswerRead
    <2>1. /\ upc = "wAnswer" /\ p2u # <<>> /\ p2u' = Tail(p2u) /\ ~partial /\ LuaTalk
          /\ UNCHANGED <<asked, ppc, partial, u2p>> /\ hosted' = hosted
      BY <1>7 DEF AnswerRead, ReadLine, Conversation, BlankTalk, OnItsWay, Answered, pi
    <2>2. /\ Len(p2u) \in Nat /\ Len(p2u) > 0 /\ Len(Tail(p2u)) = Len(p2u) - 1 /\ Head(p2u) = p2u[1]
          /\ \A i \in 1..(Len(p2u) - 1) : Tail(p2u)[i] = p2u[i + 1] /\ i + 1 \in 1..Len(p2u)
      BY <2>1 DEF TypeOK
    <2>3. CASE BeginsEnd(Head(p2u))
      <3>1. ~Inside(1)
        BY <2>2, <2>3 DEF Inside
      <3>2. ppc = "espLine" /\ u2p = <<>> /\ Len(p2u) = 1
        BY <2>1, <2>2, <3>1 DEF LuaTalk, OnItsWay
      <3>3. Tail(p2u) = <<>>
        BY <2>1, <3>2, TailFacts DEF TypeOK
      <3>4. upc' = ToEspPrompt
        BY <1>7, <2>1, <2>3 DEF AnswerRead, ReadLine
      <3> QED BY <1>1, <2>1, <3>2, <3>3, <3>4 DEF Conversation, AtRest
    <2>4. CASE ~BeginsEnd(Head(p2u))
      <3>1. upc' = "wAnswer"
        BY <1>7, <2>1, <2>4 DEF AnswerRead, ReadLine
      <3>2. CASE ppc \in {"espWrite", "espRead"} /\ u2p = <<>> /\ \A i \in 1..Len(p2u) : Inside(i)
        <4>1. \A i \in 1..Len(p2u') : Inside(i)'
          BY <2>1, <2>2, <3>2 DEF Inside
        <4> QED BY <2>1, <3>1, <3>2, <4>1 DEF Conversation, LuaTalk, Asked
      <3>3. CASE /\ ppc = "espLine" /\ u2p = <<>>
                 /\ p2u[Len(p2u)] = Bare("END") /\ \A i \in 1..(Len(p2u) - 1) : Inside(i)
        <4>1. Len(p2u) # 1
          BY <2>2, <2>4, <3>3 DEF BeginsEnd, Bare, Reply
        <4>2. Tail(p2u) # <<>> /\ Tail(p2u)[Len(Tail(p2u))] = Bare("END")
          BY <2>1, <3>3, <4>1, TailFacts DEF TypeOK
        <4>3. \A i \in 1..(Len(p2u') - 1) : Inside(i)'
          BY <2>1, <2>2, <3>3 DEF Inside
        <4> QED BY <2>1, <3>1, <3>3, <4>2, <4>3 DEF Conversation, LuaTalk, Asked
      <3> QED BY <2>1, <3>2, <3>3 DEF LuaTalk, OnItsWay
    <2> QED BY <2>3, <2>4
  <1> QED BY <1>2, <1>3, <1>4, <1>5, <1>6, <1>7 DEF UnixReads

\* Nothing makes the line calm again.
LEMMA CalmStep == TypeOK /\ [Next]_vars /\ calm' => calm
  <1> SUFFICES ASSUME TypeOK, [Next]_vars, calm' PROVE calm
    OBVIOUS
  <1>1. CASE TypeCommand \/ TypeEsp \/ PrintAnswer \/ Garble
    <2>1. \E b \in BOOLEAN : Upset(b)
      <3>1. CASE TypeCommand \/ TypeEsp
        <4>1. PICK from, l, to : Ask(from, l, to)
          BY <3>1 DEF TypeCommand, TypeEsp
        <4> QED BY <4>1 DEF Ask
      <3>2. CASE PrintAnswer
        <4>1. PICK t \in Text : Upset(t \in EndText)
          BY <3>2 DEF PrintAnswer
        <4>2. Upset(TRUE) \/ Upset(FALSE)
          BY <4>1 DEF Upset
        <4> QED BY <4>2
      <3>3. CASE Garble
        BY <3>3 DEF Garble
      <3> QED BY <1>1, <3>1, <3>2, <3>3
    <2> QED BY <2>1, StaysCalm
  <1>2. CASE TypeOther \/ Eof \/ ControlC \/ Timeout
    BY <1>2 DEF TypeOther, Eof, ControlC, Timeout, calm, line
  <1>3. CASE UnixReads
    BY <1>3 DEF UnixReads, EchoRead, RebootRead, ByeRead, WelcomeRead, AnswerRead, ExitRead, NoAckRead,
           ReadLine, SendReboot, calm
  <1>4. CASE PiStep /\ ~PrintAnswer
    BY <1>4 DEF PiStep, Pi, Settle, HearEcho, HearReboot, HearRun, HearEsp, HearEmpty, HearOther,
           HearUnfinished, HearBlank, HearExit, HearLua, PromptSeen, EspLate, EndAnswer,
           EspUser, EspResets, EspTakes, LoaderDies, Unheard, Hear, calm, line
  <1>5. CASE UNCHANGED vars
    BY <1>5 DEF vars, calm, line
  <1> QED BY <1>1, <1>2, <1>3, <1>4, <1>5 DEF Next, User, PiStep

LEMMA ConversationStep == TypeOK /\ Conversation /\ calm' /\ [Next]_vars => Conversation'
  <1> SUFFICES ASSUME TypeOK, Conversation, calm', [Next]_vars PROVE Conversation'
    OBVIOUS
  <1>1. CASE PiStep
    <2>1. UNCHANGED unix
      BY <1>1 DEF PiStep, Pi, Settle, HearEcho, HearReboot, HearRun, HearEsp, HearEmpty, HearOther,
             HearUnfinished, HearBlank, HearExit, HearLua, PrintAnswer, PromptSeen, EspLate, EndAnswer,
             EspUser, EspResets, EspTakes, LoaderDies, Unheard, Hear, unix
    <2>2. upc' = upc /\ hosted' = hosted
      BY <2>1 DEF unix
    <2>3. CASE upc \in {"bye", "wBye", "exited"}
      BY <2>2, <2>3 DEF Conversation
    <2>4. CASE upc \in {"prompt", "espPrompt"}
      BY <1>1, <2>2, <2>4, IdlePi DEF Conversation, AtRest, wires, line
    <2>5. CASE upc \in Waits \ {"wBye"}
      BY <1>1, <2>2, <2>5, TalkGoesOn, AnswerGoesOn DEF Conversation, Waits
    <2> QED BY <2>3, <2>4, <2>5 DEF TypeOK, Prompts, Waits
  <1>2. CASE Timeout
    BY <1>2 DEF Timeout, Conversation
  <1>3. ~Garble
    BY StaysCalm DEF Garble
  <1>4. CASE UNCHANGED vars
    BY <1>4 DEF vars, unix, pi, wires, line, Conversation, AtRest, EchoTalk, RebootTalk, RunTalk,
           WelcomeTalk, LuaTalk, BlankTalk, ExitTalk, Asked, OnItsWay, Answered, Inside
  <1> QED BY <1>1, <1>2, <1>3, <1>4, UserBegins, UnixReadsOn DEF Next, PiStep

LEMMA InConversation == Spec => [](calm => Conversation)
  <1>1. Init => (calm => Conversation)
    BY DEF Init, Conversation, AtRest
  <1>2. TypeOK /\ (calm => Conversation) /\ [Next]_vars => (calm => Conversation)'
    BY ConversationStep, CalmStep
  <1> QED BY <1>1, <1>2, TypeSafe, PTL DEF Spec

\* Until something is lost, typed too early or mistaken for END, the shell asks its
\* user for a line only while the Pi is in the loop the line is meant for and has
\* nothing left to say, whatever the user types, however many lines an answer has,
\* and whenever control-C comes.
THEOREM LoopsAgree == Spec => []SameLoop
  <1>1. (calm => Conversation) => SameLoop
    BY DEF Conversation, SameLoop, Prompts, AtRest
  <1> QED BY <1>1, InConversation, PTL

\* What is shown as an answer to a command is the answer to that command.
THEOREM AnswersMatch == Spec => []OwnAnswer
  <1>1. TypeOK /\ (calm => Conversation) => OwnAnswer
    <2> SUFFICES ASSUME TypeOK, calm, Conversation PROVE OwnAnswer
      BY DEF OwnAnswer
    <2>1. upc = "wEcho" /\ p2u # <<>> => p2u = <<Reply("echo", asked.text)>>
      BY DEF Conversation, EchoTalk, OnItsWay, Answered
    <2>2. ASSUME upc = "wAnswer", NEW i \in 1..Len(p2u), p2u[i].from = "lua"
          PROVE  p2u[i].text = asked.text
      <3>1. p2u # <<>> /\ Len(p2u) \in Nat
        BY <2>2 DEF TypeOK
      <3>2. LuaTalk
        BY <2>2, <3>1 DEF Conversation, BlankTalk, OnItsWay, Answered
      <3>3. (i = Len(p2u) /\ p2u[i] = Bare("END")) \/ Inside(i)
        BY <2>2, <3>1, <3>2 DEF LuaTalk, OnItsWay
      <3> QED BY <2>2, <3>3 DEF Inside, Bare, Reply
    <2> QED BY <2>1, <2>2 DEF OwnAnswer
  <1> QED BY <1>1, TypeSafe, InConversation, PTL

\* No command for the Pi is run on the unix machine.
THEOREM HostKeepsRunning == Spec => []NoHostReboot
  <1>1. (calm => Conversation) => NoHostReboot
    BY DEF Conversation, NoHostReboot
  <1> QED BY <1>1, InConversation, PTL
=============================================================================
