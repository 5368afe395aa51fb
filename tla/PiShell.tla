------------------------------ MODULE PiShell ------------------------------
(***************************************************************************)
(* The two shells that drive the ESP8266: pi-shell on the unix machine,    *)
(* which reads what the user types, and pi-shell on the Pi, which obeys    *)
(* it.  Each of the two is in one of two loops, the shell's or the ESP's,  *)
(* and nothing on the line says which one a text line is meant for.        *)
(*                                                                         *)
(*   shell-unix-side/pi-shell.c   shell, esp, echo, reboot, pi_readline    *)
(*   shell-pi-side/pi-shell.c     notmain, readline, read_CRLF_line        *)
(*   shell-pi-side/bootloader.c   load_code, up to where it waits          *)
(*                                                                         *)
(* A message is a text line.  Its text is left out but for what the code   *)
(* looks at: the command it begins with, whether it is empty, whether it   *)
(* ends in CRLF, and whether an answer begins with "END".  The ESP is      *)
(* external: it answers a Lua line with some lines and a prompt, in time   *)
(* or late, or not at all.                                                 *)
(***************************************************************************)
EXTENDS Integers, Sequences

CONSTANTS
  Text,        \* what the user may have echoed, and ESP commands and answers
  EndText,     \* those that begin with "END"
  NoText,      \* the text of a line that has none
  MaxLines,    \* bound: lines of one answer of the ESP
  MaxAhead,    \* bound: lines of the user that the Pi has not heard yet
  MaxUpsets    \* bound: lines damaged, lines typed before the Pi runs, texts that begin with END

ASSUME TextAssumption == EndText \subseteq Text /\ NoText \notin Text
ASSUME BoundAssumption == MaxLines \in Nat /\ MaxAhead \in Nat /\ MaxUpsets \in Nat

VARIABLES
  upc,       \* where the unix shell is
  done,      \* its flag `done`: control-C has been caught
  asked,     \* the last line it sent to the Pi
  hosted,    \* commands meant for the Pi that it has run on the unix machine
  ppc,       \* where the Pi is
  partial,   \* read_CRLF_line holds a line that did not end in CRLF
  left,      \* lines the ESP has yet to print for the command
  u2p, p2u,  \* lines on their way to the Pi, and to the unix shell
  upsets     \* how many of these so far

unix == <<upc, done, asked, hosted>>
pi == <<ppc, partial, left>>
wires == <<u2p, p2u>>
line == <<wires, upsets>>
vars == <<unix, pi, line>>

\* Lines to the Pi: the command a line begins with, and its argument.
Line(cmd, text, crlf) == [cmd |-> cmd, text |-> text, crlf |-> crlf]
Command(cmd) == Line(cmd, NoText, FALSE)
EspCommand(cmd) == Line(cmd, NoText, TRUE)

\* Lines from the Pi: which printk they come from, and the text they show.
Reply(from, text) == [from |-> from, text |-> text]
Bare(from) == Reply(from, NoText)

Lines == [cmd : {"echo", "reboot", "run", "esp", "lua", "exit", "blank", "noise"},
          text : Text \cup {NoText}, crlf : BOOLEAN]
Replies == [from : {"echo", "PI REBOOT!!!", "DONE!!!", "Welcome!", "lua", "answer", "late",
                    "END", "ESP shell exited", "noise"},
            text : Text \cup {NoText}]

Waits == {"wEcho", "wReboot", "wReady", "wWelcome", "wAnswer", "wExit", "wBye"}
Prompts == {"prompt", "espPrompt"}
PiListens == {"readline", "espLine"}
PiDeaf == {"settle", "espReset", "espWrite", "espRead", "loader", "down"}

TypeOK ==
  /\ upc \in Waits \cup Prompts \cup {"bye", "exited"} /\ done \in BOOLEAN
  /\ asked \in Lines /\ hosted \subseteq {"reboot"}
  /\ ppc \in PiListens \cup PiDeaf /\ partial \in BOOLEAN /\ left \in 0..MaxLines
  /\ u2p \in Seq(Lines) /\ p2u \in Seq(Replies)
  /\ upsets \in 0..MaxUpsets

\* my-install -exec starts the unix shell as soon as the bootloader has sent
\* its last ACK; the Pi is then in its delay_ms(2000).
Init ==
  /\ upc = "prompt" /\ done = FALSE /\ asked = Command("blank") /\ hosted = {}
  /\ ppc = "settle" /\ partial = FALSE /\ left = 0
  /\ u2p = <<>> /\ p2u = <<>> /\ upsets = 0
-----------------------------------------------------------------------------
(* The unix shell.                                                         *)

\* Something happens that text lines are no match for.
Upset(b) == IF b THEN upsets < MaxUpsets /\ upsets' = upsets + 1 ELSE UNCHANGED upsets
calm == upsets = 0

\* The loop of shell is at its test; and that of esp, which leaves to shell's.
ToPrompt == IF done THEN "bye" ELSE "prompt"
ToEspPrompt == IF done THEN "bye" ELSE "espPrompt"

\* pi_put a line, then wait in `to` for what comes back.
Ask(from, l, to) ==
  /\ upc = from /\ upc' = to
  /\ Len(u2p) < MaxAhead /\ u2p' = Append(u2p, l) /\ asked' = l
  /\ Upset(ppc = "settle" \/ (l.cmd = "lua" /\ l.text \in EndText))
  /\ UNCHANGED <<done, hosted, pi, p2u>>

\* The user types a line at the prompt of the shell.
TypeCommand ==
  \/ \E t \in Text : Ask("prompt", Line("echo", t, FALSE), "wEcho")
  \/ Ask("prompt", Command("reboot"), "wReboot")
  \/ Ask("prompt", Command("esp"), "wWelcome")
  \/ Ask("prompt", Command("run"), "wReady")

\* The user types a command of the unix machine, which is run, or a blank line.
TypeOther ==
  /\ upc = "prompt" /\ upc' = ToPrompt
  /\ UNCHANGED <<done, asked, hosted, pi, line>>

\* The user types a line at the prompt of the ESP: its \n becomes \r\n.
TypeEsp ==
  \/ \E t \in Text : Ask("espPrompt", Line("lua", t, TRUE), "wAnswer")
  \/ Ask("espPrompt", EspCommand("blank"), "wAnswer")
  \/ Ask("espPrompt", EspCommand("exit"), "wExit")

\* fgets returns NULL at the end of the input, and goes on doing so.
Eof ==
  /\ upc \in Prompts
  /\ upc' = IF done THEN "bye" ELSE "exited"
  /\ UNCHANGED <<done, asked, hosted, pi, line>>

\* pi_readline returned a line; what is run on the unix machine is `cmds`.
ReadLine(from, to, cmds) ==
  /\ upc = from /\ upc' = to
  /\ p2u # <<>> /\ p2u' = Tail(p2u)
  /\ hosted' = hosted \cup cmds
  /\ UNCHANGED <<done, asked, pi, u2p, upsets>>

\* strncmp(buf, "END", 3) == 0
BeginsEnd(r) == r.from = "END" \/ (r.from \in {"lua", "answer"} /\ r.text \in EndText)

Heads(from) == p2u # <<>> /\ Head(p2u).from = from

\* echo prints whatever comes.
EchoRead == ReadLine("wEcho", ToPrompt, {})

\* reboot: on any other line than pi_done it returns 0, and the loop of shell
\* takes the command for one of the unix machine.
RebootRead ==
  IF Heads("PI REBOOT!!!") THEN ReadLine("wReboot", "exited", {})
                           ELSE ReadLine("wReboot", ToPrompt, {"reboot"})

\* reboot after the loop: the shell is through in any case.
ByeRead == ReadLine("wBye", "exited", {})

\* esp: the first line must be the welcome.
WelcomeRead == ReadLine("wWelcome", IF Heads("Welcome!") THEN ToEspPrompt ELSE ToPrompt, {})

\* esp: lines are shown until one begins with "END".
AnswerRead ==
  ReadLine("wAnswer", IF p2u # <<>> /\ BeginsEnd(Head(p2u)) THEN ToEspPrompt ELSE "wAnswer", {})

\* Mutant of ExitRead: the line after exit is left in the tty.
ExitReadNothing ==
  /\ upc = "wExit" /\ upc' = ToPrompt
  /\ UNCHANGED <<done, asked, hosted, pi, line>>

\* esp: one line follows exit, and is shown.
ExitRead == ReadLine("wExit", ToPrompt, {})

\* send_prog: expect_val panics, for load_code puts its ACK on the ESP's line
\* and what is on this one is no ACK.
NoAckRead == ReadLine("wReady", "exited", {})

\* Mutant of SendReboot: the shell ends without it.
SendNothing ==
  /\ upc = "bye" /\ upc' = "exited"
  /\ UNCHANGED <<done, asked, hosted, pi, line>>

\* The loop of shell ended with `done` set: reboot the Pi.
SendReboot ==
  /\ upc = "bye" /\ upc' = "wBye"
  /\ u2p' = Append(u2p, Command("reboot")) /\ asked' = Command("reboot")
  /\ UNCHANGED <<done, hosted, pi, p2u, upsets>>

\* Control-C.  sigaction was asked for no SA_RESTART: a call that is blocked
\* returns early.  fgets then ends both loops; a read of pi_readline or get_byte
\* makes the shell exit.  When no call is blocked, only the flag is set.
ControlC ==
  /\ upc # "exited" /\ done' = TRUE
  /\ \/ UNCHANGED upc
     \/ upc \in Prompts /\ upc' = "bye"
     \/ upc \in Waits /\ upc' = "exited"
  /\ UNCHANGED <<asked, hosted, pi, line>>

\* The Pi says nothing more by itself: it waits for a line, for the ESP, which
\* may be off, or for good.  The time-out of the tty is some twenty seconds: not
\* the two of `settle` nor the one after which the Pi gives up on an answer.
PiSilent ==
  \/ ppc \in {"espReset", "espWrite", "loader", "down"}
  \/ ppc \in PiListens /\ u2p = <<>>

\* Mutant of Timeout: a read that returns 0 is tried again.
TimeoutIgnored ==
  /\ upc \in Waits /\ p2u = <<>> /\ PiSilent
  /\ UNCHANGED vars

\* The read time-out of the tty passes: pi_readline exits, get_byte panics.
Timeout ==
  /\ upc \in Waits /\ p2u = <<>> /\ PiSilent
  /\ upc' = "exited"
  /\ UNCHANGED <<done, asked, hosted, pi, line>>

UnixReads ==
  \/ EchoRead \/ RebootRead \/ ByeRead \/ WelcomeRead \/ AnswerRead \/ ExitRead
  \/ NoAckRead \/ SendReboot
User == TypeCommand \/ TypeOther \/ TypeEsp \/ Eof \/ ControlC
-----------------------------------------------------------------------------
(* The Pi.                                                                 *)

\* The Pi hears a line for which `says` holds, prints `rs` and goes to `to`.
Hear(from, to, rs) ==
  /\ ppc = from /\ ppc' = to
  /\ u2p' = Tail(u2p) /\ p2u' = p2u \o rs
  /\ UNCHANGED <<unix, left, upsets>>
Next1 == Head(u2p)
Shell(cmd) == u2p # <<>> /\ Next1.cmd = cmd /\ ~Next1.crlf

\* BRANCHTO(ARMBASE) and the start of notmain.
Settle ==
  /\ ppc = "settle" /\ ppc' = "readline"
  /\ UNCHANGED <<unix, partial, left, line>>

\* Mutant of HearReboot: pi_done is printed on the way down.
HearRebootDoneFirst ==
  Shell("reboot") /\ Hear("readline", "down", <<Bare("DONE!!!"), Bare("PI REBOOT!!!")>>) /\ UNCHANGED partial

\* The loop of notmain, a case of it each.
HearEcho == Shell("echo") /\ Hear("readline", "readline", <<Reply("echo", Next1.text)>>) /\ UNCHANGED partial
HearReboot ==
  Shell("reboot") /\ Hear("readline", "down", <<Bare("PI REBOOT!!!"), Bare("DONE!!!")>>) /\ UNCHANGED partial
HearRun == Shell("run") /\ Hear("readline", "loader", <<>>) /\ UNCHANGED partial
HearEsp == Shell("esp") /\ Hear("readline", "espReset", <<>>) /\ UNCHANGED partial
\* An empty line ends the loop, and clean_reboot follows.
HearEmpty == Shell("blank") /\ Hear("readline", "down", <<Bare("DONE!!!")>>) /\ UNCHANGED partial
\* Any other line is passed over; one that ends in CRLF is not empty.
HearOther ==
  /\ u2p # <<>> /\ (Next1.crlf \/ Next1.cmd \in {"lua", "exit", "noise"})
  /\ Hear("readline", "readline", <<>>) /\ UNCHANGED partial

\* load_code: garbage from the ESP ends it in die, by the size, EOT or checksum.
LoaderDies ==
  /\ ppc = "loader" /\ ppc' = "down"
  /\ UNCHANGED <<unix, partial, left, line>>

\* The user resets the ESP: it sends a 0 byte, and the loop of the ESP begins.
EspResets ==
  /\ ppc = "espReset" /\ ppc' = "espLine" /\ partial' = FALSE
  /\ p2u' = Append(p2u, Bare("Welcome!"))
  /\ UNCHANGED <<unix, left, u2p, upsets>>

\* read_CRLF_line goes on past a \n without \r before it.
HearUnfinished ==
  /\ u2p # <<>> /\ ~Next1.crlf
  /\ Hear("espLine", "espLine", <<>>) /\ partial' = TRUE

Esp(cmd) == u2p # <<>> /\ Next1.crlf /\ ~partial /\ Next1.cmd = cmd
\* Mutant of HearExit: the break is missing.
HearExitOn == Esp("exit") /\ Hear("espLine", "espLine", <<Bare("ESP shell exited")>>) /\ UNCHANGED partial

\* Length 0 ends the loop of the ESP without a word.
HearBlank == Esp("blank") /\ Hear("espLine", "readline", <<>>) /\ UNCHANGED partial
HearExit == Esp("exit") /\ Hear("espLine", "readline", <<Bare("ESP shell exited")>>) /\ UNCHANGED partial
\* Everything else is printed and goes to the ESP.  A line that was held shows
\* as one more.
Shown == IF Next1.cmd = "lua" THEN Reply("lua", Next1.text) ELSE Bare("noise")
HearLua ==
  /\ u2p # <<>> /\ Next1.crlf /\ (partial \/ Next1.cmd \notin {"blank", "exit"})
  /\ Hear("espLine", "espWrite", IF partial THEN <<Bare("noise"), Shown>> ELSE <<Shown>>)
  /\ partial' = FALSE

\* The ESP has echoed the command: it will print some lines.
EspTakes ==
  /\ ppc = "espWrite" /\ ppc' = "espRead" /\ left' \in 0..MaxLines
  /\ UNCHANGED <<unix, partial, line>>

\* Mutant of PrintAnswer: the prompt does not end the answer.
PrintAnswerOn ==
  /\ ppc = "espRead" /\ left' = left - 1
  /\ \E t \in Text :
       p2u' = Append(p2u, Reply("answer", t)) /\ Upset(t \in EndText)
  /\ UNCHANGED <<unix, ppc, partial, u2p>>

\* esp_read_and_print_until_prompt, a line.  When its first byte took more than a
\* second, what buf[0] held before stands in front of it, so the text is any.
PrintAnswer ==
  /\ ppc = "espRead" /\ left > 0 /\ left' = left - 1
  /\ \E t \in Text :
       p2u' = Append(p2u, Reply("answer", t)) /\ Upset(t \in EndText)
  /\ UNCHANGED <<unix, ppc, partial, u2p>>

\* The prompt of the ESP, or a second without a byte from it: the latter is
\* printed, unless the byte it did not get last was a '>'.
EndAnswer(rs) ==
  /\ ppc = "espRead" /\ ppc' = "espLine" /\ left' = 0
  /\ p2u' = p2u \o rs
  /\ UNCHANGED <<unix, partial, u2p, upsets>>
PromptSeen == left = 0 /\ EndAnswer(<<Bare("END")>>)
EspLate == EndAnswer(<<Bare("late"), Bare("END")>>) \/ EndAnswer(<<Bare("END")>>)

Pi ==
  \/ Settle
  \/ HearEcho \/ HearReboot \/ HearRun \/ HearEsp \/ HearEmpty \/ HearOther
  \/ HearUnfinished \/ HearBlank \/ HearExit \/ HearLua
  \/ PrintAnswer \/ PromptSeen \/ EspLate
EspUser == EspResets \/ EspTakes \/ LoaderDies
-----------------------------------------------------------------------------
(* The line.                                                               *)

\* What the Pi does not wait for is lost, or all of it but its last characters.
Unheard ==
  /\ ppc \in PiDeaf /\ u2p # <<>>
  /\ \/ u2p' = Tail(u2p)
     \/ \E cmd \in {"noise", "blank"} : u2p' = [u2p EXCEPT ![1] = Line(cmd, NoText, @.crlf)]
  /\ UNCHANGED <<unix, pi, p2u, upsets>>

\* Text lines are not sent robustly: one may arrive as another, or not end.
Garble ==
  /\ Upset(TRUE)
  /\ \/ /\ u2p # <<>> /\ UNCHANGED p2u
        /\ u2p' \in {Tail(u2p), <<Line("noise", NoText, Head(u2p).crlf)>> \o Tail(u2p)}
     \/ /\ p2u # <<>> /\ UNCHANGED u2p
        /\ p2u' \in {Tail(p2u), <<Bare("noise")>> \o Tail(p2u)}
  /\ UNCHANGED <<unix, pi>>
-----------------------------------------------------------------------------
Next == User \/ UnixReads \/ Timeout \/ Pi \/ EspUser \/ Unheard \/ Garble

Spec == Init /\ [][Next]_vars

\* Both programs run when they can, and reads time out.  The user and the ESP
\* owe nothing.
Fairness == WF_vars(UnixReads) /\ WF_vars(Timeout) /\ WF_vars(Pi) /\ WF_vars(Unheard)
FairSpec == Spec /\ Fairness
-----------------------------------------------------------------------------
(* Properties.  Text lines carry neither a check nor a number: the first    *)
(* three are lost with a damaged line, a line typed before the Pi runs, or  *)
(* a text that begins with END, so they hold up to the first of these.      *)

\* While the user is asked for a line the Pi is in the loop the line will be
\* meant for, and neither a line nor an answer is left over from an earlier
\* command: no command is obeyed in the wrong loop.
SameLoop ==
  calm /\ upc \in Prompts =>
    /\ u2p = <<>> /\ p2u = <<>> /\ ~partial
    /\ ppc \in IF upc = "prompt" THEN {"settle", "readline"} ELSE {"espLine"}

\* What the shell shows as the answer to a command is the answer to it, not
\* one to an earlier command.
OwnAnswer ==
  /\ calm /\ upc = "wEcho" /\ p2u # <<>> => p2u = <<Reply("echo", asked.text)>>
  /\ calm /\ upc = "wAnswer" =>
       \A i \in 1..Len(p2u) : p2u[i].from = "lua" => p2u[i].text = asked.text

\* A reboot meant for the Pi is never run on the unix machine, although the
\* shell does that as soon as any other line than pi_done comes back.
NoHostReboot == calm => "reboot" \notin hosted

\* No command keeps the user waiting for ever, whatever is lost on the line
\* and whether or not the ESP is there.
CommandEnds == upc \in Waits ~> upc \in Prompts \cup {"exited"}

\* Control-C at the prompt of the shell reboots the Pi.
ShellShutsDown == (upc = "bye" /\ ppc = "readline" /\ calm) ~> (ppc = "down" \/ ~calm)

\* "got control-c: going to shutdown pi": the Pi is rebooted, whichever loop
\* the user was in.
ShutsDown == upc = "bye" ~> ppc = "down"
=============================================================================
