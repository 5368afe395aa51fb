----------------------------- MODULE EspConsole -----------------------------
(***************************************************************************)
(* How the Pi talks to the Lua console of the ESP8266 over its mini UART:  *)
(* it puts a command byte by byte, takes back the echo of each byte, looks *)
(* for the end of the echo, and then passes lines on to the unix machine   *)
(* until it sees the prompt.                                               *)
(*                                                                         *)
(*   shell-pi-side/pi-shell.c   esp_write_CRLF_line,                       *)
(*                              esp_read_and_print_until_prompt, notmain   *)
(*   sw-uart-libpi/my-uart.c    uart_getc, uart_getc_timeout, uart_putc    *)
(*                                                                         *)
(* Nothing is read while the Pi prints: the receive FIFO of the mini UART, *)
(* 8 symbols deep, is all that holds what the ESP says meanwhile.  The ESP *)
(* is external: it echoes each byte, and after a line prints its answer    *)
(* and the prompt "> ".  Both lines have the same speed.                   *)
(***************************************************************************)
EXTENDS Integers, Sequences, SequencesExt

CONSTANTS
  Chars,      \* characters
  Commands,   \* what the user may send: sequences of characters
  Answers,    \* what the ESP may answer: sequences of lines of characters
  Junk,       \* what it may have said since its reset: sequences of characters
  CR, LF, GT, \* characters that the code looks at: \r, \n and >
  SP,         \* the one between > and what is typed
  NUL,        \* the one that ends a string
  FifoSize,   \* 8: symbols of the receive FIFO
  MaxBacklog  \* bound: things the ESP has still to say when a command comes

ASSUME FifoAssumption == FifoSize \in Nat \ {0} /\ MaxBacklog \in Nat
ASSUME CharAssumption ==
  /\ {CR, LF, GT, SP} \subseteq Chars /\ NUL \notin Chars
  /\ CR \notin {LF, GT} /\ LF \notin {GT, SP}
\* A command is a line that the user typed, without its end; an empty one leaves
\* the loop.
ASSUME CommandAssumption == Commands \subseteq Seq(Chars \ {LF}) \ {<<>>}
ASSUME EspAssumption == Answers \subseteq Seq(Seq(Chars)) /\ Junk \subseteq Seq(Chars)

VARIABLES
  pc,        \* where the Pi is in the loop of the ESP shell
  cmd, i,    \* `buf` when it holds the command, and how many bytes have been put
  line,      \* `buf` when it holds what has been read of a line
  stale,     \* buf[0], as the last line or command left it
  shown,     \* lines printed for this command
  busy,      \* characters still to be printed
  out,       \* what the ESP has to send: characters since the reset, echoes,
             \* lines and prompts, the first from its byte `at`
  fifo,      \* bytes in the receive FIFO
  answer,    \* what the ESP answered to the last line
  calm       \* no line end came with the reset, each line is plain, and no read
             \* has given up

pi == <<cmd, i, line, stale, shown>>
esp == <<out, fifo, answer, calm>>
vars == <<pc, pi, busy, esp>>

\* What the ESP says, the row of its answer that it is, and its next byte.
Piece(of, row, text) == [of |-> of, row |-> row, text |-> text, at |-> 1]
Char(b) == b.text[b.at]
Echo(ch) == Piece("echo", 0, <<ch>>)
Row(a, k) == IF k <= Len(a) THEN Piece("answer", k, a[k] \o <<CR, LF>>)
                            ELSE Piece("prompt", k, <<GT, SP>>)
Script(a) == [k \in 1..(Len(a) + 1) |-> Row(a, k)]

\* A line that is not taken for a prompt, ends where it seems to, and fits with
\* its \n into the FIFO.
Plain(s) == /\ Len(s) < FifoSize /\ (s # <<>> => s[1] # GT)
            /\ \A j \in 1..(Len(s) - 1) : ~(s[j] = CR /\ s[j + 1] = LF)
Reading == {"get", "align", "first", "rest"}

TypeOK ==
  /\ pc \in Reading \cup {"idle", "put", "print", "end"}
  /\ cmd \in Commands /\ i \in 0..(Len(cmd) + 2) /\ busy \in Nat
  /\ Len(fifo) <= FifoSize /\ answer \in Answers /\ calm \in BOOLEAN

\* The ESP has just been reset.
Init ==
  /\ pc = "idle" /\ cmd \in Commands /\ i = 0
  /\ line = <<>> /\ stale = CR /\ shown = <<>> /\ busy = 0
  /\ \E s \in Junk : /\ out = IF s = <<>> THEN <<>> ELSE <<Piece("junk", 0, s)>>
                     /\ calm = \A k \in 1..Len(s) : s[k] # LF
  /\ fifo = <<>> /\ answer \in Answers
-----------------------------------------------------------------------------
(* The ESP and the mini UART.                                              *)

\* What the ESP has to send once it has got ch: the echo, and after a line its
\* answer and the prompt.
Respond(ch) ==
  IF ch = LF
    THEN \E a \in Answers :
           /\ answer' = a /\ calm' = (calm /\ \A k \in 1..Len(a) : Plain(a[k]))
           /\ out' = Append(out, Echo(ch)) \o Script(a)
    ELSE out' = Append(out, Echo(ch)) /\ UNCHANGED <<answer, calm>>

\* What is left of it after its next byte.
Rest(o) == IF o[1].at < Len(o[1].text) THEN [o EXCEPT ![1].at = @ + 1] ELSE Tail(o)

\* A byte arrives: a full FIFO drops it.
Arrive ==
  /\ out # <<>> /\ out' = Rest(out)
  /\ fifo' = IF Len(fifo) < FifoSize THEN Append(fifo, Head(out)) ELSE fifo

\* Outside the printing of a line bytes come whenever the ESP sends them; a Pi
\* that waits for them takes them long before the next.
Deliver ==
  /\ pc = "idle" \/ (pc \in Reading /\ fifo = <<>>)
  /\ Arrive
  /\ UNCHANGED <<pc, pi, busy, answer, calm>>

\* uart_getc returned ch.
Get(ch) == fifo # <<>> /\ ch = Char(Head(fifo)) /\ fifo' = Tail(fifo) /\ UNCHANGED <<out, answer, calm>>
Next1 == Char(Head(fifo))

\* uart_getc_timeout gave up: the ESP may take longer than TIMEOUT for any byte.
GaveUp == fifo = <<>> /\ calm' = FALSE /\ UNCHANGED <<out, fifo, answer>>
-----------------------------------------------------------------------------
(* The Pi.                                                                 *)

\* A command comes from the unix machine.
Command ==
  /\ pc = "idle" /\ pc' = "put" /\ Len(out) <= MaxBacklog
  /\ cmd' \in Commands /\ i' = 0 /\ stale' = Head(cmd') /\ shown' = <<>>
  /\ UNCHANGED <<line, busy, esp>>

\* esp_write_CRLF_line: put the next byte of buf and CR LF.
PutByte ==
  /\ pc = "put" /\ pc' = "get"
  /\ Respond((cmd \o <<CR, LF>>)[i + 1])
  /\ UNCHANGED <<pi, busy, fifo>>

\* Mutant of GetEcho: what follows the last byte is not looked at.
GetEchoUnaligned ==
  /\ pc = "get" /\ Get(Next1) /\ i' = i + 1
  /\ pc' = IF i' < Len(cmd) + 2 THEN "put" ELSE "first"
  /\ UNCHANGED <<cmd, line, stale, shown, busy>>

\* A byte is taken for its echo; after the last one it must be LF.
GetEcho ==
  /\ pc = "get" /\ Get(Next1) /\ i' = i + 1
  /\ pc' = IF i' < Len(cmd) + 2 THEN "put" ELSE IF Next1 = LF THEN "first" ELSE "align"
  /\ UNCHANGED <<cmd, line, stale, shown, busy>>

\* `while (c != '\n')`
Align ==
  /\ pc = "align" /\ Get(Next1)
  /\ pc' = IF Next1 = LF THEN "first" ELSE "align"
  /\ UNCHANGED <<pi, busy>>

\* esp_read_and_print_until_prompt: buf[0] tells the prompt from a line, and is
\* looked at when the read of it has given up as well.
First(ch) ==
  /\ pc = "first" /\ stale' = ch
  /\ IF ch = GT THEN pc' = "end" /\ busy' = 4 /\ UNCHANGED line
                 ELSE pc' = "rest" /\ line' = <<ch>> /\ UNCHANGED busy
  /\ UNCHANGED <<cmd, i, shown>>
ReadFirst == fifo # <<>> /\ First(Next1) /\ Get(Next1)
FirstGaveUp == First(stale) /\ GaveUp

\* Mutant of ReadRest: an empty line is taken for the prompt.
ReadRestNotEmpty ==
  /\ pc = "rest" /\ Get(Next1)
  /\ IF Next1 = LF /\ Last(line) = CR
       THEN IF Len(line) = 1 THEN pc' = "end" /\ busy' = 4 /\ UNCHANGED <<line, shown>>
            ELSE pc' = "print" /\ shown' = Append(shown, Front(line)) /\ busy' = Len(line) /\ UNCHANGED line
       ELSE line' = Append(line, Next1) /\ UNCHANGED <<pc, shown, busy>>
  /\ UNCHANGED <<cmd, i, stale>>

\* A line ends in CR LF; its CR, which may be buf[0], becomes NUL, and it is
\* printed up to there.
ReadRest ==
  /\ pc = "rest" /\ Get(Next1)
  /\ IF Next1 = LF /\ Last(line) = CR
       THEN /\ pc' = "print" /\ shown' = Append(shown, Front(line)) /\ busy' = Len(line)
            /\ stale' = (IF Len(line) = 1 THEN NUL ELSE stale)
            /\ UNCHANGED line
       ELSE line' = Append(line, Next1) /\ UNCHANGED <<pc, stale, shown, busy>>
  /\ UNCHANGED <<cmd, i>>

\* Mutant of RestGaveUp: the read is tried again.
RestTriedAgain == pc = "rest" /\ GaveUp /\ UNCHANGED <<pc, pi, busy>>

\* A second without a byte: that is printed, and ends the answer like the prompt.
RestGaveUp ==
  /\ pc = "rest" /\ pc' = "end" /\ GaveUp
  /\ busy' = 4
  /\ UNCHANGED pi

\* Mutant of Print1: a character too many.
Print1More ==
  /\ pc \in {"print", "end"} /\ busy >= 0 /\ busy' = busy - 1
  /\ Arrive \/ UNCHANGED <<out, fifo>>
  /\ UNCHANGED <<pc, pi, answer, calm>>

\* printk over the software UART, a character at a time: meanwhile the ESP sends
\* at most as much.
Print1 ==
  /\ pc \in {"print", "end"} /\ busy > 0 /\ busy' = busy - 1
  /\ Arrive \/ UNCHANGED <<out, fifo>>
  /\ UNCHANGED <<pc, pi, answer, calm>>

Printed ==
  /\ pc \in {"print", "end"} /\ busy = 0
  /\ pc' = IF pc = "print" THEN "first" ELSE "idle"
  /\ UNCHANGED <<pi, busy, esp>>

Talk ==
  \/ PutByte \/ GetEcho \/ Align \/ ReadFirst \/ FirstGaveUp \/ ReadRest \/ RestGaveUp
  \/ Print1 \/ Printed
Next == Command \/ Talk \/ Deliver

Spec == Init /\ [][Next]_vars

\* The Pi runs by itself and the ESP sends what it has to.
Fairness == WF_vars(Talk) /\ WF_vars(Deliver)
FairSpec == Spec /\ Fairness
-----------------------------------------------------------------------------
(* Properties.                                                             *)

Unread == fifo \o out

\* When the Pi begins to take bytes for the answer, the echo of the command has
\* been taken away, to the last byte: neither what the ESP said after its reset
\* nor what is left of the last prompt shifts it.
EchoConsumed ==
  calm /\ pc \in {"first", "rest", "print"} =>
    \A k \in 1..Len(Unread) : Unread[k].of # "echo"

\* The unix machine is shown every line of the answer to its command, unchanged
\* and in order, and nothing else, before END tells it that this was all.  The
\* FIFO holds what comes while a line that fits into it, with \n, is printed;
\* only a line that begins like the prompt, or has a line end inside, is not plain.
AnswerShown == calm /\ pc = "end" => shown = answer

\* Every command comes to its END, calm or not: the Pi does not wait for a byte
\* that was dropped, or that belongs to what it has taken for something else.
CommandDone == pc # "idle" ~> pc = "idle"
=============================================================================
