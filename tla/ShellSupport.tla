---------------------------- MODULE ShellSupport ----------------------------
(***************************************************************************)
(* How the shell takes a line apart, and how it watches for a string.      *)
(*                                                                         *)
(*   shell-unix-side/pi-shell.c        shell: fgets, tokenize              *)
(*   shell-unix-side/shell-support.c   tokenize, mk_fsm, fsm_chr_done,     *)
(*                                     fsm_done, echo_until                *)
(*                                                                         *)
(* A character is a string of length one or NUL.  buf is used again for     *)
(* each line, and is full of what an earlier one left behind.              *)
(***************************************************************************)
EXTENDS Integers, Sequences, SequencesExt, FiniteSetsExt

CONSTANTS
  NUL, LF,   \* the characters 0 and "\n"
  Space,     \* the characters isspace() knows
  Typed,     \* lines the user may type, without their "\n"
  BufSize,   \* sizeof buf (8192)
  MaxArgs    \* maxargs (32)

\* What can be typed: no 0, which strlen would take for the end.
Keys == {LF} \cup UNION {Range(t) : t \in Typed}

ASSUME LineAssumption ==
  /\ LF \in Space /\ NUL \notin Space
  /\ BufSize \in Nat /\ BufSize > 2 /\ MaxArgs \in Nat /\ MaxArgs > 1
  /\ Typed \subseteq Seq(Keys) /\ NUL \notin Keys

VARIABLES
  typed,    \* what fgets has not read of what the user typed
  buf,      \* the buffer
  got,      \* what fgets read last: history
  argv,     \* where the words of the line begin in buf
  spc       \* where shell is

lineVars == <<typed, buf, got, argv, spc>>

LineInit ==
  /\ typed = <<>> /\ got = <<>> /\ argv = <<>> /\ spc = "fgets"
  /\ buf = [i \in 1..BufSize |-> "old"]

\* The user types a line; at the end of the input it has no "\n".
Type ==
  /\ spc = "fgets" /\ typed = <<>>
  /\ \E t \in Typed, end \in {<<LF>>, <<>>} : typed' = t \o end /\ typed' # <<>>
  /\ UNCHANGED <<buf, got, argv, spc>>

\* Up to the "\n", or as much as there is room for, and a \0.
Fgets ==
  /\ spc = "fgets" /\ typed # <<>>
  /\ LET k == Min({Len(typed), BufSize - 1}) IN
       /\ got' = SubSeq(typed, 1, k) /\ typed' = SubSeq(typed, k + 1, Len(typed))
       /\ buf' = [i \in 1..BufSize |-> IF i <= k THEN typed[i] ELSE IF i = k + 1 THEN NUL ELSE buf[i]]
  /\ spc' = "strip" /\ UNCHANGED argv

\* Mutant of Strip: the \0 goes to where it is already.
StripNothing ==
  /\ spc = "strip" /\ spc' = "tokenize"
  /\ UNCHANGED <<typed, buf, got, argv>>

\* buf[strlen(buf) - 1] = 0: the last character read is taken for the "\n".
Strip ==
  /\ spc = "strip" /\ buf' = [buf EXCEPT ![Len(got)] = NUL] /\ spc' = "tokenize"
  /\ UNCHANGED <<typed, got, argv>>

\* Beyond the buffer there is no telling.
Beyond == BufSize + 1
FirstOr(S, x) == IF S = {} THEN x ELSE Min(S)

\* skip_space: 0 at the end of the string.
SkipSpace(b, p) ==
  LET q == FirstOr({i \in p..BufSize : b[i] \notin Space}, Beyond)
  IN IF q # Beyond /\ b[q] = NUL THEN 0 ELSE q
SkipNonspace(b, p) == FirstOr({i \in p..BufSize : b[i] \in Space \cup {NUL}}, Beyond)

\* A turn of the loop of tokenize: the next word, and a \0 behind it.  It goes on
\* behind that \0, which may have been the \0 of the line.
TakeWord(t) ==
  LET s == SkipSpace(t.b, t.p)
      e == SkipNonspace(t.b, s)
  IN IF s = 0 THEN [p |-> 0, words |-> t.words, b |-> t.b]
     ELSE [p |-> e + 1, words |-> Append(t.words, s), b |-> [t.b EXCEPT ![e] = NUL]]

\* The state of tokenize after its last turn.
Tokenized(b) ==
  LET turn[i \in 0..(MaxArgs - 1)] ==
        IF i = 0 THEN [p |-> 1, words |-> <<>>, b |-> b]
        ELSE IF turn[i - 1].p = 0 THEN turn[i - 1] ELSE TakeWord(turn[i - 1])
  IN turn[MaxArgs - 1]

\* tokenize, which panics when it has found no end of the words by then.
Tokenize ==
  /\ spc = "tokenize"
  /\ LET t == Tokenized(buf) IN
       /\ argv' = t.words /\ buf' = t.b
       /\ spc' = IF t.p = 0 THEN "run" ELSE "panic"
  /\ UNCHANGED <<typed, got>>

\* The command has run.
Prompt == spc = "run" /\ spc' = "fgets" /\ UNCHANGED <<typed, buf, got, argv>>

LineNext == Type \/ Fgets \/ Strip \/ Tokenize \/ Prompt

\* The word of buf that begins at s.
WordAt(s) == SubSeq(buf, s, Min({i \in s..BufSize : buf[i] = NUL}) - 1)
-----------------------------------------------------------------------------
(* The watcher of echo_until.  It is given one character at a time.        *)

\* The position afterwards; the string is seen when that is its end.  The
\* character that breaks a match is not looked at again.
FsmChrDone(str, pos, c) == IF c # str[pos + 1] THEN 0 ELSE pos + 1

\* echo_until, fsm_done: the characters that were read of text when the string
\* was seen, or 0.
EchoUntil(str, text) ==
  LET pos[i \in 0..Len(text)] ==
        IF i = 0 THEN 0
        ELSE IF pos[i - 1] = Len(str) THEN Len(str)
        ELSE FsmChrDone(str, pos[i - 1], text[i])
  IN FirstOr({i \in 1..Len(text) : pos[i] = Len(str)}, 0)
=============================================================================
