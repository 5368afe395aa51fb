------------------------------ MODULE TraceLog ------------------------------
(***************************************************************************)
(* The log of a boot: what my-install -trace prints of the words it puts   *)
(* and gets, and how the replay harness reads that back.                   *)
(*                                                                         *)
(*   unix-side/trace.c        trace_emit_read32, _write32, _read8          *)
(*   unix-side/simple-boot.c  simple_boot, send_binary: the calls traced   *)
(*   unix-side/my-install.c   done                                         *)
(*   replay/parse-input.c     read_input, pop_field, pop_num, expect       *)
(*                                                                         *)
(* A value is a token: which word of the protocol it is, or a character.   *)
(* A line is its fields, each of which a ':' or a blank ends; a line cut   *)
(* short has fewer of them, and `whole` counts those that are left.        *)
(***************************************************************************)
EXTENDS Integers, Sequences, SequencesExt

CONSTANTS
  Data,       \* the words of the program that is booted
  Block,      \* words between two ACKs of the Pi (64)
  Exit,       \* the string that ends the echo, "DONE!!!\n"
  NUL         \* the character 0

ASSUME DataAssumption == Data \in Seq(Range(Data)) /\ Exit \in Seq(Range(Exit))
ASSUME BlockAssumption == Block \in Nat \ {0}
ASSUME ExitAssumption == Exit # <<>> /\ \A i \in 1..Len(Exit) : Exit[i] # NUL

Op(op, val) == [op |-> op, val |-> val]
W(val) == Op("WRITE32", val)
R(val) == Op("READ32", val)

\* send_binary, the turn that puts word i; a build of before the ACKs were added
\* reads none.
DataOps(i, acks) ==
  <<W(Data[i])>> \o IF acks /\ (Len(Data) - i) % Block = 0 THEN <<R("ACK")>> ELSE <<>>

\* The words simple_boot puts and gets, in order, when all goes well.
BootOps(acks) ==
  <<W("SOH"), W("n"), W("crc"), R("SOH"), R("crcn"), R("crc"), W("ACK")>>
    \o FlattenSeq([i \in 1..Len(Data) |-> DataOps(i, acks)])
    \o <<W("EOT"), R("ACK")>>

\* What my-install gets in a boot.
Gets(acks) == LET ops == BootOps(acks) IN {i \in 1..Len(ops) : ops[i].op = "READ32"}

\* The boot ops when it fails: the word it gets at i is another one, which get_uint traces
\* before expect compares it, puts NAK and panics.
FailedBoot(ops, i, val) == SubSeq(ops, 1, i - 1) \o <<R(val), W("NAK")>>

\* echo traces every byte of the text before it looks for the exit string.
EchoOps(text) == [i \in 1..Len(text) |-> Op("READ8", text[i])]

\* All of a boot and what the program prints then.
Recorded(acks, text) == BootOps(acks) \o EchoOps(text)

\* trace_emit_*: one line each, numbered by n_offset from 0.
Line(op, val, cnt) == [tag |-> "TRACE", op |-> op, cnt |-> cnt, val |-> val, whole |-> 4]

Emit(ops) == [i \in 1..Len(ops) |-> Line(ops[i].op, ops[i].val, i - 1)]

\* expect: the first field is there, and is the word TRACE.
HasTag(line) == line.whole >= 1 /\ line.tag = "TRACE"
\* pop_num, pop_hex_num: the field is there, and is a number.
HasNumber(line, k) == line.whole >= k

\* Mutant of ReadLine: the number of a line is read but not compared.
ReadLineUncounted(nlines, line) ==
  /\ HasTag(line) /\ line.whole >= 2
  /\ line.op \in {"WRITE32", "READ32", "READ8"}
  /\ HasNumber(line, 3) /\ HasNumber(line, 4)

\* The body of read_input's loop gets to Q_append: no panic, and no NULL for the
\* operation, which strcmp would not survive.
ReadLine(nlines, line) ==
  /\ HasTag(line) /\ line.whole >= 2
  /\ line.op \in {"WRITE32", "READ32", "READ8"}
  /\ HasNumber(line, 3) /\ line.cnt = nlines
  /\ HasNumber(line, 4)

\* read_input: the queue, in the order of the lines.
Readable(lines) == \A i \in 1..Len(lines) : ReadLine(i - 1, lines[i])
ReadInput(lines) == [i \in 1..Len(lines) |-> Op(lines[i].op, lines[i].val)]

\* done: pos characters of the exit string have matched so far, over all chunks.
\* A character that breaks a match is not looked at again; a 0 ends the chunk.
Match0(pos) == [pos |-> pos, seen |-> FALSE, stop |-> FALSE]
MatchChar(m, c) ==
  IF m.seen \/ m.stop THEN m
  ELSE IF c = NUL THEN [m EXCEPT !.stop = TRUE]
  ELSE IF c # Exit[m.pos + 1] THEN [m EXCEPT !.pos = 0]
  ELSE [m EXCEPT !.pos = @ + 1, !.seen = m.pos + 1 = Len(Exit)]

\* The CHOOSE is MatchChar(m[i - 1], chunk[i]); TLC evaluates m[i - 1] once that way.
Scan(m0, chunk) ==
  LET m[i \in 0..Len(chunk)] ==
        IF i = 0 THEN m0
        ELSE CHOOSE n \in {MatchChar(p, chunk[i]) : p \in {m[i - 1]}} : TRUE
  IN m[Len(chunk)]

\* Mutant of Done: pos is no static variable.
DoneAnew(pos, chunk) == Scan(Match0(0), chunk)

Done(pos, chunk) == Scan(Match0(pos), chunk)
=============================================================================
