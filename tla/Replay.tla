------------------------------- MODULE Replay -------------------------------
(***************************************************************************)
(* The replay harness: it plays the Pi to my-install over a socket, from a *)
(* log of an earlier boot, ten times as recorded and then again and again  *)
(* with one word corrupted, to see that my-install notices.                *)
(*                                                                         *)
(*   replay/replay.c          replay, read_exact, write_exact, is_eof      *)
(*   replay/replay-driver.c   main, check_success, check_crashes           *)
(*   unix-side/simple-boot.c  the child, as a list of puts and gets        *)
(*   unix-side/my-install.c   the child's echo                             *)
(*                                                                         *)
(* Harness and child are two processes.  The socket has room for whatever  *)
(* the harness writes; a read blocks until there is something or the other *)
(* end is closed.  A token stands for the four bytes of a word, or for one *)
(* character.  A plain child (IS_SW_UART 0) puts and gets one copy of a    *)
(* word, as the log holds it; a robust one, which simple-boot.h:4-5 makes  *)
(* the build of this repository, ROBUST_ITER of each of its bytes.         *)
(***************************************************************************)
EXTENDS TraceLog

CONSTANTS
  Chars,       \* characters the program prints
  Texts,       \* what it prints after the boot, in the log
  CopySet,     \* copies of a word a child may be built for: 1, ROBUST_ITER
  Bad,         \* values a corrupted word may take: none that the boot has
  Rounds,      \* bound: the N of main (10)
  Traces(_),   \* files that may come of a trace: whole, cut, or with lines astray
  Resets       \* closing a socket with unread data resets the other end (Linux)

ASSUME ReplayAssumption ==
  /\ Rounds \in Nat \ {0} /\ CopySet \subseteq Nat \ {0} /\ Resets \in BOOLEAN
  /\ Texts \subseteq Seq(Chars)

\* The words a boot gets.  No character is taken for one, and no bad value is either.
Words == {"SOH", "crcn", "crc", "ACK"}
ASSUME ValueAssumption == Chars \cap (Words \cup Bad) = {} /\ Bad \cap Words = {}

\* The boots that are traced: one that goes well, and those in which the Pi, or the
\* line, comes up with another word at some point.
Boots == [a \in BOOLEAN |->
  LET ops == BootOps(a) IN
    {Recorded(a, text) : text \in Texts}
      \cup UNION {{FailedBoot(ops, i, v) : v \in (Words \cup Bad) \ {ops[i].val}} : i \in Gets(a)}]

\* A file that came of a trace has lines of the trace in it, cut or not.
Cut(line, k) == [line EXCEPT !.whole = k]
CutLines(t) == {Cut(t[i], k) : i \in 1..Len(t), k \in 0..4}
ASSUME TraceAssumption ==
  \A a \in BOOLEAN : \A boot \in Boots[a] : Traces(Emit(boot)) \subseteq Seq(CutLines(Emit(boot)))

VARIABLES
  lines, acks, copies,  \* the file, and which build recorded it, which replays it
  log,                  \* the queue: its nodes are shared by all attempts
  hpc, op,              \* where the harness is, and the operation it is at
  round, corrupt,       \* which run of check_success or check_crashes, and of what
  canFail,              \* replay's can_fail_p
  cpc, pos,             \* where the child is, and its next operation or done's pos
  h2c, c2h, reset       \* the socket: tokens to the child, number from it, reset

file == <<lines, acks, copies>>
harness == <<log, hpc, op, round, corrupt, canFail>>
child == <<cpc, pos>>
socket == <<h2c, c2h, reset>>
vars == <<file, harness, child, socket>>

Original == ReadInput(lines)
Script == BootOps(TRUE)
Dead == {"exit0", "exit1"}
Ended == {"done", "err", "killed"}

TypeOK ==
  /\ acks \in BOOLEAN /\ copies \in CopySet
  /\ Len(log) = Len(lines) /\ \A i \in 1..Len(log) : log[i].op = Original[i].op
  /\ hpc \in {"attempt", "op", "eof", "wait"} \cup Ended
  /\ op \in 1..(Len(log) + 1) /\ round \in 1..(2 * Rounds + 1) /\ corrupt \in 0..Len(log)
  /\ canFail \in BOOLEAN
  /\ cpc \in {"none", "boot", "nak", "echo"} \cup Dead
  /\ pos \in 0..(Len(Script) + Len(Exit))
  /\ c2h \in 0..(copies * (Len(Script) + 1)) /\ reset \in BOOLEAN

\* main: read the log, or panic.
Init ==
  /\ acks \in BOOLEAN /\ copies \in CopySet
  /\ \E boot \in Boots[acks] : lines \in Traces(Emit(boot))
  /\ log = Original /\ op = 1 /\ round = 1 /\ corrupt = 0 /\ canFail = FALSE
  /\ hpc = IF Readable(lines) THEN "attempt" ELSE "err"
  /\ cpc = "none" /\ pos = 0
  /\ h2c = <<>> /\ c2h = 0 /\ reset = FALSE
-----------------------------------------------------------------------------
(* The driver.                                                             *)

\* check_crashes walks over the READ32s, up to the first READ8.
Corruptible(i) ==
  /\ i \in 1..Len(log) /\ log[i].op = "READ32"
  /\ \A j \in 1..i : log[j].op # "READ8"
Later == {i \in 1..Len(log) : i > corrupt /\ Corruptible(i)}
First(S) == CHOOSE i \in S : \A j \in S : i <= j

\* mk_endpoint_proc: fork and exec my-install with its end of a new socket.
Spawn(c) ==
  /\ corrupt' = c /\ hpc' = "op" /\ op' = 1 /\ canFail' = FALSE
  /\ cpc' = "boot" /\ pos' = 1
  /\ h2c' = <<>> /\ c2h' = 0 /\ reset' = FALSE

CheckSuccess ==
  /\ hpc = "attempt" /\ round <= Rounds
  /\ Spawn(0) /\ UNCHANGED <<file, log, round>>

CheckCrashes ==
  /\ hpc = "attempt" /\ round \in (Rounds + 1)..(2 * Rounds) /\ Later # {}
  /\ Spawn(First(Later)) /\ UNCHANGED <<file, log, round>>

\* No operation is left to corrupt: the next round, or the end of main.
NextRound ==
  /\ hpc = "attempt" /\ round > Rounds /\ Later = {}
  /\ round' = round + 1 /\ corrupt' = 0
  /\ hpc' = IF round' > 2 * Rounds THEN "done" ELSE "attempt"
  /\ UNCHANGED <<file, log, op, canFail, child, socket>>

\* replay returned, destroy_end closes the socket.
Passed ==
  /\ hpc' = "attempt" /\ round' = IF round <= Rounds THEN round + 1 ELSE round
  /\ UNCHANGED <<file, log, op, corrupt, canFail, child, socket>>
Fail(how) == hpc' = how /\ UNCHANGED <<file, log, op, round, corrupt, canFail, child, socket>>
-----------------------------------------------------------------------------
(* replay: the operation it is at.                                         *)

AtOp(o) == hpc = "op" /\ op <= Len(log) /\ log[op].op \in o
Step == op' = op + 1 /\ UNCHANGED <<file, hpc, round, corrupt, child>>

\* corrupt32, into the node of the queue, which no later run restores: another
\* value than the one it has.
CorruptOp ==
  IF op = corrupt THEN \E v \in Bad \ {log[op].val} : log' = [log EXCEPT ![op].val = v]
                  ELSE UNCHANGED log

\* READ32, READ8: write_exact.
WriteOp ==
  /\ AtOp({"READ32", "READ8"}) /\ cpc \notin Dead
  /\ CorruptOp /\ h2c' = Append(h2c, log'[op].val)
  /\ Step /\ UNCHANGED <<canFail, c2h, reset>>

\* The write finds the socket closed.  check_crashes has had SIGPIPE ignored,
\* check_success has not.
WriteFails ==
  /\ AtOp({"READ32", "READ8"}) /\ cpc \in Dead
  /\ \/ /\ round > Rounds /\ CorruptOp /\ canFail' = TRUE
        /\ Step /\ UNCHANGED socket
     \/ round <= Rounds /\ Fail("killed")

\* WRITE32: read_exact; what was read is not compared.
ReadOp ==
  /\ AtOp({"WRITE32"}) /\ c2h > 0 /\ c2h' = c2h - 1
  /\ Step /\ UNCHANGED <<log, canFail, h2c, reset>>

\* read returns 0 at the end of the file, which ends read_exact as well.
ReadEnd ==
  /\ AtOp({"WRITE32"}) /\ c2h = 0 /\ cpc \in Dead /\ ~reset
  /\ Step /\ UNCHANGED <<log, canFail, socket>>

\* read fails: an error, unless a write has failed before.
ReadReset ==
  /\ AtOp({"WRITE32"}) /\ c2h = 0 /\ cpc \in Dead /\ reset
  /\ \/ canFail /\ Step /\ reset' = FALSE /\ UNCHANGED <<log, canFail, h2c, c2h>>
     \/ ~canFail /\ Fail("err")

\* The log is at its end: wait for the child, or first for its end of file.
LogEnds ==
  /\ hpc = "op" /\ op > Len(log)
  /\ Fail(IF canFail THEN "wait" ELSE "eof")

\* is_eof: select finds something, and a read of 0 bytes does not tell what.
HasData ==
  /\ hpc = "eof" /\ (c2h > 0 \/ cpc \in Dead)
  /\ Fail("wait")

\* get_uint takes the next k tokens: all the copies of four bytes.
Bytes(ts) == 4 * Len(ts) - 3 * Cardinality({i \in 1..Len(ts) : ts[i] \in Chars})
Takes(k) == k \in 1..Len(h2c) /\ Bytes(SubSeq(h2c, 1, k)) = 4 * copies

\* The child needs what the socket does not hold.
ChildBlocked ==
  \/ cpc = "boot" /\ pos <= Len(Script) /\ Script[pos].op = "READ32" /\ \A k \in 1..Len(h2c) : ~Takes(k)
  \/ cpc = "echo" /\ h2c = <<>>

\* select times out, after two seconds in which a child that can go on does.
NoData ==
  /\ hpc = "eof" /\ c2h = 0 /\ ChildBlocked
  /\ Fail("err")

\* proc_exit_code
Status == IF cpc = "exit0" THEN 0 ELSE 1

\* Nonzero when a write failed, 0 otherwise.
ExitCode ==
  /\ hpc = "wait" /\ cpc \in Dead
  /\ IF canFail = (Status # 0) THEN Passed ELSE Fail("err")

Harness ==
  \/ CheckSuccess \/ CheckCrashes \/ NextRound
  \/ WriteOp \/ WriteFails \/ ReadOp \/ ReadEnd \/ ReadReset
  \/ LogEnds \/ HasData \/ NoData \/ ExitCode
-----------------------------------------------------------------------------
(* The child: my-install with the socket for its tty.                      *)

\* exit: the kernel closes its end of the socket.
ExitChild(status) ==
  /\ cpc' = status
  /\ reset' \in {FALSE, Resets /\ h2c' # <<>>}
  /\ UNCHANGED <<file, harness>>

\* Mutant of ChildPuts: a word is put again and again.
ChildPutsOn ==
  /\ cpc = "boot" /\ Script[pos].op = "WRITE32"
  /\ c2h' = c2h + copies
  /\ UNCHANGED <<file, harness, cpc, pos, h2c, reset>>

\* put_uint
ChildPuts ==
  /\ cpc = "boot" /\ Script[pos].op = "WRITE32"
  /\ c2h' = c2h + copies /\ pos' = pos + 1
  /\ UNCHANGED <<file, harness, cpc, h2c, reset>>

\* What get_uint makes of the tokens ts.  A plain build takes a word for what it is,
\* and four characters for none.  A robust one votes over copies that are bytes of
\* several words, most often without a majority, which leaves `byte` uninitialised:
\* its word may be any.
Got(ts) ==
  IF copies > 1 THEN Words \cup Bad
  ELSE IF Len(ts) = 1 THEN {ts[1]} ELSE Bad

\* Mutant of ChildExpects: the word is not compared.
ChildExpectsAnything ==
  /\ cpc = "boot" /\ Script[pos].op = "READ32"
  /\ \E k \in 1..Len(h2c) : Takes(k) /\ h2c' = SubSeq(h2c, k + 1, Len(h2c))
  /\ pos' = IF pos = Len(Script) THEN 0 ELSE pos + 1
  /\ cpc' = IF pos = Len(Script) THEN "echo" ELSE "boot"
  /\ UNCHANGED <<file, harness, c2h, reset>>

\* expect; the last one ends simple_boot, and echo begins.
ChildExpects ==
  /\ cpc = "boot" /\ Script[pos].op = "READ32"
  /\ \E k \in 1..Len(h2c) :
       /\ Takes(k) /\ h2c' = SubSeq(h2c, k + 1, Len(h2c))
       /\ \E v \in Got(SubSeq(h2c, 1, k)) :
            IF v # Script[pos].val THEN cpc' = "nak" /\ UNCHANGED pos
            ELSE IF pos = Len(Script) THEN cpc' = "echo" /\ pos' = 0
            ELSE cpc' = "boot" /\ pos' = pos + 1
  /\ UNCHANGED <<file, harness, c2h, reset>>

\* Mutant of ChildPanics: no exit after the NAK.
ChildPanicsOn ==
  /\ cpc = "nak" /\ cpc' = "echo" /\ pos' = 0 /\ c2h' = c2h + copies
  /\ UNCHANGED <<file, harness, h2c, reset>>

\* put_uint(NAK), panic.
ChildPanics ==
  /\ cpc = "nak" /\ c2h' = c2h + copies
  /\ UNCHANGED <<pos, h2c>> /\ ExitChild("exit1")

\* Mutant of ChildEchoes: pos is no static variable.
ChildEchoesAnew ==
  /\ cpc = "echo" /\ h2c # <<>> /\ h2c' = <<>> /\ UNCHANGED <<pos, c2h>>
  /\ \/ Done(0, h2c).seen /\ ExitChild("exit0")
     \/ ~Done(0, h2c).seen /\ UNCHANGED <<file, harness, cpc, reset>>

\* echo: a read returns what is there; exit(0) when done sees the exit string.
ChildEchoes ==
  /\ cpc = "echo" /\ h2c # <<>> /\ h2c' = <<>> /\ UNCHANGED c2h
  /\ LET m == Done(pos, h2c) IN
       /\ pos' = m.pos
       /\ \/ m.seen /\ ExitChild("exit0")
          \/ ~m.seen /\ UNCHANGED <<file, harness, cpc, reset>>

Child == ChildPuts \/ ChildExpects \/ ChildPanics \/ ChildEchoes
-----------------------------------------------------------------------------
Next == Harness \/ Child
Spec == Init /\ [][Next]_vars

\* Both are processes that run when they can.
FairSpec == Spec /\ WF_vars(Harness) /\ WF_vars(Child)
-----------------------------------------------------------------------------
(* Properties.                                                             *)

\* A file in which lines of the trace are missing but at its end, doubled, out of
\* order or cut is refused: what is replayed is the beginning of a boot.
GapsRefused == hpc # "err" => \E boot \in Boots[acks] : IsPrefix(Original, boot)

\* my-install, reading this text at once, stops to listen at its end.
StopsAtEnd(text) ==
  \A k \in 0..Len(text) : Done(0, SubSeq(text, 1, k)).seen <=> k = Len(text)

\* The logs of boots with ACKs, up to where my-install stopped to listen.
WholeLogs == {Recorded(TRUE, text) : text \in {t \in Texts : StopsAtEnd(t)}}

\* The child is plain, and the file is such a log.
Matching == acks /\ copies = 1 /\ Readable(lines) /\ Original \in WholeLogs

\* "Run the successful attempt N times --- should be the same": however the two
\* processes interleave and wherever reads cut the text, the log of a boot replays to
\* exit code 0 each time, if my-install is built without robust bytes.
ReplaysTheSame == round <= Rounds /\ Matching => hpc \notin {"err", "killed"}

\* my-install reports a boot as good only if each word of the log is the one of the
\* protocol, the SOH, the checksums and each ACK, be it wrong because the harness has
\* corrupted it or because the boot that was traced had failed at it.  A robust build
\* cannot tell, as it votes over bytes of different words, but comes to its end only
\* when the text supplies the copies that the log does not hold, four bytes for each.
SuccessIsEarned ==
  cpc = "exit0" =>
    /\ copies = 1 => \A i \in 1..Len(log) : log[i].op = "READ32" => log[i].val = BootOps(acks)[i].val
    /\ 4 * (copies - 1) * Cardinality(Gets(TRUE)) <= Cardinality({i \in 1..Len(log) : log[i].op = "READ8"})

\* The harness comes to an end although neither of its reads has a time-out: it
\* and the child are never both waiting for the other to write.
HarnessEnds == Matching ~> hpc \in Ended
=============================================================================
