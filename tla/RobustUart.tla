----------------------------- MODULE RobustUart -----------------------------
(***************************************************************************)
(* One direction of the "robust" byte channel that both sides of the boot  *)
(* protocol use: every byte is written ROBUST_ITER times, and the reader   *)
(* takes ROBUST_ITER arriving frames at a time and votes.                  *)
(*                                                                         *)
(*   unix-side/simple-boot.c   send_byte_robust, get_byte_robust           *)
(*   sw-uart/sw-uart.c         sw_uart_putc_robust, sw_uart_getc_robust    *)
(*                                                                         *)
(* Neither side marks where a group of copies begins: the reader only      *)
(* counts.  The line between them may damage a frame, lose one (the        *)
(* bit-banged receiver missed a start bit) or invent one (a glitch read as *)
(* a start bit).  A frame is a byte value; which bits of it were hit is    *)
(* left out, because the vote compares whole bytes.                        *)
(***************************************************************************)
EXTENDS Integers, Sequences, Functions

CONSTANTS
  Byte,       \* the byte values the line can carry
  Iter,       \* ROBUST_ITER: copies of each byte (5 in simple-boot.h)
  Unset,      \* what the reader's local `byte` may hold before a vote:
              \* {255} in sw-uart.c, any value in simple-boot.c, which
              \* leaves it uninitialised
  Message,    \* the bytes the sender is asked to send, in order
  MaxBad, MaxLost, MaxExtra   \* bounds on line faults, for model checking

\* hash[c] is a char: a count above 127 would not fit.
ASSUME IterAssumption == Iter \in 1..127
ASSUME ByteAssumption == Unset \subseteq Byte /\ Unset # {} /\ Message \in Seq(Byte)
ASSUME FaultAssumption == MaxBad \in Nat /\ MaxLost \in Nat /\ MaxExtra \in Nat

VARIABLES
  sent,    \* bytes the sender has finished
  copy,    \* copies of the next byte already written (`i` of the sender)
  got,     \* frames in the reader's current group (`i` of the reader)
  hash,    \* hash[c]: copies of c in the current group
  byte,    \* the reader's `byte`
  out,     \* the bytes the reader has returned
  bad, lost, extra,   \* faults so far, by kind
  hurt     \* hurt[k]: faults that struck while byte k was being sent

sender == <<sent, copy>>
reader == <<got, hash, byte, out>>
faults == <<bad, lost, extra, hurt>>
vars == <<sender, reader, faults>>

N == Len(Message)
NoVotes == [c \in Byte |-> 0]

\* Slip: half of a group, rounded down, already counts as a majority.
MajorityAtHalf(votes) == votes * 2 >= Iter - 1

\* More than half of the copies of a group: `hash[c] * 2 > robust_iter`.
Majority(votes) == votes * 2 > Iter

-----------------------------------------------------------------------------
TypeOK ==
  /\ sent \in 0..N /\ copy \in 0..(Iter - 1)
  /\ got \in 0..(Iter - 1) /\ hash \in [Byte -> 0..Iter] /\ byte \in Byte
  /\ out \in Seq(Byte)
  /\ bad \in Nat /\ lost \in Nat /\ extra \in Nat
  /\ hurt \in [1..N -> Nat]

Init ==
  /\ sent = 0 /\ copy = 0
  /\ got = 0 /\ hash = NoVotes /\ byte \in Unset /\ out = <<>>
  /\ bad = 0 /\ lost = 0 /\ extra = 0 /\ hurt = [k \in 1..N |-> 0]

\* Slips in the sender's loop: one copy too few, one too many.
WriteCopyShort ==
  /\ sent < N
  /\ IF copy + 2 < Iter THEN copy' = copy + 1 /\ sent' = sent
                        ELSE copy' = 0 /\ sent' = sent + 1
WriteCopyLong ==
  /\ sent < N
  /\ IF copy < Iter THEN copy' = copy + 1 /\ sent' = sent
                    ELSE copy' = 0 /\ sent' = sent + 1

\* One turn of the sender's loop; after Iter of them it goes to the next byte.
WriteCopy ==
  /\ sent < N
  /\ IF copy + 1 < Iter THEN copy' = copy + 1 /\ sent' = sent
                        ELSE copy' = 0 /\ sent' = sent + 1

\* Slip: the votes of a group are not cleared for the next one.
ReadFrameKeepingVotes(c) ==
  LET votes == [hash EXCEPT ![c] = @ + 1]
      best  == IF Majority(votes[c]) THEN c ELSE byte
  IN IF got + 1 < Iter
       THEN got' = got + 1 /\ hash' = votes /\ byte' = best /\ out' = out
       ELSE got' = 0 /\ hash' = votes /\ byte' \in Unset /\ out' = Append(out, best)

\* One turn of the reader's loop on frame c.  The call returns after Iter
\* turns, and the next call starts with cleared votes and a fresh `byte`.
ReadFrame(c) ==
  LET votes == [hash EXCEPT ![c] = @ + 1]
      best  == IF Majority(votes[c]) THEN c ELSE byte
  IN IF got + 1 < Iter
       THEN got' = got + 1 /\ hash' = votes /\ byte' = best /\ out' = out
       ELSE /\ got' = 0 /\ hash' = NoVotes /\ byte' \in Unset
            /\ out' = Append(out, best)

Strike == hurt' = [k \in 1..N |-> hurt[k] + (IF k = sent + 1 THEN 1 ELSE 0)]

Deliver ==
  /\ WriteCopy
  /\ ReadFrame(Message[sent + 1])
  /\ UNCHANGED faults

Damage ==
  /\ bad < MaxBad
  /\ WriteCopy
  /\ \E c \in Byte \ {Message[sent + 1]} : ReadFrame(c)
  /\ bad' = bad + 1 /\ Strike
  /\ UNCHANGED <<lost, extra>>

Lose ==
  /\ lost < MaxLost
  /\ WriteCopy
  /\ lost' = lost + 1 /\ Strike
  /\ UNCHANGED <<reader, bad, extra>>

Invent ==
  /\ extra < MaxExtra
  /\ \E c \in Byte : ReadFrame(c)
  /\ extra' = extra + 1 /\ Strike
  /\ UNCHANGED <<sender, bad, lost>>

Next == Deliver \/ Damage \/ Lose \/ Invent

Spec == Init /\ [][Next]_vars

-----------------------------------------------------------------------------
\* The faults so far are fewer than half a group of copies, counted the way
\* they add up in one group: a damaged frame and a lost one can both put a
\* wrong frame in a group, and so can a damaged one and an invented one, but
\* a lost frame and an invented one cancel.
FewFaults == 2 * (bad + lost) < Iter /\ 2 * (bad + extra) < Iter

\* As long as the faults of the whole transfer stay below half a group, the
\* bytes get_byte_robust / sw_uart_getc_robust return are the bytes sent, in
\* order, with none skipped, repeated or made up, although the reader slips
\* against the sender with every lost or invented frame.
ReadsWhatWasSent ==
  FewFaults => /\ Len(out) <= N
               /\ \A k \in 1..Len(out) : out[k] = Message[k]

\* With as many frames invented as lost, or more, the sender finishing
\* means that the last get_byte_robust has returned: the reader
\* is not left inside a group waiting for copies nobody will send.
NoneLeftWaiting ==
  FewFaults /\ sent = N /\ lost <= extra => Len(out) = N

\* While frames are only damaged, each byte is voted on alone: one whose
\* copies were mostly intact is read correctly however badly the bytes
\* around it were hit.
ErrorsStayLocal ==
  lost = 0 /\ extra = 0 =>
    \A k \in 1..Len(out) : 2 * hurt[k] < Iter => out[k] = Message[k]

\* The vote is taken after every frame, not at the end of the group: once a
\* value has more than half of a group, no later frame of the group takes
\* `byte` from it, and it is what the call returns.
MajorityKept ==
  Majority(hash[byte]) => IF Len(out') = Len(out) THEN byte' = byte
                                                  ELSE out' = Append(out, byte)
VoteIsFinal == [][MajorityKept]_vars

\* README.md:100-102 offers redundant bytes and a vote on the correct one as
\* the way "to ensure a zero data corruption rate": faults that strike a
\* minority of the copies of every byte should then be harmless.
MinorityHarmless ==
  (\A k \in 1..N : 2 * hurt[k] < Iter) =>
    \A k \in 1..Len(out) : k <= N /\ out[k] = Message[k]
=============================================================================
