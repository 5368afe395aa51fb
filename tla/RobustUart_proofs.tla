-------------------------- MODULE RobustUart_proofs --------------------------
(***************************************************************************)
(* Proofs about RobustUart for every message, every byte alphabet, every   *)
(* number of copies up to 127 and any number of line faults.               *)
(***************************************************************************)
EXTENDS RobustUart, TLAPS

-----------------------------------------------------------------------------
(* The reader's votes.                                                     *)

\* A group never holds more votes than frames, so two values cannot both
\* have the majority, and `byte` is the one that has it.
VotesOK ==
  /\ \A c \in Byte : hash[c] <= got
  /\ \A c, d \in Byte : c # d => hash[c] + hash[d] <= got
  /\ \A c \in Byte : Majority(hash[c]) => byte = c

\* The sender stops after the last copy of the last byte.
SenderOK == sent = N => copy = 0

TypeInv == TypeOK /\ VotesOK /\ SenderOK

LEMMA TypeFacts ==
  ASSUME TypeInv
  PROVE  /\ Len(out) \in Nat /\ Len(out) \in Int /\ out \in Seq(Byte)
         /\ got \in Nat /\ got \in Int /\ got \in 0..Iter /\ got + 1 \in 0..Iter
         /\ sent \in Int /\ copy \in Int /\ copy \in 0..Iter /\ copy + 1 \in 0..Iter
         /\ hash \in [Byte -> Nat]
         /\ bad \in Nat /\ lost \in Nat /\ extra \in Nat
         /\ bad \in Int /\ lost \in Int /\ extra \in Int
  BY IterAssumption DEF TypeInv, TypeOK

LEMMA AppendFacts ==
  ASSUME NEW s \in Seq(Byte), NEW x \in Byte, NEW t, t = Append(s, x)
  PROVE  /\ Len(t) = Len(s) + 1
         /\ \A k \in 1..(Len(s) + 1) : t[k] = IF k = Len(s) + 1 THEN x ELSE s[k]
  OBVIOUS

LEMMA MessageType == N \in Nat /\ \A k \in 1..N : Message[k] \in Byte
  BY ByteAssumption DEF N

\* What one turn of the reader's loop preserves, whatever the frame.
LEMMA ReadFrameKeepsVotes ==
  ASSUME TypeInv, NEW c \in Byte, ReadFrame(c)
  PROVE  /\ got' \in 0..(Iter - 1) /\ hash' \in [Byte -> 0..Iter]
         /\ byte' \in Byte /\ out' \in Seq(Byte)
         /\ VotesOK'
<1> DEFINE votes == [hash EXCEPT ![c] = @ + 1]
           best  == IF Majority(votes[c]) THEN c ELSE byte
<1> USE IterAssumption DEF TypeInv, TypeOK
<1>1. /\ votes \in [Byte -> 0..Iter]
      /\ \A d \in Byte : votes[d] = IF d = c THEN hash[d] + 1 ELSE hash[d]
      /\ best \in Byte
  BY DEF VotesOK
<1>2. CASE got + 1 < Iter
  <2>1. got' = got + 1 /\ hash' = votes /\ byte' = best /\ out' = out
    BY <1>2 DEF ReadFrame
  <2>2. \A d \in Byte : votes[d] <= got + 1
    BY <1>1 DEF VotesOK
  <2>3. \A d, e \in Byte : d # e => votes[d] + votes[e] <= got + 1
    BY <1>1 DEF VotesOK
  <2>4. \A d \in Byte : Majority(votes[d]) => best = d
    BY <1>1, <2>3, <1>2 DEF VotesOK, Majority
  <2> HIDE DEF votes, best
  <2>5. QED BY <1>1, <1>2, <2>1, <2>2, <2>3, <2>4 DEF VotesOK
<1>3. CASE ~(got + 1 < Iter)
  <2>1. got' = 0 /\ hash' = NoVotes /\ byte' \in Unset /\ out' = Append(out, best)
    BY <1>3 DEF ReadFrame
  <2>2. out' \in Seq(Byte)
    BY <1>1, <2>1
  <2>3. QED BY <2>1, <2>2, ByteAssumption DEF NoVotes, VotesOK, Majority
<1>4. QED BY <1>2, <1>3

LEMMA WriteCopyType ==
  ASSUME TypeInv, WriteCopy
  PROVE  sent' \in 0..N /\ copy' \in 0..(Iter - 1) /\ SenderOK' /\ sent + 1 \in 1..N
  BY IterAssumption, MessageType DEF TypeInv, TypeOK, SenderOK, N, WriteCopy

LEMMA StrikeType == ASSUME TypeInv, Strike PROVE hurt' \in [1..N -> Nat]
  BY MessageType DEF TypeInv, TypeOK, Strike

\* The type invariant and the votes are kept by every turn of either loop
\* and every fault of the line.
LEMMA TypeStep == TypeInv /\ [Next]_vars => TypeInv'
<1> SUFFICES ASSUME TypeInv, [Next]_vars PROVE TypeInv'
  OBVIOUS
<1>1. CASE Deliver
  <2>1. Message[sent + 1] \in Byte
    BY <1>1, WriteCopyType, MessageType DEF Deliver
  <2>2. QED BY <1>1, <2>1, WriteCopyType, ReadFrameKeepsVotes
            DEF Deliver, TypeInv, TypeOK, faults
<1>2. CASE Damage
  <2>1. PICK c \in Byte : ReadFrame(c)
    BY <1>2 DEF Damage
  <2>2. WriteCopy /\ Strike /\ bad' = bad + 1 /\ lost' = lost /\ extra' = extra
    BY <1>2 DEF Damage
  <2>3. sent' \in 0..N /\ copy' \in 0..(Iter - 1) /\ SenderOK' /\ hurt' \in [1..N -> Nat]
    BY <2>2, WriteCopyType, StrikeType
  <2>4. bad' \in Nat /\ lost' \in Nat /\ extra' \in Nat
    BY <2>2 DEF TypeInv, TypeOK
  <2>5. QED BY <2>1, <2>3, <2>4, ReadFrameKeepsVotes DEF TypeInv, TypeOK
<1>3. CASE Lose
  BY <1>3, WriteCopyType, StrikeType
     DEF Lose, TypeInv, TypeOK, VotesOK, Majority, reader
<1>4. CASE Invent
  <2>1. PICK c \in Byte : ReadFrame(c)
    BY <1>4 DEF Invent
  <2>2. Strike /\ extra' = extra + 1 /\ sent' = sent /\ copy' = copy /\ bad' = bad /\ lost' = lost
    BY <1>4 DEF Invent, sender
  <2>3. sent' \in 0..N /\ copy' \in 0..(Iter - 1) /\ SenderOK' /\ hurt' \in [1..N -> Nat]
    BY <2>2, StrikeType DEF TypeInv, TypeOK, SenderOK, N
  <2>4. bad' \in Nat /\ lost' \in Nat /\ extra' \in Nat
    BY <2>2 DEF TypeInv, TypeOK
  <2>5. QED BY <2>1, <2>3, <2>4, ReadFrameKeepsVotes DEF TypeInv, TypeOK
<1>5. CASE UNCHANGED vars
  BY <1>5 DEF vars, sender, reader, faults, TypeInv, TypeOK, VotesOK, Majority, SenderOK, N
<1>6. QED BY <1>1, <1>2, <1>3, <1>4, <1>5 DEF Next

LEMMA TypeInit == Init => TypeInv
  BY IterAssumption, ByteAssumption, MessageType
     DEF Init, TypeInv, TypeOK, VotesOK, NoVotes, Majority, SenderOK

\* Type correctness of both loops.
THEOREM TypeCorrect == Spec => []TypeInv
<1>1. QED BY TypeInit, TypeStep, PTL DEF Spec

\* The types of the reader and the sender, without what the proofs add to them.
THEOREM TypeSafe == Spec => []TypeOK
<1>1. TypeInv => TypeOK
  BY DEF TypeInv
<1>2. QED BY <1>1, TypeCorrect, PTL

\* A majority, once reached in a group, is never taken back and is returned.
THEOREM VoteFinal == Spec => VoteIsFinal
<1>1. ASSUME TypeInv, [Next]_vars, Majority(hash[byte])
      PROVE  IF Len(out') = Len(out) THEN byte' = byte
                                     ELSE out' = Append(out, byte)
  <2>1. ASSUME NEW c \in Byte, ReadFrame(c)
        PROVE  IF Len(out') = Len(out) THEN byte' = byte
                                       ELSE out' = Append(out, byte)
    <3> DEFINE votes == [hash EXCEPT ![c] = @ + 1]
               best  == IF Majority(votes[c]) THEN c ELSE byte
    <3>1. best = byte
      <4>1. CASE c = byte
        BY <4>1
      <4>2. CASE c # byte
        <5>1. hash[c] + hash[byte] <= got /\ got + 1 <= Iter
          BY <1>1, <4>2, IterAssumption DEF TypeInv, TypeOK, VotesOK
        <5>2. ~Majority(votes[c])
          BY <1>1, <4>2, <5>1, IterAssumption DEF TypeInv, TypeOK, Majority
        <5>3. QED BY <5>2
      <4>3. QED BY <4>1, <4>2
    <3>2. (got + 1 < Iter /\ byte' = best /\ out' = out)
            \/ out' = Append(out, best)
      BY <2>1 DEF ReadFrame
    <3>3. Len(Append(out, best)) = Len(out) + 1 /\ Len(out) \in Nat
      BY <1>1 DEF TypeInv, TypeOK
    <3> HIDE DEF best
    <3>4. QED BY <3>1, <3>2, <3>3
  <2>2. \/ \E c \in Byte : ReadFrame(c)
        \/ UNCHANGED reader
    <3>1. ASSUME WriteCopy PROVE Message[sent + 1] \in Byte
      BY <1>1, <3>1, WriteCopyType, MessageType
    <3>2. QED BY <1>1, <3>1 DEF Next, Deliver, Damage, Lose, Invent, vars
  <2>3. QED BY <2>1, <2>2 DEF reader
<1>2. TypeInv /\ [Next]_vars => [MajorityKept]_vars
  BY <1>1 DEF MajorityKept
<1>3. QED BY <1>2, TypeInit, TypeStep, PTL DEF Spec, VoteIsFinal

-----------------------------------------------------------------------------
(* What the reader returns.                                                *)

\* How far the reader's groups have slipped against the sender's.  The sender
\* is at copy c of byte s, the reader has t frames of group g, and the line has
\* lost d frames more than it invented: under FewFaults d is less than a group,
\* so the sender is in the byte being read or in one of its two neighbours.
AlignedAt(s, c, g, t, d) ==
  \/ s = g     /\ c = t + d
  \/ s = g + 1 /\ c + Iter = t + d
  \/ s = g - 1 /\ c - Iter = t + d

\* The frames w of group g that are not copies of its byte: those damaged (b)
\* or invented (e), those of the byte before, which an invented frame pushed
\* here, and, once the sender has gone on, the c copies of the next byte.
FewWrongAt(s, c, g, w, b, e) ==
  /\ s = g     => w <= b + e
  /\ s = g + 1 => w <= b + e + c

Aligned == AlignedAt(sent, copy, Len(out), got, lost - extra)
Wrong == got - hash[Message[Len(out) + 1]]
FewWrong == Len(out) < N => FewWrongAt(sent, copy, Len(out), Wrong, bad, extra)
RightSoFar == Len(out) <= N /\ \A k \in 1..Len(out) : out[k] = Message[k]

\* The inductive invariant, besides TypeInv.
GroupInv == FewFaults => Aligned /\ FewWrong /\ RightSoFar

\* The sender's index after the copy counted as q: it wraps at Iter.
Wrapped(s, q, s2, c2) ==
  \/ q < Iter /\ s2 = s     /\ c2 = q
  \/ q = Iter /\ s2 = s + 1 /\ c2 = 0

\* The arithmetic of the slip, for any counts within the bound of FewFaults:
\* the sender's wrap keeps both bounds, fewer than half of a full group are
\* wrong, and the next group starts aligned.
Slight(d, b, l, e) == d = l - e /\ 2 * (b + l) < Iter /\ 2 * (b + e) < Iter

LEMMA WrapAligned ==
  ASSUME NEW s \in Int, NEW q \in 0..Iter, NEW g \in Nat, NEW t \in 0..Iter,
         NEW d \in Int, NEW b \in Nat, NEW l \in Nat, NEW e \in Nat,
         NEW s2 \in Int, NEW c2 \in Int, Wrapped(s, q, s2, c2),
         Slight(d, b, l, e), AlignedAt(s, q, g, t, d)
  PROVE  AlignedAt(s2, c2, g, t, d)
  BY IterAssumption DEF AlignedAt, Wrapped, Slight

\* All that is known of a group with w wrong frames among its t.
GroupAt(s, q, g, t, d, w, b, l, e) ==
  /\ s \in Int /\ q \in 0..Iter /\ g \in Nat /\ t \in 0..Iter
  /\ d \in Int /\ b \in Nat /\ l \in Nat /\ e \in Nat /\ w \in Int /\ w <= t
  /\ Slight(d, b, l, e) /\ AlignedAt(s, q, g, t, d) /\ FewWrongAt(s, q, g, w, b, e)

LEMMA WrapFewWrong ==
  ASSUME NEW s, NEW q, NEW g, NEW t, NEW d, NEW w, NEW b, NEW l, NEW e,
         GroupAt(s, q, g, t, d, w, b, l, e),
         NEW s2 \in Int, NEW c2 \in Int, Wrapped(s, q, s2, c2)
  PROVE  FewWrongAt(s2, c2, g, w, b, e)
<1>1. /\ s \in Int /\ q \in 0..Iter /\ g \in Nat /\ t \in 0..Iter
      /\ d \in Int /\ b \in Nat /\ l \in Nat /\ e \in Nat /\ w \in Int /\ w <= t
  BY DEF GroupAt
<1>2. Slight(d, b, l, e) /\ AlignedAt(s, q, g, t, d) /\ FewWrongAt(s, q, g, w, b, e)
  BY DEF GroupAt
<1> HIDE DEF GroupAt
<1>3. QED BY <1>1, <1>2, IterAssumption DEF AlignedAt, FewWrongAt, Wrapped, Slight

LEMMA FullGroupWins ==
  ASSUME NEW s \in Int, NEW c \in 0..(Iter - 1), NEW g \in Nat, NEW w \in Int,
         NEW d \in Int, NEW b \in Nat, NEW l \in Nat, NEW e \in Nat,
         Slight(d, b, l, e), AlignedAt(s, c, g, Iter, d),
         FewWrongAt(s, c, g, w, b, e)
  PROVE  2 * w < Iter
  BY IterAssumption DEF AlignedAt, FewWrongAt, Slight

LEMMA FullGroupIsSent ==
  ASSUME NEW s \in Int, NEW c \in 0..(Iter - 1), NEW g \in Nat, NEW n \in Nat,
         NEW d \in Int, NEW b \in Nat, NEW l \in Nat, NEW e \in Nat,
         Slight(d, b, l, e), AlignedAt(s, c, g, Iter, d), s <= n, s = n => c = 0
  PROVE  g < n
  BY IterAssumption DEF AlignedAt, Slight

LEMMA NextGroup ==
  ASSUME NEW s \in Int, NEW c \in 0..(Iter - 1), NEW g \in Nat,
         NEW d \in Int, NEW b \in Nat, NEW l \in Nat, NEW e \in Nat,
         Slight(d, b, l, e), AlignedAt(s, c, g, Iter, d)
  PROVE  /\ AlignedAt(s, c, g + 1, 0, d)
         /\ FewWrongAt(s, c, g + 1, 0, b, e)
  BY IterAssumption DEF AlignedAt, FewWrongAt, Slight

\* The group the reader returns when FewFaults holds is won by its byte.
LEMMA RightByteWins ==
  ASSUME TypeInv, NEW c \in Byte, ReadFrame(c), got + 1 = Iter,
         Len(out) < N,
         2 * ((got + 1) - [hash EXCEPT ![c] = @ + 1][Message[Len(out) + 1]]) < Iter
  PROVE  out' = Append(out, Message[Len(out) + 1])
<1> DEFINE m == Message[Len(out) + 1]
           votes == [hash EXCEPT ![c] = @ + 1]
           best  == IF Majority(votes[c]) THEN c ELSE byte
<1>1. m \in Byte /\ hash \in [Byte -> Nat] /\ Iter \in Nat /\ got \in Nat
  BY MessageType, IterAssumption DEF TypeInv, TypeOK
<1>2. out' = Append(out, best)
  BY <1>1 DEF ReadFrame
<1>3. Majority(votes[m])
  <2>1. votes[m] \in Nat
    BY <1>1
  <2>2. 2 * ((got + 1) - votes[m]) < Iter
    OBVIOUS
  <2> HIDE DEF votes
  <2>3. QED BY <1>1, <2>1, <2>2 DEF Majority
<1>4. CASE m = c
  BY <1>2, <1>3, <1>4
<1>5. CASE m # c
  <2>1. Majority(hash[m]) /\ byte = m
    BY <1>1, <1>3, <1>5 DEF TypeInv, VotesOK
  <2>2. hash[c] + hash[m] <= got
    BY <1>1, <1>5 DEF TypeInv, VotesOK
  <2>3. got \in Nat
    BY DEF TypeInv, TypeOK
  <2>4. ~Majority(votes[c])
    BY <1>1, <2>1, <2>2, <2>3 DEF Majority
  <2>5. QED BY <1>2, <2>1, <2>4
<1>6. QED BY <1>4, <1>5


-----------------------------------------------------------------------------
(* Every step keeps GroupInv.                                              *)

\* Wrong frames in the group once c is counted in it.
WrongWith(c) == (got + 1) - [hash EXCEPT ![c] = @ + 1][Message[Len(out) + 1]]

\* One frame c read, in terms of the counts after it: b, l and e faults,
\* d = l - e, and the sender's index q before it wraps.  The bounds hold at q
\* for the group with the frame in it; then they hold after the step.
LEMMA GroupRead ==
  ASSUME TypeInv, TypeInv', RightSoFar, NEW c \in Byte, ReadFrame(c),
         NEW q \in 0..Iter, Wrapped(sent, q, sent', copy'),
         NEW b \in Nat, NEW l \in Nat, NEW e \in Nat, NEW d \in Int,
         bad' = b, lost' = l, extra' = e, Slight(d, b, l, e),
         AlignedAt(sent, q, Len(out), got + 1, d),
         Len(out) < N =>
           FewWrongAt(sent, q, Len(out), WrongWith(c), b, e)
  PROVE  Aligned' /\ FewWrong' /\ RightSoFar'
<1> DEFINE g == Len(out)
           m == Message[g + 1]
           votes == [hash EXCEPT ![c] = @ + 1]
           w == (got + 1) - votes[m]
<1>1. /\ g \in Nat /\ N \in Nat /\ Iter \in Nat /\ got \in Nat
      /\ sent \in Int /\ hash \in [Byte -> Nat] /\ g <= N
  <2>1. N \in Nat /\ Iter \in Nat
    BY IterAssumption, MessageType
  <2>2. g \in Nat /\ got \in Nat /\ sent \in Int /\ hash \in [Byte -> Nat]
    BY TypeFacts
  <2>3. QED BY <2>1, <2>2 DEF RightSoFar
<1>2. got + 1 \in 0..Iter
  BY TypeFacts
<1>3. sent' \in 0..N /\ sent' \in Int
  BY <1>1 DEF TypeInv, TypeOK, N
<1>4. copy' \in 0..(Iter - 1) /\ copy' \in Int
  BY <1>1 DEF TypeInv, TypeOK
<1>5. ASSUME g < N PROVE m \in Byte /\ votes[m] \in Nat /\ w \in Int /\ w <= got + 1
  <2>1. m \in Byte
    BY <1>1, <1>5, MessageType
  <2>2. votes[m] \in Nat
    BY <1>1, <2>1
  <2> HIDE DEF votes, m
  <2>3. \A v \in Nat : (got + 1) - v \in Int /\ (got + 1) - v <= got + 1
    BY <1>1
  <2>4. QED BY <2>1, <2>2, <2>3
<1> HIDE DEF votes, m, w, g
<1>6. AlignedAt(sent', copy', g, got + 1, d)
  BY <1>1, <1>2, <1>3, <1>4, WrapAligned DEF g
<1>7. ASSUME g < N PROVE FewWrongAt(sent', copy', g, w, b, e)
  <2>1. FewWrongAt(sent, q, g, w, b, e) /\ AlignedAt(sent, q, g, got + 1, d)
    BY <1>7 DEF g, w, votes, m, WrongWith
  <2>2. GroupAt(sent, q, g, got + 1, d, w, b, l, e)
    BY <1>1, <1>2, <1>5, <1>7, <2>1 DEF GroupAt
  <2>3. QED BY <1>3, <1>4, <2>2, WrapFewWrong
<1>8. d = lost' - extra'
  BY DEF Slight
<1>9. CASE got + 1 < Iter
  <2>1. got' = got + 1 /\ hash' = votes /\ out' = out
    BY <1>9 DEF ReadFrame, votes
  <2>2. Aligned'
    BY <1>6, <1>8, <2>1 DEF Aligned, g
  <2>3. Wrong' = w
    <3>1. Message[Len(out') + 1] = m
      BY <2>1 DEF m, g
    <3>2. Wrong' = got' - hash'[Message[Len(out') + 1]]
      BY DEF Wrong
    <3>3. QED BY <2>1, <3>1, <3>2 DEF w
  <2>4. g < N => FewWrongAt(sent', copy', g, Wrong', bad', extra')
    BY <1>7, <2>3
  <2>5. QED BY <2>1, <2>2, <2>4 DEF FewWrong, RightSoFar, N, g
<1>10. CASE got + 1 = Iter
  <2>1. AlignedAt(sent', copy', g, Iter, d)
    BY <1>6, <1>10
  <2>2. AlignedAt(sent', copy', g + 1, 0, d) /\ FewWrongAt(sent', copy', g + 1, 0, b, e)
    BY <1>1, <1>3, <1>4, <2>1, NextGroup
  <2>3. g < N
    <3>1. sent' <= N /\ (sent' = N => copy' = 0)
      BY <1>1, <1>3 DEF TypeInv, SenderOK, N
    <3>2. QED BY <1>1, <1>3, <1>4, <2>1, <3>1, FullGroupIsSent
  <2>4. 2 * w < Iter
    BY <1>1, <1>3, <1>4, <1>5, <1>7, <2>1, <2>3, FullGroupWins
  <2>5. out' = Append(out, m)
    BY <1>10, <2>3, <2>4, RightByteWins DEF g, w, votes, m
  <2>6. got' = 0 /\ hash' = NoVotes
    BY <1>1, <1>10 DEF ReadFrame
  <2>7. /\ Len(out') = g + 1
        /\ \A k \in 1..(g + 1) : out'[k] = IF k = g + 1 THEN m ELSE out[k]
    <3>1. out \in Seq(Byte) /\ m \in Byte
      BY <1>5, <2>3, TypeFacts
    <3>2. QED BY <2>5, <3>1, AppendFacts DEF g
  <2>8. Aligned'
    BY <1>8, <2>2, <2>6, <2>7 DEF Aligned
  <2>9. g + 1 < N => Wrong' = 0
    BY <1>1, <2>6, <2>7, MessageType DEF Wrong, NoVotes
  <2>10. FewWrong'
    BY <2>2, <2>7, <2>9 DEF FewWrong, N
  <2>11. RightSoFar'
    <3>1. \A k \in 1..g : out[k] = Message[k]
      BY DEF RightSoFar, g
    <3>2. \A k \in 1..(g + 1) : k = g + 1 \/ k \in 1..g
      BY <1>1
    <3>3. \A k \in 1..(g + 1) : out'[k] = Message[k]
      BY <2>7, <3>1, <3>2 DEF m
    <3>4. g + 1 <= N
      BY <1>1, <2>3
    <3>5. QED BY <2>7, <3>3, <3>4 DEF RightSoFar, N
  <2>12. QED BY <2>8, <2>10, <2>11
<1>11. QED BY <1>1, <1>2, <1>9, <1>10

\* How the bounds move with one more copy sent, frame read, or both.
LEMMA AlignedMoves ==
  ASSUME NEW s \in Int, NEW c \in Int, NEW g \in Int, NEW t \in Int, NEW d \in Int,
         AlignedAt(s, c, g, t, d)
  PROVE  /\ AlignedAt(s, c + 1, g, t + 1, d)
         /\ AlignedAt(s, c + 1, g, t, d + 1)
         /\ AlignedAt(s, c, g, t + 1, d - 1)
  BY IterAssumption DEF AlignedAt

LEMMA FewWrongMoves ==
  ASSUME NEW s \in Int, NEW c \in Int, NEW g \in Int, NEW w \in Int, NEW v \in Int,
         NEW b \in Int, NEW e \in Int, FewWrongAt(s, c, g, w, b, e), v <= w + 1
  PROVE  /\ FewWrongAt(s, c + 1, g, w, b, e)
         /\ FewWrongAt(s, c + 1, g, v, b + 1, e)
         /\ FewWrongAt(s, c, g, v, b, e + 1)
         /\ (s = g => v = w) => FewWrongAt(s, c + 1, g, v, b, e)
  BY DEF FewWrongAt

LEMMA SlightMoves ==
  ASSUME NEW b \in Nat, NEW l \in Nat, NEW e \in Nat,
         NEW i \in {0, 1}, NEW j \in {0, 1}, NEW k \in {0, 1},
         2 * (b + i + l + j) < Iter, 2 * (b + i + e + k) < Iter
  PROVE  /\ 2 * (b + l) < Iter /\ 2 * (b + e) < Iter
         /\ Slight((l + j) - (e + k), b + i, l + j, e + k)
  BY IterAssumption DEF Slight

LEMMA OneMoreFrame ==
  ASSUME TypeInv, Len(out) < N, NEW c \in Byte
  PROVE  /\ Wrong \in Int /\ Wrong <= got /\ WrongWith(c) \in Int
         /\ WrongWith(c) <= Wrong + 1
         /\ c = Message[Len(out) + 1] => WrongWith(c) = Wrong
<1> DEFINE m == Message[Len(out) + 1]
           votes == [hash EXCEPT ![c] = @ + 1]
<1>1. m \in Byte
  BY TypeFacts, MessageType
<1>2. hash[m] \in Nat /\ votes[m] = IF c = m THEN hash[m] + 1 ELSE hash[m]
  BY <1>1, TypeFacts
<1>3. got \in Nat
  BY TypeFacts
<1> HIDE DEF votes, m
<1>4. \A h \in Nat : /\ got - h \in Int /\ got - h <= got
                     /\ (got + 1) - h \in Int /\ (got + 1) - h <= got - h + 1
                     /\ (got + 1) - (h + 1) = got - h
                     /\ got - h <= got - h + 1
  BY <1>3
<1>5. Wrong = got - hash[m] /\ WrongWith(c) = (got + 1) - votes[m]
  BY DEF Wrong, WrongWith, m, votes
<1>6. CASE c = m
  BY <1>2, <1>4, <1>5, <1>6 DEF m
<1>7. CASE c # m
  BY <1>2, <1>4, <1>5, <1>7 DEF m
<1>8. QED BY <1>6, <1>7

\* What a step adds to the counts of faults.
FaultsAfter(i, j, k) == bad' = bad + i /\ lost' = lost + j /\ extra' = extra + k

LEMMA FewFaultsBefore ==
  ASSUME TypeInv, FewFaults', NEW i \in {0, 1}, NEW j \in {0, 1}, NEW k \in {0, 1},
         FaultsAfter(i, j, k)
  PROVE  /\ FewFaults
         /\ Slight((lost + j) - (extra + k), bad + i, lost + j, extra + k)
<1>1. bad \in Nat /\ lost \in Nat /\ extra \in Nat
  BY DEF TypeInv, TypeOK
<1>2. 2 * ((bad + i) + (lost + j)) < Iter /\ 2 * ((bad + i) + (extra + k)) < Iter
  BY DEF FewFaults, FaultsAfter
<1>3. 2 * (bad + i + lost + j) < Iter /\ 2 * (bad + i + extra + k) < Iter
  BY <1>1, <1>2, IterAssumption
<1>4. QED BY <1>1, <1>3, SlightMoves DEF FewFaults

\* A lost frame moves the sender on alone.
LEMMA LoseStep ==
  ASSUME TypeInv, TypeInv', GroupInv, FewFaults', Lose
  PROVE  Aligned' /\ FewWrong' /\ RightSoFar'
<1> DEFINE g == Len(out)
           d == (lost + 1) - (extra + 0)
<1>1. FaultsAfter(0, 1, 0)
  BY DEF Lose, FaultsAfter, TypeInv, TypeOK
<1>2. FewFaults /\ Slight(d, bad + 0, lost + 1, extra + 0)
  BY <1>1, FewFaultsBefore
<1>3. /\ sent \in Int /\ copy \in Int /\ copy + 1 \in 0..Iter
      /\ g \in Nat /\ g \in Int /\ got \in Nat /\ got \in 0..Iter /\ got \in Int
      /\ bad \in Int /\ extra \in Int
  BY TypeFacts
<1>4. sent' \in Int /\ copy' \in Int /\ Wrapped(sent, copy + 1, sent', copy')
  BY <1>3, IterAssumption DEF Lose, WriteCopy, Wrapped
<1>5. bad + 0 \in Nat /\ lost + 1 \in Nat /\ extra + 0 \in Nat /\ d \in Int
      /\ bad \in Nat /\ extra \in Nat /\ lost - extra \in Int /\ d = (lost - extra) + 1
      /\ bad + 0 = bad /\ extra + 0 = extra
  BY DEF TypeInv, TypeOK
<1>6. AlignedAt(sent, copy, g, got, lost - extra)
  BY <1>2 DEF GroupInv, Aligned
<1> HIDE DEF d, g
<1>7. AlignedAt(sent, copy + 1, g, got, d)
  BY <1>3, <1>5, <1>6, AlignedMoves
<1>8. AlignedAt(sent', copy', g, got, d)
  BY <1>2, <1>3, <1>4, <1>5, <1>7, WrapAligned
<1>9. ASSUME g < N PROVE FewWrongAt(sent', copy', g, Wrong, bad, extra)
  <2>1. FewWrongAt(sent, copy, g, Wrong, bad, extra)
    BY <1>2, <1>9 DEF GroupInv, FewWrong, g
  <2>2. Wrong \in Int /\ Wrong <= got
    BY <1>9, OneMoreFrame, ByteAssumption DEF g
  <2>3. Wrong <= Wrong + 1
    BY <2>2
  <2>4. FewWrongAt(sent, copy + 1, g, Wrong, bad, extra)
    BY <1>3, <1>5, <2>1, <2>2, <2>3, FewWrongMoves
  <2>5. Slight(d, bad, lost + 1, extra)
    BY <1>2, <1>5 DEF d
  <2>6. GroupAt(sent, copy + 1, g, got, d, Wrong, bad, lost + 1, extra)
    BY <1>3, <1>5, <1>7, <2>2, <2>4, <2>5 DEF GroupAt
  <2>7. QED BY <1>4, <2>6, WrapFewWrong
<1>10. /\ got' = got /\ hash' = hash /\ out' = out
       /\ lost' - extra' = d /\ bad' = bad /\ extra' = extra
  BY <1>1, <1>5 DEF Lose, reader, FaultsAfter, d
<1>11. Aligned'
  BY <1>8, <1>10 DEF Aligned, g
<1>12. Wrong' = Wrong
  BY <1>10 DEF Wrong
<1>13. FewWrong'
  BY <1>9, <1>10, <1>12 DEF FewWrong, N, g
<1>14. RightSoFar'
  BY <1>2, <1>10 DEF GroupInv, RightSoFar, N
<1>15. QED BY <1>11, <1>13, <1>14

\* A frame read, of the right byte or of another: i is 1 when it was damaged,
\* k is 1 when it was invented and the sender did not move.
LEMMA ReadStep ==
  ASSUME TypeInv, TypeInv', GroupInv, FewFaults', NEW c \in Byte, ReadFrame(c),
         NEW i \in {0, 1}, NEW k \in {0, 1}, FaultsAfter(i, 0, k),
         \/ i = 0 /\ k = 0 /\ WriteCopy /\ c = Message[sent + 1]
         \/ i = 1 /\ k = 0 /\ WriteCopy
         \/ i = 0 /\ k = 1 /\ UNCHANGED sender
  PROVE  Aligned' /\ FewWrong' /\ RightSoFar'
<1> DEFINE g == Len(out)
           q == IF k = 0 THEN copy + 1 ELSE copy
           d == (lost + 0) - (extra + k)
           b == bad + i
           e == extra + k
<1>1. FewFaults /\ Slight(d, b, lost + 0, e)
  BY FewFaultsBefore
<1>2. /\ sent \in Int /\ copy \in Int /\ q \in 0..Iter
      /\ g \in Nat /\ g \in Int /\ got \in Nat /\ got \in Int
      /\ bad \in Nat /\ lost \in Nat /\ extra \in Nat /\ bad \in Int /\ extra \in Int
  BY TypeFacts
<1>3. Wrapped(sent, q, sent', copy')
  <2>1. CASE k = 0
    BY <2>1, <1>2, IterAssumption DEF WriteCopy, Wrapped
  <2>2. CASE k = 1
    <3>1. copy < Iter
      BY IterAssumption DEF TypeInv, TypeOK
    <3>2. QED BY <2>2, <3>1 DEF Wrapped, sender
  <2>3. QED BY <2>1, <2>2
<1>4. /\ b \in Nat /\ lost + 0 \in Nat /\ e \in Nat /\ d \in Int
      /\ lost - extra \in Int
      /\ d = IF k = 0 THEN lost - extra ELSE (lost - extra) - 1
  BY <1>2
<1>5. bad' = b /\ lost' = lost + 0 /\ extra' = e
  BY DEF FaultsAfter
<1>6. AlignedAt(sent, copy, g, got, lost - extra)
  BY <1>1 DEF GroupInv, Aligned
<1>7. AlignedAt(sent, q, g, got + 1, d)
  BY <1>2, <1>4, <1>6, AlignedMoves
<1>8. ASSUME g < N PROVE FewWrongAt(sent, q, g, WrongWith(c), b, e)
  <2>1. FewWrongAt(sent, copy, g, Wrong, bad, extra)
    BY <1>1, <1>8 DEF GroupInv, FewWrong
  <2>2. /\ Wrong \in Int /\ WrongWith(c) \in Int /\ WrongWith(c) <= Wrong + 1
        /\ c = Message[g + 1] => WrongWith(c) = Wrong
    BY <1>8, OneMoreFrame
  <2>3. /\ FewWrongAt(sent, copy + 1, g, WrongWith(c), bad + 1, extra)
        /\ FewWrongAt(sent, copy, g, WrongWith(c), bad, extra + 1)
        /\ (sent = g => WrongWith(c) = Wrong) =>
             FewWrongAt(sent, copy + 1, g, WrongWith(c), bad, extra)
    BY <1>2, <1>4, <2>1, <2>2, FewWrongMoves
  <2>4. bad + 0 = bad /\ extra + 0 = extra
    BY <1>2
  <2>5. QED BY <2>2, <2>3, <2>4
<1>9. RightSoFar
  BY <1>1 DEF GroupInv
<1> HIDE DEF q, d, b, e
<1>10. QED BY <1>1, <1>2, <1>3, <1>4, <1>5, <1>7, <1>8, <1>9, GroupRead

LEMMA GroupStep == TypeInv /\ GroupInv /\ [Next]_vars => GroupInv'
<1> SUFFICES ASSUME TypeInv, GroupInv, [Next]_vars, FewFaults'
             PROVE  Aligned' /\ FewWrong' /\ RightSoFar'
  BY DEF GroupInv
<1>1. TypeInv'
  BY TypeStep
<1>2. /\ bad + 0 = bad /\ lost + 0 = lost /\ extra + 0 = extra
  BY TypeFacts
<1>3. CASE Deliver
  <2>1. Message[sent + 1] \in Byte
    BY <1>3, WriteCopyType, MessageType DEF Deliver
  <2>2. FaultsAfter(0, 0, 0)
    BY <1>2, <1>3 DEF Deliver, faults, FaultsAfter
  <2>3. QED BY <1>1, <1>3, <2>1, <2>2, ReadStep DEF Deliver
<1>4. CASE Damage
  <2>1. PICK c \in Byte : ReadFrame(c)
    BY <1>4 DEF Damage
  <2>2. FaultsAfter(1, 0, 0) /\ WriteCopy
    BY <1>2, <1>4 DEF Damage, FaultsAfter
  <2>3. QED BY <1>1, <2>1, <2>2, ReadStep
<1>5. CASE Lose
  BY <1>1, <1>5, LoseStep
<1>6. CASE Invent
  <2>1. PICK c \in Byte : ReadFrame(c)
    BY <1>6 DEF Invent
  <2>2. FaultsAfter(0, 0, 1) /\ UNCHANGED sender
    BY <1>2, <1>6 DEF Invent, FaultsAfter
  <2>3. QED BY <1>1, <2>1, <2>2, ReadStep
<1>7. CASE UNCHANGED vars
  <2>1. FewFaults
    BY <1>7 DEF vars, faults, FewFaults
  <2>2. Aligned /\ FewWrong /\ RightSoFar
    BY <2>1 DEF GroupInv
  <2>3. QED BY <1>7, <2>2 DEF vars, sender, reader, faults, Aligned, FewWrong,
                              Wrong, RightSoFar, N
<1>8. QED BY <1>3, <1>4, <1>5, <1>6, <1>7 DEF Next

LEMMA GroupInit == Init => GroupInv
  BY MessageType, IterAssumption
     DEF Init, GroupInv, Aligned, AlignedAt, FewWrong, FewWrongAt, Wrong, RightSoFar, NoVotes

LEMMA GroupCorrect == Spec => [](TypeInv /\ GroupInv)
<1>1. QED BY TypeInit, TypeStep, GroupInit, GroupStep, PTL DEF Spec

\* While the faults of the whole transfer are fewer than half a group of
\* copies, the bytes read are the bytes sent.
THEOREM RobustReads == Spec => []ReadsWhatWasSent
<1>1. TypeInv /\ GroupInv => ReadsWhatWasSent
  BY DEF GroupInv, RightSoFar, ReadsWhatWasSent
<1>2. QED BY <1>1, GroupCorrect, PTL

\* And with no more frames lost than invented, all of them have been read when
\* the last copy has been sent.
THEOREM RobustReadsAll == Spec => []NoneLeftWaiting
<1>1. TypeInv /\ GroupInv => NoneLeftWaiting
  <2> SUFFICES ASSUME TypeInv, GroupInv, FewFaults, sent = N, lost <= extra
               PROVE  Len(out) = N
    BY DEF NoneLeftWaiting
  <2>1. Aligned /\ RightSoFar
    BY DEF GroupInv
  <2>2. copy = 0
    BY DEF TypeInv, SenderOK
  <2>3. QED BY <2>1, <2>2, IterAssumption, MessageType
            DEF TypeInv, TypeOK, Aligned, AlignedAt, RightSoFar, FewFaults
<1>2. QED BY <1>1, GroupCorrect, PTL

-----------------------------------------------------------------------------
(* A line that only damages frames.                                        *)

\* While none is lost or invented, reader and sender are at the same copy of the
\* same byte; each of its copies was hit or is a vote for it, and what strikes it
\* counts for no other byte.
InStep == Len(out) = sent /\ got = copy
VotesAreTheRest == sent < N => hash[Message[sent + 1]] + hurt[sent + 1] = got
NoneHitAhead == \A k \in 1..N : k > sent + 1 => hurt[k] = 0
LightlyHitAreRight == \A k \in 1..sent : 2 * hurt[k] < Iter => out[k] = Message[k]

LocalInv ==
  lost = 0 /\ extra = 0 => InStep /\ VotesAreTheRest /\ NoneHitAhead /\ LightlyHitAreRight

\* Byte k of the message has been hit h times more.
HitAt(h) == hurt' = [k \in 1..N |-> hurt[k] + (IF k = sent + 1 THEN h ELSE 0)]

LEMMA VoteOrHit ==
  ASSUME NEW u \in Nat, NEW x \in Nat, NEW g \in Nat, NEW h \in {0, 1}, u + x = g,
         NEW v, v = u + 1 - h
  PROVE  v + (x + h) = g + 1 /\ v \in Nat
  OBVIOUS

\* A frame c that is a vote for its byte, or a hit.
LEMMA FrameLocal ==
  ASSUME TypeInv, InStep, VotesAreTheRest, NoneHitAhead, LightlyHitAreRight,
         WriteCopy, NEW c \in Byte, ReadFrame(c),
         NEW h \in {0, 1}, HitAt(h), (c = Message[sent + 1]) <=> (h = 0)
  PROVE  InStep' /\ VotesAreTheRest' /\ NoneHitAhead' /\ LightlyHitAreRight'
<1> DEFINE m == Message[sent + 1]
           x == hurt[sent + 1]
           votes == [hash EXCEPT ![c] = @ + 1]
<1>1. /\ sent \in Nat /\ copy \in 0..(Iter - 1) /\ got = copy /\ Len(out) = sent
      /\ Iter \in Nat /\ Iter >= 1 /\ N \in Nat /\ sent < N /\ out \in Seq(Byte)
      /\ hash \in [Byte -> Nat] /\ hurt \in [1..N -> Nat]
  BY IterAssumption, MessageType DEF TypeInv, TypeOK, InStep, WriteCopy
<1>2. sent + 1 \in 1..N /\ m \in Byte /\ x \in Nat
  BY <1>1, MessageType
<1>3. hash[m] + x = got
  BY <1>1 DEF VotesAreTheRest
<1>4. votes[m] + (x + h) = got + 1 /\ votes[m] \in Nat
  <2>1. votes[m] = IF c = m THEN hash[m] + 1 ELSE hash[m]
    BY <1>1, <1>2
  <2>2. hash[m] \in Nat
    BY <1>1, <1>2
  <2>3. votes[m] = hash[m] + 1 - h
    BY <2>1, <2>2
  <2>4. got \in Nat
    BY <1>1
  <2> HIDE DEF m, x, votes
  <2> QED
    BY <1>2, <1>3, <2>2, <2>3, <2>4, VoteOrHit
<1>5. hurt'[sent + 1] = x + h /\ \A k \in 1..N : k # sent + 1 => hurt'[k] = hurt[k]
  BY <1>1, <1>2 DEF HitAt
<1> HIDE DEF votes, x
<1>6. CASE copy + 1 < Iter
  <2>1. copy' = copy + 1 /\ sent' = sent /\ got' = got + 1 /\ out' = out /\ hash' = votes
    BY <1>1, <1>6 DEF WriteCopy, ReadFrame, votes
  <2>2. InStep'
    BY <1>1, <2>1 DEF InStep
  <2>3. VotesAreTheRest'
    BY <1>4, <1>5, <2>1 DEF VotesAreTheRest, N
  <2>4. NoneHitAhead'
    BY <1>1, <1>5, <2>1 DEF NoneHitAhead, N
  <2>5. LightlyHitAreRight'
    BY <1>1, <1>5, <2>1, SMTT(30) DEF LightlyHitAreRight
  <2> QED
    BY <2>2, <2>3, <2>4, <2>5
<1>7. CASE ~(copy + 1 < Iter)
  <2>1. got + 1 = Iter
    BY <1>1, <1>7
  <2>2. copy' = 0 /\ sent' = sent + 1 /\ got' = 0 /\ hash' = NoVotes
    BY <1>1, <1>7 DEF WriteCopy, ReadFrame
  <2>3. PICK b \in Byte : out' = Append(out, b)
    <3>1. \E b : out' = Append(out, b)
      BY <1>1, <1>7 DEF ReadFrame
    <3>2. Append(out, IF Majority(votes[c]) THEN c ELSE byte) = out' /\ byte \in Byte
      BY <1>1, <1>7 DEF ReadFrame, votes, TypeInv, TypeOK
    <3> QED
      BY <3>2
  <2>4. Len(out') = sent + 1 /\ out'[sent + 1] = b /\ \A k \in 1..sent : out'[k] = out[k]
    BY <1>1, <2>3, AppendFacts
  <2>5. 2 * (x + h) < Iter => b = m
    <3>1. SUFFICES ASSUME 2 * (x + h) < Iter PROVE b = m
      OBVIOUS
    <3>2. (got + 1) - votes[m] = x + h
      BY <1>1, <1>2, <1>4 DEF x
    <3>3. out' = Append(out, m)
      BY <1>1, <2>1, <3>1, <3>2, RightByteWins DEF votes
    <3> QED
      BY <1>1, <1>2, <2>3, <2>4, <3>3
  <2>6. InStep'
    BY <2>2, <2>4 DEF InStep
  <2>7. VotesAreTheRest'
    <3>1. ASSUME sent + 1 < N PROVE NoVotes[Message[sent + 1 + 1]] + hurt'[sent + 1 + 1] = 0
      <4>1. sent + 1 + 1 \in 1..N /\ sent + 1 + 1 > sent + 1
        BY <1>1, <3>1
      <4>2. hurt'[sent + 1 + 1] = 0
        BY <1>1, <1>5, <4>1 DEF NoneHitAhead
      <4>3. NoVotes[Message[sent + 1 + 1]] = 0
        BY <4>1, MessageType DEF NoVotes
      <4> QED
        BY <4>2, <4>3
    <3> QED
      BY <2>2, <3>1 DEF VotesAreTheRest, N
  <2>8. NoneHitAhead'
    <3>1. ASSUME NEW k \in 1..N, k > sent + 1 + 1 PROVE hurt'[k] = 0
      <4>1. k # sent + 1 /\ k > sent + 1
        BY <1>1, <3>1
      <4> QED
        BY <1>5, <4>1 DEF NoneHitAhead
    <3> QED
      BY <2>2, <3>1 DEF NoneHitAhead, N
  <2>9. LightlyHitAreRight'
    <3>1. ASSUME NEW k \in 1..(sent + 1), 2 * hurt'[k] < Iter PROVE out'[k] = Message[k]
      <4>1. CASE k = sent + 1
        BY <1>5, <2>4, <2>5, <3>1, <4>1
      <4>2. CASE k # sent + 1
        <5>1. k \in 1..sent /\ k \in 1..N
          BY <1>1, <4>2
        <5> QED
          BY <1>5, <2>4, <3>1, <4>2, <5>1 DEF LightlyHitAreRight
      <4> QED
        BY <4>1, <4>2
    <3> QED
      BY <2>2, <3>1 DEF LightlyHitAreRight
  <2> QED
    BY <2>6, <2>7, <2>8, <2>9
<1> QED
  BY <1>6, <1>7

LEMMA LocalStep == TypeInv /\ LocalInv /\ [Next]_vars => LocalInv'
<1> SUFFICES ASSUME TypeInv, LocalInv, [Next]_vars, lost' = 0, extra' = 0
             PROVE  InStep' /\ VotesAreTheRest' /\ NoneHitAhead' /\ LightlyHitAreRight'
  BY DEF LocalInv
<1>0. lost \in Nat /\ extra \in Nat /\ hurt \in [1..N -> Nat]
  BY DEF TypeInv, TypeOK
<1>1. ASSUME lost = 0, extra = 0 PROVE InStep /\ VotesAreTheRest /\ NoneHitAhead /\ LightlyHitAreRight
  BY <1>1 DEF LocalInv
<1>2. CASE Deliver
  <2>1. WriteCopy /\ ReadFrame(Message[sent + 1]) /\ hurt' = hurt /\ lost' = lost /\ extra' = extra
    BY <1>2 DEF Deliver, faults
  <2>2. Message[sent + 1] \in Byte
    BY <2>1, WriteCopyType, MessageType
  <2>3. HitAt(0)
    <3>1. \A k \in 1..N : hurt[k] + (IF k = sent + 1 THEN 0 ELSE 0) = hurt[k]
      BY <1>0
    <3> QED
      BY <1>0, <2>1, <3>1 DEF HitAt
  <2> QED
    BY <1>1, <2>1, <2>2, <2>3, FrameLocal
<1>3. CASE Damage
  <2>1. WriteCopy /\ Strike /\ lost' = lost /\ extra' = extra
    BY <1>3 DEF Damage
  <2>2. PICK c \in Byte \ {Message[sent + 1]} : ReadFrame(c)
    BY <1>3 DEF Damage
  <2>3. HitAt(1)
    BY <2>1 DEF HitAt, Strike
  <2> QED
    BY <1>1, <2>1, <2>2, <2>3, FrameLocal
<1>4. CASE Lose
  BY <1>0, <1>4 DEF Lose
<1>5. CASE Invent
  BY <1>0, <1>5 DEF Invent
<1>6. CASE UNCHANGED vars
  <2>1. /\ sent' = sent /\ copy' = copy /\ got' = got /\ hash' = hash /\ out' = out
        /\ hurt' = hurt /\ lost' = lost /\ extra' = extra
    BY <1>6 DEF vars, sender, reader, faults
  <2> QED
    BY <1>1, <2>1 DEF InStep, VotesAreTheRest, NoneHitAhead, LightlyHitAreRight, N
<1> QED
  BY <1>2, <1>3, <1>4, <1>5, <1>6 DEF Next

LEMMA LocalInit == Init => LocalInv
  BY MessageType, IterAssumption
     DEF Init, LocalInv, InStep, VotesAreTheRest, NoneHitAhead, LightlyHitAreRight, NoVotes

\* While frames are only damaged, a byte that was hit in fewer than half of its
\* copies is read as it was sent, whatever happened to the bytes around it.
THEOREM RobustLocal == Spec => []ErrorsStayLocal
<1>1. TypeInv /\ LocalInv => ErrorsStayLocal
  BY DEF LocalInv, InStep, LightlyHitAreRight, ErrorsStayLocal
<1>2. QED BY <1>1, TypeInit, TypeStep, LocalInit, LocalStep, PTL DEF Spec
=============================================================================
