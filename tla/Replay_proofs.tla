--------------------------- MODULE Replay_proofs ---------------------------
(***************************************************************************)
(* The replay harness, for every log, text, build and number of rounds.    *)
(***************************************************************************)
EXTENDS Replay, Induction, FiniteSetTheorems, TLAPS
-----------------------------------------------------------------------------
(* FlattenSeq.                                                             *)

\* What is flattened has the elements of the parts, and no others.
LEMMA FlattenType ==
  ASSUME NEW S, NEW n \in Nat, NEW seqs \in [1..n -> Seq(S)]
  PROVE  FlattenSeq(seqs) \in Seq(S)
<1>1. seqs \in Seq(Seq(S)) /\ Len(seqs) = n
  OBVIOUS
<1>2. CASE n = 0
  BY <1>1, <1>2 DEF FlattenSeq
<1>3. CASE n # 0
  <2>1. \E g : Flattened(seqs, n, g)
    BY FlattenedExists
  <2> DEFINE f == CHOOSE g : Flattened(seqs, n, g)
  <2>2. Flattened(seqs, n, f)
    BY <2>1
  <2>3. FlattenSeq(seqs) = f[n]
    BY <1>1, <1>3 DEF FlattenSeq, Flattened
  <2> HIDE DEF f
  <2> DEFINE T == {k \in Nat : k + 1 <= n => f[k + 1] \in Seq(S)}
  <2>4. 0 \in T
    BY <2>2, <1>3 DEF Flattened
  <2>5. ASSUME NEW k \in Nat, k \in T PROVE k + 1 \in T
    <3>1. SUFFICES ASSUME k + 2 <= n PROVE f[k + 2] \in Seq(S)
      OBVIOUS
    <3>2. f[k + 1] \in Seq(S)
      BY <3>1, <2>5
    <3>3. f[k + 2] = f[k + 1] \o seqs[k + 2]
      <4>1. ASSUME NEW i \in 1..n PROVE f[i] = IF i = 1 THEN seqs[i] ELSE f[i - 1] \o seqs[i]
        BY <2>2 DEF Flattened
      <4>2. k + 2 \in 1..n /\ k + 2 # 1 /\ (k + 2) - 1 = k + 1
        BY <3>1
      <4> QED
        BY <4>1, <4>2
    <3>4. seqs[k + 2] \in Seq(S)
      <4>1. k + 2 \in 1..n
        BY <3>1
      <4> QED
        BY <4>1
    <3> QED
      BY <3>2, <3>3, <3>4
  <2>6. Nat \subseteq T
    BY <2>4, <2>5, Induct
  <2>7. f[n] \in Seq(S)
    <3>1. n - 1 \in Nat /\ (n - 1) + 1 = n
      BY <1>3
    <3>2. n - 1 \in T
      BY <2>6, <3>1
    <3> QED
      BY <3>1, <3>2
  <2> QED
    BY <2>3, <2>7
<1> QED
  BY <1>2, <1>3
-----------------------------------------------------------------------------
(* done, character by character.                                           *)

Scanned(m0, chunk, n, g) ==
  g = [i \in 0..n |-> IF i = 0 THEN m0 ELSE MatchChar(g[i - 1], chunk[i])]

LEMMA ScannedExists ==
  ASSUME NEW m0, NEW chunk
  PROVE  \A n \in Nat : \E g : Scanned(m0, chunk, n, g)
<1> DEFINE T == {n \in Nat : \E g : Scanned(m0, chunk, n, g)}
<1>1. 0 \in T
  <2>1. Scanned(m0, chunk, 0, [i \in 0..0 |-> m0])
    BY DEF Scanned
  <2> QED
    BY <2>1
<1>2. ASSUME NEW n \in Nat, n \in T PROVE n + 1 \in T
  <2>1. PICK g : Scanned(m0, chunk, n, g)
    BY <1>2
  <2> DEFINE last == MatchChar(g[n], chunk[n + 1])
             h == [i \in 0..(n + 1) |-> IF i = n + 1 THEN last ELSE g[i]]
  <2>2. ASSUME NEW i \in 0..(n + 1) PROVE h[i] = IF i = 0 THEN m0 ELSE MatchChar(h[i - 1], chunk[i])
    <3>1. CASE i = n + 1
      BY <3>1
    <3>2. CASE i # n + 1
      <4>1. i \in 0..n /\ (i # 0 => i - 1 \in 0..n /\ i - 1 # n + 1)
        BY <3>2
      <4>2. g[i] = IF i = 0 THEN m0 ELSE MatchChar(g[i - 1], chunk[i])
        BY <4>1, <2>1 DEF Scanned
      <4> QED
        BY <4>1, <4>2, <3>2
    <3> QED
      BY <3>1, <3>2
  <2> HIDE DEF last
  <2>3. Scanned(m0, chunk, n + 1, h)
    BY <2>2 DEF Scanned
  <2> QED
    BY <2>3
<1>3. Nat \subseteq T
  BY <1>1, <1>2, Induct
<1> QED
  BY <1>3

LEMMA ScanIs ==
  ASSUME NEW m0, NEW S, NEW chunk \in Seq(S)
  PROVE  \E g : Scanned(m0, chunk, Len(chunk), g) /\ Scan(m0, chunk) = g[Len(chunk)]
<1>1. Len(chunk) \in Nat
  OBVIOUS
<1>2. \E g : Scanned(m0, chunk, Len(chunk), g)
  BY <1>1, ScannedExists
<1> DEFINE f == CHOOSE g : Scanned(m0, chunk, Len(chunk), g)
<1>3. Scanned(m0, chunk, Len(chunk), f)
  BY <1>2
<1>4. ASSUME NEW n \in Nat, NEW g
      PROVE  Scanned(m0, chunk, n, g) <=>
               g = [i \in 0..n |-> IF i = 0 THEN m0
                                   ELSE CHOOSE x \in {MatchChar(y, chunk[i]) : y \in {g[i - 1]}} : TRUE]
  <2>1. ASSUME NEW i \in 0..n
        PROVE  (IF i = 0 THEN m0 ELSE MatchChar(g[i - 1], chunk[i]))
                 = (IF i = 0 THEN m0 ELSE CHOOSE x \in {MatchChar(y, chunk[i]) : y \in {g[i - 1]}} : TRUE)
    <3>1. {MatchChar(y, chunk[i]) : y \in {g[i - 1]}} = {MatchChar(g[i - 1], chunk[i])}
      OBVIOUS
    <3> QED
      BY <3>1
  <2> QED
    BY <2>1 DEF Scanned
<1>5. Scan(m0, chunk) = f[Len(chunk)]
  BY <1>1, <1>4 DEF Scan
<1> QED
  BY <1>3, <1>5

\* The states of two scans that begin alike are alike.
LEMMA ScannedAlike ==
  ASSUME NEW m0, NEW c, NEW d, NEW k \in Nat, NEW n \in Nat, NEW p \in Nat, k <= n, k <= p,
         NEW g, NEW h, Scanned(m0, c, n, g), Scanned(m0, d, p, h),
         \A i \in 1..k : c[i] = d[i]
  PROVE  g[k] = h[k]
<1> DEFINE T == {j \in Nat : j <= k => g[j] = h[j]}
<1>1. 0 \in T
  BY DEF Scanned
<1>2. ASSUME NEW j \in Nat, j \in T PROVE j + 1 \in T
  <2>1. SUFFICES ASSUME j + 1 <= k PROVE g[j + 1] = h[j + 1]
    OBVIOUS
  <2>2. g[j] = h[j] /\ c[j + 1] = d[j + 1]
    BY <2>1, <1>2
  <2>3. ASSUME NEW i \in 0..n PROVE g[i] = IF i = 0 THEN m0 ELSE MatchChar(g[i - 1], c[i])
    BY DEF Scanned
  <2>4. ASSUME NEW i \in 0..p PROVE h[i] = IF i = 0 THEN m0 ELSE MatchChar(h[i - 1], d[i])
    BY DEF Scanned
  <2>5. j + 1 \in 0..n /\ j + 1 \in 0..p /\ j + 1 # 0 /\ (j + 1) - 1 = j
    BY <2>1
  <2>6. g[j + 1] = MatchChar(g[j], c[j + 1])
    BY <2>3, <2>5
  <2>7. h[j + 1] = MatchChar(h[j], d[j + 1])
    BY <2>4, <2>5
  <2> QED
    BY <2>2, <2>6, <2>7
<1>3. Nat \subseteq T
  BY <1>1, <1>2, Induct
<1> QED
  BY <1>3

LEMMA ScanNothing ==
  ASSUME NEW m0
  PROVE  Scan(m0, <<>>) = m0
<1>1. <<>> \in Seq({}) /\ Len(<<>>) = 0
  OBVIOUS
<1>2. PICK g : Scanned(m0, <<>>, Len(<<>>), g) /\ Scan(m0, <<>>) = g[Len(<<>>)]
  BY <1>1, ScanIs
<1> QED
  BY <1>1, <1>2 DEF Scanned

LEMMA ScanOneMore ==
  ASSUME NEW m0, NEW S, NEW chunk \in Seq(S), NEW more \in Seq(S),
         Len(more) = Len(chunk) + 1, \A i \in 1..Len(chunk) : more[i] = chunk[i]
  PROVE  Scan(m0, more) = MatchChar(Scan(m0, chunk), more[Len(more)])
<1>1. PICK g : Scanned(m0, chunk, Len(chunk), g) /\ Scan(m0, chunk) = g[Len(chunk)]
  BY ScanIs
<1>2. PICK h : Scanned(m0, more, Len(more), h) /\ Scan(m0, more) = h[Len(more)]
  BY ScanIs
<1>3. g[Len(chunk)] = h[Len(chunk)]
  <2>1. Len(chunk) \in Nat /\ Len(more) \in Nat /\ Len(chunk) <= Len(chunk) /\ Len(chunk) <= Len(more)
    OBVIOUS
  <2>2. \A i \in 1..Len(chunk) : chunk[i] = more[i]
    OBVIOUS
  <2> QED
    BY <1>1, <1>2, <2>1, <2>2, ScannedAlike, SMTT(30)
<1>4. ASSUME NEW i \in 0..Len(more) PROVE h[i] = IF i = 0 THEN m0 ELSE MatchChar(h[i - 1], more[i])
  BY <1>2 DEF Scanned
<1>5. Len(more) \in 0..Len(more) /\ Len(more) # 0 /\ Len(more) - 1 = Len(chunk)
  OBVIOUS
<1>6. h[Len(more)] = MatchChar(h[Len(more) - 1], more[Len(more)])
  BY <1>4, <1>5
<1> QED
  BY <1>1, <1>2, <1>3, <1>5, <1>6

LEMMA PieceGrows ==
  ASSUME NEW m0, NEW S, NEW text \in Seq(S), NEW a \in Nat \ {0}, NEW b \in Nat, a <= b + 1, b < Len(text)
  PROVE  Scan(m0, SubSeq(text, a, b + 1)) = MatchChar(Scan(m0, SubSeq(text, a, b)), text[b + 1])
<1> DEFINE chunk == SubSeq(text, a, b)
           more == SubSeq(text, a, b + 1)
<1>1. chunk \in Seq(S) /\ more \in Seq(S) /\ Len(chunk) = b + 1 - a /\ Len(more) = Len(chunk) + 1
  OBVIOUS
<1>2. \A i \in 1..Len(chunk) : more[i] = chunk[i]
  OBVIOUS
<1>3. more[Len(more)] = text[b + 1]
  OBVIOUS
<1> HIDE DEF chunk, more
<1>4. Scan(m0, more) = MatchChar(Scan(m0, chunk), text[b + 1])
  BY <1>1, <1>2, <1>3, ScanOneMore
<1> QED
  BY <1>4 DEF chunk, more

\* Where a read cuts the text makes no difference while nothing stops the scan: one
\* that goes on from what a first one came to comes to the same as one of all.
LEMMA ScanOnward ==
  ASSUME NEW m0, NEW S, NEW text \in Seq(S), NEW a \in 0..Len(text), NEW b \in a..Len(text)
  PROVE  Scan(Scan(m0, SubSeq(text, 1, a)), SubSeq(text, a + 1, b)) = Scan(m0, SubSeq(text, 1, b))
<1> DEFINE m == Scan(m0, SubSeq(text, 1, a))
           T == {k \in Nat : a + k <= Len(text) =>
                   Scan(m, SubSeq(text, a + 1, a + k)) = Scan(m0, SubSeq(text, 1, a + k))}
<1>1. 0 \in T
  <2>1. SubSeq(text, a + 1, a) = <<>> /\ a + 0 = a
    OBVIOUS
  <2>2. Scan(m, <<>>) = m
    BY ScanNothing
  <2> QED
    BY <2>1, <2>2
<1>2. ASSUME NEW k \in Nat, k \in T PROVE k + 1 \in T
  <2>1. SUFFICES ASSUME a + (k + 1) <= Len(text)
                 PROVE  Scan(m, SubSeq(text, a + 1, a + (k + 1))) = Scan(m0, SubSeq(text, 1, a + (k + 1)))
    OBVIOUS
  <2> DEFINE c == a + k
  <2>2. c \in Nat /\ a <= c /\ c < Len(text) /\ a + (k + 1) = c + 1
        /\ a + 1 \in Nat \ {0} /\ a + 1 <= c + 1 /\ 1 <= c + 1
    BY <2>1
  <2>3. Scan(m, SubSeq(text, a + 1, c)) = Scan(m0, SubSeq(text, 1, c))
    BY <1>2, <2>2
  <2> HIDE DEF c, m
  <2>4. Scan(m, SubSeq(text, a + 1, c + 1)) = MatchChar(Scan(m, SubSeq(text, a + 1, c)), text[c + 1])
    BY <2>2, PieceGrows
  <2>5. Scan(m0, SubSeq(text, 1, c + 1)) = MatchChar(Scan(m0, SubSeq(text, 1, c)), text[c + 1])
    BY <2>2, PieceGrows
  <2> QED
    BY <2>2, <2>3, <2>4, <2>5
<1> HIDE DEF m
<1>3. Nat \subseteq T
  BY <1>1, <1>2, Induct
<1>4. b - a \in Nat /\ a + (b - a) = b
  OBVIOUS
<1>5. b - a \in T
  BY <1>3, <1>4
<1>6. Scan(m, SubSeq(text, a + 1, b)) = Scan(m0, SubSeq(text, 1, b))
  BY <1>4, <1>5
<1> QED
  BY <1>6 DEF m

\* What done may have come to; its position is at the end only when the string is seen.
Matches ==
  {m \in [pos : 0..Len(Exit), seen : BOOLEAN, stop : BOOLEAN] : m.seen \/ m.pos < Len(Exit)}

LEMMA ExitLength == Len(Exit) \in Nat /\ Len(Exit) > 0 /\ 0 \in 0..(Len(Exit) - 1)
BY DataAssumption, ExitAssumption

LEMMA MatchCharType ==
  ASSUME NEW m \in Matches, NEW c, Len(Exit) \in Nat
  PROVE  MatchChar(m, c) \in Matches
<1>1. CASE m.seen \/ m.stop
  BY <1>1 DEF MatchChar
<1>2. CASE ~m.seen /\ ~m.stop
  <2>1. m.pos \in 0..Len(Exit) /\ m.pos < Len(Exit) /\ m.seen = FALSE /\ m.stop = FALSE
    BY <1>2 DEF Matches
  <2>2. CASE c = NUL
    BY <1>2, <2>1, <2>2 DEF MatchChar, Matches
  <2>3. CASE c # NUL /\ c # Exit[m.pos + 1]
    BY <1>2, <2>1, <2>3 DEF MatchChar, Matches
  <2>4. CASE c # NUL /\ c = Exit[m.pos + 1]
    <3>1. MatchChar(m, c) = [m EXCEPT !.pos = m.pos + 1, !.seen = (m.pos + 1 = Len(Exit))]
      BY <1>2, <2>4 DEF MatchChar
    <3>2. m.pos + 1 \in 0..Len(Exit) /\ (m.pos + 1 = Len(Exit) \/ m.pos + 1 < Len(Exit))
      BY <2>1
    <3> QED
      BY <3>1, <3>2 DEF Matches
  <2> QED
    BY <2>2, <2>3, <2>4
<1> QED
  BY <1>1, <1>2

LEMMA ScanType ==
  ASSUME NEW m0 \in Matches, NEW S, NEW chunk \in Seq(S)
  PROVE  Scan(m0, chunk) \in Matches
<1> DEFINE T == {k \in Nat : k <= Len(chunk) => Scan(m0, SubSeq(chunk, 1, k)) \in Matches}
<1>1. 0 \in T
  <2>1. SubSeq(chunk, 1, 0) = <<>>
    OBVIOUS
  <2> QED
    BY <2>1, ScanNothing
<1>2. ASSUME NEW k \in Nat, k \in T PROVE k + 1 \in T
  <2>1. SUFFICES ASSUME k + 1 <= Len(chunk) PROVE Scan(m0, SubSeq(chunk, 1, k + 1)) \in Matches
    OBVIOUS
  <2> DEFINE m == Scan(m0, SubSeq(chunk, 1, k))
  <2>2. m \in Matches
    BY <2>1, <1>2
  <2>3. k < Len(chunk) /\ 1 <= k + 1
    BY <2>1
  <2>4. Scan(m0, SubSeq(chunk, 1, k + 1)) = MatchChar(m, chunk[k + 1])
    BY <2>3, PieceGrows
  <2> HIDE DEF m
  <2>5. Len(Exit) \in Nat
    BY ExitLength
  <2>6. MatchChar(m, chunk[k + 1]) \in Matches
    BY <2>2, <2>5, MatchCharType
  <2> QED
    BY <2>4, <2>6
<1>3. Nat \subseteq T
  BY <1>1, <1>2, Induct
<1>4. Len(chunk) \in Nat /\ SubSeq(chunk, 1, Len(chunk)) = chunk
  OBVIOUS
<1>5. Len(chunk) \in T
  BY <1>3, <1>4
<1>6. Scan(m0, SubSeq(chunk, 1, Len(chunk))) \in Matches
  BY <1>4, <1>5
<1> HIDE DEF T
<1> QED
  BY <1>4, <1>6, Zenon

LEMMA MatchStarts ==
  ASSUME NEW p \in 0..(Len(Exit) - 1)
  PROVE  Match0(p) \in Matches
BY ExitLength DEF Match0, Matches

\* What done has come to after k characters of a text that is read at once.
Upto(text, k) == Scan(Match0(0), SubSeq(text, 1, k))

LEMMA UptoType ==
  ASSUME NEW text \in Texts, NEW k \in 0..Len(text)
  PROVE  Upto(text, k) \in Matches /\ Done(0, SubSeq(text, 1, k)) = Upto(text, k)
<1>1. text \in Seq(Chars)
  BY ReplayAssumption
<1>2. SubSeq(text, 1, k) \in Seq(Chars)
  BY <1>1
<1>3. Match0(0) \in Matches
  BY MatchStarts, ExitLength
<1> QED
  BY <1>2, <1>3, ScanType DEF Upto, Done

\* A 0 in the text would keep done from ever seeing its end.
LEMMA NothingStops ==
  ASSUME NEW text \in Texts, StopsAtEnd(text), NEW k \in 0..Len(text), k # Len(text)
  PROVE  ~Upto(text, k).seen /\ ~Upto(text, k).stop
<1>1. text \in Seq(Chars) /\ Len(text) \in Nat
  BY ReplayAssumption
<1>2. ASSUME NEW j \in 0..Len(text) PROVE Upto(text, j).seen <=> j = Len(text)
  BY UptoType DEF StopsAtEnd
<1>3. SUFFICES ASSUME Upto(text, k).stop PROVE FALSE
  BY <1>2
<1> DEFINE T == {j \in Nat : k + j <= Len(text) => Upto(text, k + j) = Upto(text, k)}
<1>4. 0 \in T
  BY <1>1
<1>5. ASSUME NEW j \in Nat, j \in T PROVE j + 1 \in T
  <2>1. SUFFICES ASSUME k + (j + 1) <= Len(text) PROVE Upto(text, k + (j + 1)) = Upto(text, k)
    OBVIOUS
  <2> DEFINE c == k + j
  <2>2. c \in Nat /\ c < Len(text) /\ k + (j + 1) = c + 1 /\ 1 <= c + 1
    BY <1>1, <2>1
  <2>3. Upto(text, c) = Upto(text, k)
    BY <2>2, <1>5
  <2> HIDE DEF c
  <2>4. Upto(text, c + 1) = MatchChar(Upto(text, c), text[c + 1])
    BY <1>1, <2>2, PieceGrows DEF Upto
  <2>5. Upto(text, c + 1) = Upto(text, k)
    BY <1>3, <2>3, <2>4 DEF MatchChar
  <2> QED
    BY <2>2, <2>5
<1>6. Nat \subseteq T
  BY <1>4, <1>5, Induct
<1>7. PICK j \in Nat : k + j = Len(text)
  <2>1. Len(text) - k \in Nat /\ k + (Len(text) - k) = Len(text)
    BY <1>1
  <2> QED
    BY <2>1
<1>8. j \in T
  BY <1>6
<1>9. Upto(text, Len(text)) = Upto(text, k)
  <2>1. k + j <= Len(text)
    BY <1>1, <1>7
  <2>2. Upto(text, k + j) = Upto(text, k)
    BY <1>8, <2>1
  <2> QED
    BY <1>7, <2>2
<1>10. Len(text) \in 0..Len(text)
  BY <1>1
<1> QED
  BY <1>2, <1>9, <1>10

LEMMA ReadsOn ==
  ASSUME NEW text \in Texts, StopsAtEnd(text), NEW a \in 0..Len(text), a # Len(text), NEW b \in a..Len(text)
  PROVE  Done(Upto(text, a).pos, SubSeq(text, a + 1, b)) = Upto(text, b)
<1>1. text \in Seq(Chars)
  BY ReplayAssumption
<1>2. Upto(text, a) \in Matches
  BY UptoType
<1>3. ~Upto(text, a).seen /\ ~Upto(text, a).stop
  BY NothingStops
<1>4. Match0(Upto(text, a).pos) = Upto(text, a)
  BY <1>2, <1>3 DEF Match0, Matches
<1>5. Scan(Upto(text, a), SubSeq(text, a + 1, b)) = Upto(text, b)
  BY <1>1, ScanOnward DEF Upto
<1> QED
  BY <1>4, <1>5 DEF Done
-----------------------------------------------------------------------------
(* The words of a boot.                                                    *)

\* The operations among the first i in which the Pi writes, and their number.
Reads(ops, i) == {j \in 1..i : ops[j].op # "WRITE32"}
Rank(ops, i) == Cardinality(Reads(ops, i))

\* The word my-install expects when it gets one for the r-th time.
Expected(r) == IF r = 1 THEN "SOH" ELSE IF r = 2 THEN "crcn" ELSE IF r = 3 THEN "crc" ELSE "ACK"

LEMMA RankType ==
  ASSUME NEW ops, NEW i \in Nat
  PROVE  Rank(ops, i) \in Nat /\ IsFiniteSet(Reads(ops, i)) /\ Rank(ops, i) <= i
<1>1. IsFiniteSet(1..i) /\ Cardinality(1..i) = i
  BY FS_Interval
<1>2. Reads(ops, i) \subseteq 1..i
  BY DEF Reads
<1>3. IsFiniteSet(Reads(ops, i)) /\ Cardinality(Reads(ops, i)) <= i
  BY <1>1, <1>2, FS_Subset
<1> QED
  BY <1>3, FS_CardinalityType DEF Rank

LEMMA RankNext ==
  ASSUME NEW ops, NEW i \in Nat
  PROVE  /\ Rank(ops, 0) = 0
         /\ ops[i + 1].op # "WRITE32" => Rank(ops, i + 1) = Rank(ops, i) + 1
         /\ ops[i + 1].op = "WRITE32" => Rank(ops, i + 1) = Rank(ops, i)
<1>1. Reads(ops, 0) = {}
  BY DEF Reads
<1>2. Rank(ops, 0) = 0
  BY <1>1, FS_EmptySet DEF Rank
<1>3. ASSUME ops[i + 1].op # "WRITE32" PROVE Rank(ops, i + 1) = Rank(ops, i) + 1
  <2>1. Reads(ops, i + 1) = Reads(ops, i) \cup {i + 1} /\ i + 1 \notin Reads(ops, i)
    BY <1>3 DEF Reads
  <2> QED
    BY <2>1, RankType, FS_AddElement DEF Rank
<1>4. ASSUME ops[i + 1].op = "WRITE32" PROVE Rank(ops, i + 1) = Rank(ops, i)
  <2>1. Reads(ops, i + 1) = Reads(ops, i)
    BY <1>4 DEF Reads
  <2> QED
    BY <2>1 DEF Rank
<1> QED
  BY <1>2, <1>3, <1>4

LEMMA RankGrows ==
  ASSUME NEW ops, NEW i \in Nat, NEW j \in Nat, i <= j
  PROVE  /\ Rank(ops, i) <= Rank(ops, j)
         /\ i < j /\ ops[j].op # "WRITE32" => Rank(ops, i) < Rank(ops, j)
<1>1. Reads(ops, i) \subseteq Reads(ops, j)
  BY DEF Reads
<1>2. Rank(ops, i) <= Rank(ops, j)
  BY <1>1, RankType, FS_Subset DEF Rank
<1>3. ASSUME i < j, ops[j].op # "WRITE32" PROVE Rank(ops, i) < Rank(ops, j)
  <2>1. Reads(ops, i) # Reads(ops, j)
    BY <1>3 DEF Reads
  <2> QED
    BY <1>1, <2>1, RankType, FS_Subset DEF Rank
<1> QED
  BY <1>2, <1>3

\* Only the operations up to i matter, and of them only whether they are WRITE32.
LEMMA RankAlike ==
  ASSUME NEW ops, NEW other, NEW i \in Nat, \A j \in 1..i : ops[j].op = other[j].op
  PROVE  Rank(ops, i) = Rank(other, i)
<1>1. Reads(ops, i) = Reads(other, i)
  BY DEF Reads
<1> QED
  BY <1>1 DEF Rank

LEMMA JoinedType ==
  ASSUME NEW S, NEW s \in Seq(S), NEW t \in Seq(S)
  PROVE  s \o t \in Seq(S) /\ Len(s \o t) = Len(s) + Len(t)
OBVIOUS

LEMMA JoinedLeft ==
  ASSUME NEW S, NEW s \in Seq(S), NEW t \in Seq(S), NEW i \in 1..Len(s)
  PROVE  (s \o t)[i] = s[i]
OBVIOUS

LEMMA JoinedRight ==
  ASSUME NEW S, NEW s \in Seq(S), NEW t \in Seq(S), NEW i \in 1..Len(t)
  PROVE  (s \o t)[Len(s) + i] = t[i]
OBVIOUS

\* What send_binary puts and gets, and all of a boot.
DataWords(a) == {W(Data[i]) : i \in 1..Len(Data)} \cup (IF a THEN {R("ACK")} ELSE {})
BootWords(a) ==
  DataWords(a) \cup {W("SOH"), W("n"), W("crc"), R("SOH"), R("crcn"), R("crc"), W("ACK"), W("EOT"), R("ACK")}
Begin == <<W("SOH"), W("n"), W("crc"), R("SOH"), R("crcn"), R("crc"), W("ACK")>>
Middle(a) == FlattenSeq([i \in 1..Len(Data) |-> DataOps(i, a)])

LEMMA MiddleType ==
  ASSUME NEW a \in BOOLEAN
  PROVE  Middle(a) \in Seq(DataWords(a))
<1>1. Len(Data) \in Nat
  BY DataAssumption
<1>2. ASSUME NEW i \in 1..Len(Data) PROVE DataOps(i, a) \in Seq(DataWords(a))
  <2>1. W(Data[i]) \in DataWords(a)
    BY DEF DataWords
  <2>2. a => R("ACK") \in DataWords(a)
    BY DEF DataWords
  <2> QED
    BY <2>1, <2>2 DEF DataOps
<1>3. [i \in 1..Len(Data) |-> DataOps(i, a)] \in [1..Len(Data) -> Seq(DataWords(a))]
  BY <1>2
<1> QED
  BY <1>1, <1>3, FlattenType DEF Middle

LEMMA BootShape ==
  ASSUME NEW a \in BOOLEAN
  PROVE  /\ BootOps(a) \in Seq(BootWords(a))
         /\ Len(BootOps(a)) \in Nat /\ Len(BootOps(a)) >= 9
         /\ \A i \in 1..7 : BootOps(a)[i] = Begin[i]
         /\ \A i \in 8..(Len(BootOps(a)) - 2) : BootOps(a)[i] \in DataWords(a)
         /\ BootOps(a)[Len(BootOps(a)) - 1] = W("EOT")
         /\ BootOps(a)[Len(BootOps(a))] = R("ACK")
<1> DEFINE mid == Middle(a)
           end == <<W("EOT"), R("ACK")>>
           all == (Begin \o mid) \o end
           S == BootWords(a)
<1>1. mid \in Seq(DataWords(a))
  BY MiddleType
<1>2. BootOps(a) = all
  BY DEF BootOps, Begin, Middle
<1>3. W("SOH") \in S /\ W("n") \in S /\ W("crc") \in S /\ R("SOH") \in S /\ R("crcn") \in S
      /\ R("crc") \in S /\ W("ACK") \in S /\ W("EOT") \in S /\ R("ACK") \in S /\ DataWords(a) \subseteq S
  BY DEF BootWords
<1> HIDE DEF S, mid
<1>4. Begin \in Seq(S)
  BY <1>3 DEF Begin
<1>5. Len(Begin) = 7
  BY DEF Begin
<1>6. end \in Seq(S)
  BY <1>3
<1>7. Len(end) = 2 /\ end[1] = W("EOT") /\ end[2] = R("ACK")
  OBVIOUS
<1>8. mid \in Seq(S) /\ Len(mid) \in Nat
  BY <1>1, <1>3
<1> HIDE DEF end
<1> DEFINE first == Begin \o mid
<1>9. first \in Seq(S) /\ Len(first) = Len(Begin) + Len(mid)
  BY <1>4, <1>8, JoinedType
<1>10. \A i \in 1..Len(Begin) : first[i] = Begin[i]
  BY <1>4, <1>8, JoinedLeft
<1>11. \A i \in 1..Len(mid) : first[Len(Begin) + i] = mid[i]
  BY <1>4, <1>8, JoinedRight
<1> HIDE DEF first
<1>12. /\ first \in Seq(S) /\ Len(first) = 7 + Len(mid)
       /\ \A i \in 1..7 : first[i] = Begin[i]
       /\ \A i \in 1..Len(mid) : first[7 + i] = mid[i]
  BY <1>5, <1>9, <1>10, <1>11
<1>13. first \o end \in Seq(S) /\ Len(first \o end) = Len(first) + Len(end)
  BY <1>6, <1>9, JoinedType
<1>14. \A i \in 1..Len(first) : (first \o end)[i] = first[i]
  BY <1>6, <1>9, JoinedLeft
<1>15. \A i \in 1..Len(end) : (first \o end)[Len(first) + i] = end[i]
  BY <1>6, <1>9, JoinedRight
<1>16. /\ first \o end \in Seq(S) /\ Len(first \o end) = Len(first) + 2
       /\ \A i \in 1..Len(first) : (first \o end)[i] = first[i]
       /\ (first \o end)[Len(first) + 1] = end[1] /\ (first \o end)[Len(first) + 2] = end[2]
  BY <1>7, <1>13, <1>14, <1>15
<1>17. all = first \o end
  BY DEF first
<1> HIDE DEF all
<1>18. ASSUME NEW i \in 1..7 PROVE all[i] = Begin[i]
  BY <1>8, <1>12, <1>16, <1>17
<1>19. ASSUME NEW i \in 8..(Len(all) - 2) PROVE all[i] \in DataWords(a)
  <2>1. i - 7 \in 1..Len(mid) /\ 7 + (i - 7) = i /\ i \in 1..Len(first)
    BY <1>8, <1>12, <1>16, <1>17
  <2>2. all[i] = mid[i - 7]
    BY <1>12, <1>16, <1>17, <2>1
  <2> QED
    BY <1>1, <2>1, <2>2
<1>20. Len(all) - 1 = Len(first) + 1 /\ Len(all) = Len(first) + 2 /\ Len(all) \in Nat /\ Len(all) >= 9
  BY <1>8, <1>12, <1>16, <1>17
<1>21. all \in Seq(S) /\ all[Len(all) - 1] = W("EOT") /\ all[Len(all)] = R("ACK")
  BY <1>7, <1>16, <1>17, <1>20
<1> QED
  BY <1>2, <1>18, <1>19, <1>20, <1>21 DEF S

\* my-install gets the words SOH, crcn, crc and then ACKs, and nothing else.
LEMMA BootReads ==
  ASSUME NEW a \in BOOLEAN, NEW i \in 1..Len(BootOps(a))
  PROVE  /\ BootOps(a)[i].op \in {"WRITE32", "READ32"}
         /\ BootOps(a)[i].op = "READ32" => BootOps(a)[i].val = Expected(Rank(BootOps(a), i))
<1> DEFINE b == BootOps(a)
           n == Len(BootOps(a))
<1>1. n \in Nat /\ n >= 9 /\ i \in 1..n
      /\ (\A j \in 1..7 : b[j] = Begin[j]) /\ (\A j \in 8..(n - 2) : b[j] \in DataWords(a))
      /\ b[n - 1] = W("EOT") /\ b[n] = R("ACK")
  BY BootShape
<1> HIDE DEF b, n
<1>2. /\ b[1] = W("SOH") /\ b[2] = W("n") /\ b[3] = W("crc") /\ b[7] = W("ACK")
      /\ b[4] = R("SOH") /\ b[5] = R("crcn") /\ b[6] = R("crc")
  BY <1>1 DEF Begin
<1>3. Rank(b, 3) = 0
  <2>1. Reads(b, 3) = {}
    BY <1>2 DEF Reads, W, Op
  <2> QED
    BY <2>1, FS_EmptySet DEF Rank
<1>4. Rank(b, 3 + 1) = 1 /\ Rank(b, 4 + 1) = 2 /\ Rank(b, 5 + 1) = 3
  BY <1>2, <1>3, RankNext DEF R, Op
<1> DEFINE Right == b[i].op \in {"WRITE32", "READ32"} /\ (b[i].op = "READ32" => b[i].val = Expected(Rank(b, i)))
<1>5. ASSUME i \in 1..7 PROVE Right
  <2>1. b[i].op = "WRITE32" \/ i = 4 \/ i = 5 \/ i = 6
    BY <1>2, <1>5 DEF W, Op
  <2>2. Rank(b, 4) = 1 /\ Rank(b, 5) = 2 /\ Rank(b, 6) = 3
    BY <1>4
  <2> QED
    BY <1>2, <2>1, <2>2 DEF R, Op, Expected
<1>6. ASSUME i \notin 1..7 PROVE Right
  <2>1. b[i] \in DataWords(a) \/ b[i] = W("EOT") \/ b[i] = R("ACK")
    BY <1>1, <1>6
  <2>2. b[i].op = "WRITE32" \/ b[i] = R("ACK")
    BY <2>1 DEF DataWords, W, R, Op
  <2>3. b[i] = R("ACK") => Rank(b, i) > 3 /\ Rank(b, i) \in Nat
    <3>1. i \in Nat /\ 6 <= i /\ 6 < i
      BY <1>1, <1>6
    <3>2. R("ACK").op # "WRITE32"
      BY DEF R, Op
    <3> QED
      BY <1>4, <3>1, <3>2, RankGrows, RankType
  <2> QED
    BY <2>2, <2>3 DEF R, Op, Expected
<1>7. Right
  BY <1>5, <1>6
<1> QED
  BY <1>7 DEF b

\* A boot without the ACKs has no more words for my-install than one with them.
LEMMA BootRanks ==
  ASSUME NEW a \in BOOLEAN
  PROVE  /\ Rank(BootOps(a), Len(BootOps(a))) <= Rank(Script, Len(Script))
         /\ Rank(BootOps(a), Len(BootOps(a))) >= 4
<1>1. ASSUME NEW c \in BOOLEAN
      PROVE  Rank(BootOps(c), Len(BootOps(c))) >= 4 /\ Rank(BootOps(c), Len(BootOps(c))) \in Nat
  <2> DEFINE b == BootOps(c)
             n == Len(BootOps(c))
  <2>1. n \in Nat /\ n >= 9 /\ (\A j \in 1..7 : b[j] = Begin[j]) /\ b[n] = R("ACK")
    BY BootShape
  <2> HIDE DEF b, n
  <2>2. b[4].op # "WRITE32" /\ b[5].op # "WRITE32" /\ b[6].op # "WRITE32" /\ b[n].op # "WRITE32"
    BY <2>1 DEF Begin, R, Op
  <2>3. Rank(b, 3 + 1) = Rank(b, 3) + 1 /\ Rank(b, 4 + 1) = Rank(b, 4) + 1 /\ Rank(b, 5 + 1) = Rank(b, 5) + 1
    BY <2>2, RankNext
  <2>4. Rank(b, 3) \in Nat /\ Rank(b, n) \in Nat /\ Rank(b, 6) \in Nat
    BY <2>1, RankType
  <2>5. Rank(b, 6) < Rank(b, n)
    BY <2>1, <2>2, RankGrows
  <2>6. Rank(b, n) >= 4
    BY <2>3, <2>4, <2>5
  <2> QED
    BY <2>4, <2>6 DEF b, n
<1>2. Rank(BootOps(FALSE), Len(BootOps(FALSE))) = 4
  <2> DEFINE b == BootOps(FALSE)
             n == Len(BootOps(FALSE))
  <2>1. n \in Nat /\ n >= 9 /\ (\A j \in 1..7 : b[j] = Begin[j])
        /\ (\A j \in 8..(n - 2) : b[j] \in DataWords(FALSE)) /\ b[n - 1] = W("EOT") /\ b[n] = R("ACK")
    BY BootShape
  <2> HIDE DEF b, n
  <2>2. \A j \in 8..(n - 1) : b[j].op = "WRITE32"
    BY <2>1 DEF DataWords, W, Op
  <2>3. /\ b[1].op = "WRITE32" /\ b[2].op = "WRITE32" /\ b[3].op = "WRITE32" /\ b[7].op = "WRITE32"
        /\ b[4].op # "WRITE32" /\ b[5].op # "WRITE32" /\ b[6].op # "WRITE32" /\ b[n].op # "WRITE32"
    BY <2>1 DEF Begin, W, R, Op
  <2>4. Reads(b, n) = {4, 5, 6, n}
    <3>1. ASSUME NEW j \in 1..n, b[j].op # "WRITE32" PROVE j \in {4, 5, 6, n}
      BY <2>1, <2>2, <2>3, <3>1
    <3>2. {4, 5, 6, n} \subseteq 1..n
      BY <2>1
    <3>3. \A j \in {4, 5, 6, n} : b[j].op # "WRITE32"
      BY <2>3
    <3> QED
      BY <3>1, <3>2, <3>3 DEF Reads
  <2>5. Cardinality({4, 5, 6, n}) = 4
    <3>1. {} \cup {4} = {4} /\ {4} \cup {5} = {4, 5} /\ {4, 5} \cup {6} = {4, 5, 6} /\ {4, 5, 6} \cup {n} = {4, 5, 6, n}
      OBVIOUS
    <3>2. IsFiniteSet({4}) /\ Cardinality({4}) = 1
      BY FS_Singleton
    <3>3. IsFiniteSet({4, 5}) /\ Cardinality({4, 5}) = 2
      BY <3>1, <3>2, FS_AddElement
    <3>4. IsFiniteSet({4, 5, 6}) /\ Cardinality({4, 5, 6}) = 3
      BY <3>1, <3>3, FS_AddElement
    <3>5. n \notin {4, 5, 6}
      BY <2>1
    <3> QED
      BY <3>1, <3>4, <3>5, FS_AddElement
  <2>6. Rank(b, n) = 4
    BY <2>4, <2>5 DEF Rank
  <2> QED
    BY <2>6 DEF b, n
<1>3. CASE a = TRUE
  <2>1. Rank(BootOps(a), Len(BootOps(a))) = Rank(Script, Len(Script))
    BY <1>3, Zenon DEF Script
  <2> QED
    BY <1>1, <2>1
<1>4. CASE a = FALSE
  BY <1>1, <1>2, <1>4 DEF Script
<1> QED
  BY <1>3, <1>4

\* A whole log.
LEMMA RecordedShape ==
  ASSUME NEW a \in BOOLEAN, NEW text \in Texts
  PROVE  /\ Len(text) \in Nat /\ Len(BootOps(a)) \in Nat
         /\ Len(Recorded(a, text)) = Len(BootOps(a)) + Len(text)
         /\ \E S : Recorded(a, text) \in Seq(S)
         /\ \A i \in 1..Len(BootOps(a)) : Recorded(a, text)[i] = BootOps(a)[i]
         /\ \A i \in 1..Len(text) : Recorded(a, text)[Len(BootOps(a)) + i] = Op("READ8", text[i])
<1> DEFINE S == BootWords(a) \cup {Op("READ8", c) : c \in Chars}
           b == BootOps(a)
           e == EchoOps(text)
<1>1. text \in Seq(Chars) /\ Len(text) \in Nat
  BY ReplayAssumption
<1>2. b \in Seq(S)
  BY BootShape
<1>3. e \in Seq(S) /\ Len(e) = Len(text) /\ \A i \in 1..Len(text) : e[i] = Op("READ8", text[i])
  <2>1. ASSUME NEW i \in 1..Len(text) PROVE Op("READ8", text[i]) \in S
    BY <1>1
  <2> HIDE DEF S
  <2> QED
    BY <1>1, <2>1 DEF EchoOps
<1> HIDE DEF S, b, e
<1>4. b \o e \in Seq(S) /\ Len(b \o e) = Len(b) + Len(e)
  BY <1>2, <1>3, JoinedType
<1>5. \A i \in 1..Len(b) : (b \o e)[i] = b[i]
  BY <1>2, <1>3, JoinedLeft
<1>6. \A i \in 1..Len(e) : (b \o e)[Len(b) + i] = e[i]
  BY <1>2, <1>3, JoinedRight
<1>7. Recorded(a, text) = b \o e
  BY DEF Recorded, b, e
<1>8. Len(b) \in Nat
  BY <1>2
<1> QED
  BY <1>1, <1>3, <1>4, <1>5, <1>6, <1>7, <1>8 DEF b

\* A log of a boot, good or failed: up to any of its READ32s it has the operations of
\* a boot that goes well.
Shape(a, boot, i) ==
  /\ boot[i] = Op(boot[i].op, boot[i].val) /\ boot[i].op \in {"WRITE32", "READ32", "READ8"}
  /\ boot[i].op = "READ32" => /\ i \in Gets(a) /\ boot[i].val \in Words \cup Bad
                              /\ \A k \in 1..i : boot[k].op = BootOps(a)[k].op
  /\ boot[i].op = "READ8" => boot[i].val \in Chars

\* A word of a boot that goes well.
LEMMA BootShaped ==
  ASSUME NEW a \in BOOLEAN, NEW boot, NEW i \in 1..Len(BootOps(a)),
         \A k \in 1..i : boot[k] = BootOps(a)[k]
  PROVE  Shape(a, boot, i)
<1> DEFINE b == BootOps(a)
<1>1. Len(b) \in Nat /\ i \in 1..i
  BY BootShape
<1>2. b[i] \in BootWords(a)
  BY BootShape
<1>3. b[i] = Op(b[i].op, b[i].val)
  BY <1>2 DEF BootWords, DataWords, W, R, Op
<1>4. b[i].op \in {"WRITE32", "READ32"} /\ (b[i].op = "READ32" => b[i].val \in Words)
  BY BootReads DEF Expected, Words
<1>5. boot[i] = b[i] /\ \A k \in 1..i : boot[k].op = b[k].op
  BY <1>1
<1>6. b[i].op = "READ32" => i \in Gets(a)
  BY DEF Gets
<1> HIDE DEF b
<1> QED
  BY <1>3, <1>4, <1>5, <1>6 DEF Shape, b

LEMMA BootIs ==
  ASSUME NEW a \in BOOLEAN, NEW boot \in Boots[a]
  PROVE  \/ \E text \in Texts : boot = Recorded(a, text)
         \/ \E i \in Gets(a), v \in Words \cup Bad : boot = FailedBoot(BootOps(a), i, v)
BY DEF Boots

LEMMA BootsShape ==
  ASSUME NEW a \in BOOLEAN, NEW boot \in Boots[a]
  PROVE  /\ Len(boot) \in Nat /\ \E S : boot \in Seq(S)
         /\ \A i \in 1..Len(boot) : Shape(a, boot, i)
<1> DEFINE b == BootOps(a)
<1>1. CASE \E text \in Texts : boot = Recorded(a, text)
  <2>1. PICK text \in Texts : boot = Recorded(a, text)
    BY <1>1
  <2>2. /\ Len(text) \in Nat /\ Len(b) \in Nat /\ Len(boot) = Len(b) + Len(text)
        /\ \E S : boot \in Seq(S)
        /\ \A i \in 1..Len(b) : boot[i] = b[i]
        /\ \A i \in 1..Len(text) : boot[Len(b) + i] = Op("READ8", text[i])
    BY <2>1, RecordedShape
  <2>3. ASSUME NEW i \in 1..Len(boot) PROVE Shape(a, boot, i)
    <3>1. CASE i <= Len(b)
      <4>1. i \in 1..Len(b) /\ \A k \in 1..i : boot[k] = b[k]
        BY <2>2, <3>1
      <4> QED
        BY <4>1, BootShaped
    <3>2. CASE i > Len(b)
      <4>1. i - Len(b) \in 1..Len(text) /\ Len(b) + (i - Len(b)) = i
        BY <2>2, <3>2
      <4>2. boot[i] = Op("READ8", text[i - Len(b)]) /\ text[i - Len(b)] \in Chars
        BY <2>2, <4>1, ReplayAssumption
      <4> QED
        BY <4>2 DEF Shape, Op
    <3> QED
      BY <2>2, <3>1, <3>2
  <2> QED
    BY <2>2, <2>3
<1>2. CASE \E i \in Gets(a), v \in Words \cup Bad : boot = FailedBoot(b, i, v)
  <2>1. PICK g \in Gets(a), v \in Words \cup Bad : boot = FailedBoot(b, g, v)
    BY <1>2
  <2>2. g \in 1..Len(b) /\ b[g].op = "READ32" /\ g \in Nat /\ Len(b) \in Nat
    BY BootShape DEF Gets
  <2> DEFINE S == BootWords(a) \cup {R(v), W("NAK")}
             head == SubSeq(b, 1, g - 1)
             end == <<R(v), W("NAK")>>
  <2>3. b \in Seq(S)
    BY BootShape
  <2>4. R(v) \in S /\ W("NAK") \in S
    OBVIOUS
  <2> HIDE DEF S, b
  <2>5. head \in Seq(S) /\ Len(head) = g - 1 /\ \A k \in 1..(g - 1) : head[k] = b[k]
    BY <2>2, <2>3
  <2>6. end \in Seq(S)
    BY <2>4
  <2>7. Len(end) = 2 /\ end[1] = R(v) /\ end[2] = W("NAK") /\ 1 \in 1..Len(end) /\ 2 \in 1..Len(end)
    OBVIOUS
  <2> HIDE DEF head, end
  <2>8. boot = head \o end
    BY <2>1 DEF FailedBoot, head, end
  <2>9. head \o end \in Seq(S) /\ Len(head \o end) = Len(head) + Len(end)
    BY <2>5, <2>6, JoinedType
  <2>10. \A k \in 1..Len(head) : (head \o end)[k] = head[k]
    BY <2>5, <2>6, JoinedLeft
  <2>11. \A k \in 1..Len(end) : (head \o end)[Len(head) + k] = end[k]
    BY <2>5, <2>6, JoinedRight
  <2>12. /\ boot \in Seq(S) /\ Len(boot) = g + 1
         /\ \A k \in 1..(g - 1) : boot[k] = b[k]
         /\ boot[g] = R(v) /\ boot[g + 1] = W("NAK")
    <3>1. boot[Len(head) + 1] = R(v) /\ boot[Len(head) + 2] = W("NAK")
      BY <2>7, <2>8, <2>11
    <3>2. Len(head) + 1 = g /\ Len(head) + 2 = g + 1
      BY <2>2, <2>5
    <3>3. \A k \in 1..(g - 1) : boot[k] = b[k]
      BY <2>5, <2>8, <2>10
    <3>4. boot \in Seq(S) /\ Len(boot) = g + 1
      BY <2>2, <2>5, <2>7, <2>8, <2>9
    <3> QED
      BY <3>1, <3>2, <3>3, <3>4
  <2>13. ASSUME NEW i \in 1..Len(boot) PROVE Shape(a, boot, i)
    <3>1. CASE i < g
      <4>1. i \in 1..Len(b) /\ \A k \in 1..i : boot[k] = b[k]
        BY <2>2, <2>12, <3>1
      <4> QED
        BY <4>1, BootShaped DEF b
    <3>2. CASE i = g
      <4>1. boot[g].op = "READ32" /\ boot[g].val = v /\ boot[g] = Op(boot[g].op, boot[g].val)
        BY <2>12 DEF R, Op
      <4>2. ASSUME NEW k \in 1..g PROVE boot[k].op = b[k].op
        BY <2>2, <2>12, <4>1
      <4> QED
        BY <3>2, <4>1, <4>2 DEF Shape, b
    <3>3. CASE i > g
      <4>1. i = g + 1
        BY <2>2, <2>12, <3>3
      <4> QED
        BY <2>12, <4>1 DEF Shape, W, Op
    <3> QED
      BY <2>2, <2>12, <3>1, <3>2, <3>3
  <2>14. Len(boot) \in Nat
    BY <2>2, <2>12
  <2> QED
    BY <2>12, <2>13, <2>14
<1> QED
  BY <1>1, <1>2, BootIs

\* What my-install gets is in the order of the protocol, and no more than it gets when
\* all goes well.
LEMMA GetsRank ==
  ASSUME NEW a \in BOOLEAN
  PROVE  /\ IsFiniteSet(Gets(a)) /\ Cardinality(Gets(a)) = Rank(BootOps(a), Len(BootOps(a)))
         /\ Cardinality(Gets(a)) <= Cardinality(Gets(TRUE))
         /\ Cardinality(Gets(TRUE)) = Rank(Script, Len(Script))
         /\ Cardinality(Gets(a)) \in Nat /\ Cardinality(Gets(TRUE)) \in Nat
<1>1. ASSUME NEW c \in BOOLEAN
      PROVE  /\ IsFiniteSet(Gets(c)) /\ Cardinality(Gets(c)) = Rank(BootOps(c), Len(BootOps(c)))
             /\ Cardinality(Gets(c)) \in Nat
  <2>1. Gets(c) = Reads(BootOps(c), Len(BootOps(c)))
    <3>1. \A i \in 1..Len(BootOps(c)) : BootOps(c)[i].op = "READ32" <=> BootOps(c)[i].op # "WRITE32"
      BY BootReads
    <3> QED
      BY <3>1 DEF Gets, Reads
  <2>2. Len(BootOps(c)) \in Nat
    BY BootShape
  <2> QED
    BY <2>1, <2>2, RankType DEF Rank
<1>2. Cardinality(Gets(TRUE)) = Rank(Script, Len(Script)) /\ Cardinality(Gets(TRUE)) \in Nat
  BY <1>1 DEF Script
<1>3. Rank(BootOps(a), Len(BootOps(a))) <= Rank(Script, Len(Script))
  BY BootRanks
<1> QED
  BY <1>1, <1>2, <1>3
-----------------------------------------------------------------------------
(* The file.                                                               *)

\* It came of a trace; main panics at one that it cannot read.
FileInv ==
  /\ acks \in BOOLEAN /\ copies \in CopySet
  /\ \E boot \in Boots[acks] : lines \in Traces(Emit(boot))
  /\ Readable(lines) \/ (hpc = "err" /\ cpc = "none")

LEMMA LinesOf ==
  ASSUME NEW a \in BOOLEAN, NEW boot \in Boots[a], lines \in Traces(Emit(boot))
  PROVE  /\ lines \in Seq(CutLines(Emit(boot))) /\ Len(lines) \in Nat
         /\ \A i \in 1..Len(lines) :
              \E j \in 1..Len(boot), k \in 0..4 : lines[i] = Cut(Emit(boot)[j], k)
<1> DEFINE t == Emit(boot)
<1>1. Len(boot) \in Nat
  BY BootsShape
<1>2. Len(t) = Len(boot)
  BY <1>1 DEF Emit
<1>3. lines \in Seq(CutLines(t))
  BY TraceAssumption
<1> HIDE DEF t
<1>4. ASSUME NEW i \in 1..Len(lines)
      PROVE  \E j \in 1..Len(boot), k \in 0..4 : lines[i] = Cut(t[j], k)
  <2>1. lines[i] \in CutLines(t)
    BY <1>3
  <2>2. \E j \in 1..Len(t), k \in 0..4 : lines[i] = Cut(t[j], k)
    BY <2>1 DEF CutLines
  <2> QED
    BY <1>2, <2>2
<1>5. Len(lines) \in Nat
  BY <1>3
<1> QED
  BY <1>3, <1>4, <1>5 DEF t

\* What can be read are the first operations of the boot.
LEMMA ReadableBegins ==
  ASSUME NEW a \in BOOLEAN, NEW boot \in Boots[a], lines \in Traces(Emit(boot)), Readable(lines)
  PROVE  /\ Len(Original) = Len(lines) /\ Len(lines) \in Nat /\ Len(lines) <= Len(boot)
         /\ \A i \in 1..Len(lines) : Original[i] = boot[i]
<1> DEFINE t == Emit(boot)
<1>1. /\ Len(lines) \in Nat
      /\ \A i \in 1..Len(lines) : \E j \in 1..Len(boot), k \in 0..4 : lines[i] = Cut(t[j], k)
  BY LinesOf
<1>2. Len(boot) \in Nat
  BY BootsShape
<1>3. \A j \in 1..Len(boot) :
        t[j] = [tag |-> "TRACE", op |-> boot[j].op, cnt |-> j - 1, val |-> boot[j].val, whole |-> 4]
  BY DEF Emit, Line
<1>4. Len(Original) = Len(lines) /\ \A i \in 1..Len(lines) : Original[i] = Op(lines[i].op, lines[i].val)
  BY <1>1 DEF Original, ReadInput
<1>5. \A j \in 1..Len(boot) : boot[j] = Op(boot[j].op, boot[j].val)
  BY BootsShape DEF Shape
<1> HIDE DEF t
<1>6. ASSUME NEW i \in 1..Len(lines) PROVE i \in 1..Len(boot) /\ Original[i] = boot[i]
  <2>1. PICK j \in 1..Len(boot), k \in 0..4 : lines[i] = Cut(t[j], k)
    BY <1>1
  <2>2. ReadLine(i - 1, lines[i])
    BY DEF Readable
  <2>3. lines[i].cnt = i - 1
    BY <2>2 DEF ReadLine
  <2>4. lines[i].cnt = j - 1 /\ lines[i].op = boot[j].op /\ lines[i].val = boot[j].val
    <3> DEFINE line == [tag |-> "TRACE", op |-> boot[j].op, cnt |-> j - 1, val |-> boot[j].val, whole |-> 4]
    <3>1. t[j] = line
      BY <1>3
    <3>2. lines[i] = [line EXCEPT !.whole = k]
      BY <2>1, <3>1, Zenon DEF Cut
    <3> QED
      BY <3>2
  <2>5. i = j
    BY <1>1, <1>2, <2>3, <2>4
  <2> QED
    BY <1>4, <1>5, <2>4, <2>5
<1>7. Len(lines) <= Len(boot)
  <2>1. CASE Len(lines) = 0
    BY <1>2, <2>1
  <2>2. CASE Len(lines) # 0
    <3>1. Len(lines) \in 1..Len(lines)
      BY <1>1, <2>2
    <3> QED
      BY <1>6, <3>1
  <2> QED
    BY <2>1, <2>2
<1> QED
  BY <1>1, <1>4, <1>6, <1>7

LEMMA FileStarts == Init => FileInv
BY DEF Init, FileInv

LEMMA FileStays == Next => UNCHANGED <<lines, acks, copies>>
BY DEF Next, Harness, Child, CheckSuccess, CheckCrashes, NextRound, WriteOp, WriteFails, ReadOp, ReadEnd,
       ReadReset, LogEnds, HasData, NoData, ExitCode, Passed, Fail, Step, Spawn, ChildPuts, ChildExpects,
       ChildPanics, ChildEchoes, ExitChild, file

LEMMA FileStep == FileInv /\ [Next]_vars => FileInv'
<1>1. Next => ~(hpc = "err" /\ cpc = "none")
  BY DEF Next, Harness, Child, CheckSuccess, CheckCrashes, NextRound, WriteOp, WriteFails, ReadOp, ReadEnd,
         ReadReset, LogEnds, HasData, NoData, ExitCode, AtOp, ChildPuts, ChildExpects, ChildPanics, ChildEchoes
<1>2. UNCHANGED vars => UNCHANGED <<lines, acks, copies, hpc, cpc>>
  BY DEF vars, file, harness, child
<1> QED
  BY <1>1, <1>2, FileStays DEF FileInv

\* A file in which lines of the trace are missing but at its end, doubled, out of
\* order or cut, whichever and however many, is not replayed.
THEOREM ReplayRefusesGaps == Spec => []GapsRefused
<1>1. FileInv => GapsRefused
  <2> SUFFICES ASSUME FileInv, hpc # "err"
               PROVE  \E boot \in Boots[acks] : IsPrefix(Original, boot)
    BY DEF GapsRefused
  <2>1. PICK boot \in Boots[acks] : lines \in Traces(Emit(boot))
    BY DEF FileInv
  <2>2. acks \in BOOLEAN /\ Readable(lines)
    BY DEF FileInv
  <2> DEFINE o == Original
  <2>3. /\ Len(o) = Len(lines) /\ Len(lines) \in Nat /\ Len(lines) <= Len(boot)
        /\ \A i \in 1..Len(lines) : o[i] = boot[i]
    BY <2>1, <2>2, ReadableBegins
  <2>4. Len(boot) \in Nat /\ \E S : boot \in Seq(S)
    BY <2>2, BootsShape
  <2>5. o \in Seq({o[i] : i \in 1..Len(lines)})
    BY <2>3 DEF Original, ReadInput
  <2> HIDE DEF o
  <2>6. SubSeq(o, 1, Len(o)) = SubSeq(boot, 1, Len(o))
    BY <2>3, <2>4, <2>5
  <2>7. IsPrefix(o, boot)
    BY <2>3, <2>6 DEF IsPrefix
  <2> QED
    BY <2>7 DEF o
<1> QED
  BY <1>1, FileStarts, FileStep, PTL DEF Spec
-----------------------------------------------------------------------------
(* The log, which the harness corrupts.                                    *)

Values == {lines[i].val : i \in 1..Len(lines)} \cup Bad

\* Operations stay what they were; a value that does not is one of Bad, at an
\* operation that may be corrupted.
LogInv ==
  /\ log = [i \in 1..Len(lines) |-> Op(lines[i].op, log[i].val)]
  /\ \A i \in 1..Len(lines) : log[i].val = lines[i].val \/ (Corruptible(i) /\ log[i].val \in Bad)
  /\ corrupt = 0 \/ Corruptible(corrupt)

HarnessType ==
  /\ hpc \in {"attempt", "op", "eof", "wait"} \cup Ended
  /\ op \in 1..(Len(lines) + 1) /\ round \in 1..(2 * Rounds + 1) /\ canFail \in BOOLEAN
  /\ round > 2 * Rounds => hpc = "done"

LEMMA LinesLength == FileInv => Len(lines) \in Nat
BY LinesOf DEF FileInv

LEMMA LogFacts ==
  ASSUME FileInv, LogInv
  PROVE  /\ Len(log) = Len(lines) /\ Len(Original) = Len(lines)
         /\ \A i \in 1..Len(lines) :
              /\ log[i].op = lines[i].op /\ log[i].val \in Values
              /\ Original[i] = Op(lines[i].op, lines[i].val) /\ log[i] = Op(lines[i].op, log[i].val)
<1>1. Len(lines) \in Nat
  BY LinesLength
<1>2. Len(log) = Len(lines)
  BY <1>1 DEF LogInv
<1>3. Len(Original) = Len(lines) /\ \A i \in 1..Len(lines) : Original[i] = Op(lines[i].op, lines[i].val)
  BY <1>1 DEF Original, ReadInput
<1>4. ASSUME NEW i \in 1..Len(lines)
      PROVE  log[i].op = lines[i].op /\ log[i].val \in Values /\ log[i] = Op(lines[i].op, log[i].val)
  <2>1. log[i] = Op(lines[i].op, log[i].val)
    BY DEF LogInv
  <2>2. log[i].val \in Values
    BY DEF LogInv, Values
  <2> QED
    BY <2>1, <2>2 DEF Op
<1> QED
  BY <1>2, <1>3, <1>4

\* Whether an operation may be corrupted is for the file to say.
MayBe(i) == i \in 1..Len(lines) /\ lines[i].op = "READ32" /\ \A j \in 1..i : lines[j].op # "READ8"

LEMMA CorruptibleIs ==
  ASSUME FileInv, LogInv, NEW i
  PROVE  Corruptible(i) <=> MayBe(i)
<1>1. Len(lines) \in Nat /\ Len(log) = Len(lines) /\ \A j \in 1..Len(lines) : log[j].op = lines[j].op
  BY LinesLength, LogFacts
<1> QED
  BY <1>1, SMTT(30) DEF Corruptible, MayBe

\* What replay does to the log in one turn.
LEMMA CorruptKeeps ==
  ASSUME FileInv, LogInv, HarnessType, op <= Len(log), CorruptOp, UNCHANGED <<lines, corrupt>>
  PROVE  /\ LogInv' /\ log'[op].val \in Values
         /\ \A i \in 1..Len(lines) : i # op => log'[i] = log[i]
         /\ op # corrupt => log' = log
         /\ op = corrupt => log'[op].val \in Bad
<1>1. /\ Len(lines) \in Nat /\ Len(log) = Len(lines) /\ op \in 1..Len(lines)
      /\ \A i \in 1..Len(lines) : log[i] = Op(lines[i].op, log[i].val) /\ log[i].op = lines[i].op
                                  /\ log[i].val \in Values
  BY LinesLength, LogFacts DEF HarnessType
<1>2. CASE op # corrupt
  <2>1. log' = log
    BY <1>2 DEF CorruptOp
  <2> QED
    BY <1>1, <1>2, <2>1 DEF LogInv, Corruptible
<1>3. CASE op = corrupt
  <2>1. PICK v \in Bad : log' = [log EXCEPT ![op].val = v]
    BY <1>3 DEF CorruptOp
  <2>2. log' = [i \in 1..Len(lines) |-> IF i = op THEN [log[i] EXCEPT !.val = v] ELSE log[i]]
    BY <1>1, <2>1 DEF LogInv
  <2>3. [log[op] EXCEPT !.val = v] = Op(lines[op].op, v)
    <3>1. PICK a, b : log[op] = Op(a, b) /\ a = lines[op].op
      BY <1>1
    <3>2. [Op(a, b) EXCEPT !.val = v] = Op(a, v)
      BY DEF Op
    <3> QED
      BY <3>1, <3>2, Zenon
  <2>4. log' = [i \in 1..Len(lines) |-> Op(lines[i].op, IF i = op THEN v ELSE log[i].val)]
    <3>1. \A i \in 1..Len(lines) : (IF i = op THEN [log[i] EXCEPT !.val = v] ELSE log[i])
                                     = Op(lines[i].op, IF i = op THEN v ELSE log[i].val)
      BY <1>1, <2>3
    <3> QED
      BY <2>2, <3>1
  <2>5. \A i \in 1..Len(lines) : log'[i].val = (IF i = op THEN v ELSE log[i].val) /\ log'[i].op = lines[i].op
    BY <2>4 DEF Op
  <2>6. Corruptible(corrupt)
    BY <1>1, <1>3 DEF LogInv
  <2>7. \A i \in 1..Len(lines) : log'[i].op = log[i].op
    BY <1>1, <2>5
  <2>8. Len(log') = Len(log)
    BY <1>1, <2>4
  <2>9. \A i : Corruptible(i) <=> Corruptible(i)'
    <3>1. SUFFICES ASSUME NEW i \in 1..Len(lines) PROVE Corruptible(i) <=> Corruptible(i)'
      BY <1>1, <2>8 DEF Corruptible
    <3>2. \A j \in 1..i : log'[j].op = log[j].op
      BY <1>1, <2>7
    <3> QED
      BY <1>1, <2>7, <2>8, <3>2 DEF Corruptible
  <2>10. log' = [i \in 1..Len(lines) |-> Op(lines[i].op, log'[i].val)]
    BY <2>4, <2>5
  <2>11. \A i \in 1..Len(lines) : log'[i].val = lines[i].val \/ (Corruptible(i)' /\ log'[i].val \in Bad)
    BY <1>3, <2>5, <2>6, <2>9 DEF LogInv
  <2>12. LogInv'
    BY <2>6, <2>9, <2>10, <2>11 DEF LogInv
  <2>13. \A i \in 1..Len(lines) : i # op => log'[i] = log[i]
    BY <2>2
  <2>14. log'[op].val = v
    BY <1>1, <2>5
  <2> QED
    BY <1>3, <2>12, <2>13, <2>14 DEF Values
<1> QED
  BY <1>2, <1>3

LEMMA LogUnchanged == LogInv /\ UNCHANGED <<lines, log, corrupt>> => LogInv'
BY DEF LogInv, Corruptible

LEMMA LaterIs ==
  ASSUME FileInv, LogInv, Later # {}
  PROVE  First(Later) \in Later
<1>1. Len(log) \in Nat
  BY LinesLength, LogFacts
<1>2. Later \subseteq Nat
  BY <1>1 DEF Later
<1>3. \E i \in Later : \A j \in Later : i <= j
  BY <1>2, Least
<1> QED
  BY <1>3 DEF First

LEMMA RoundsType == Rounds \in Nat /\ Rounds >= 1
BY ReplayAssumption

LEMMA LogStarts == Init => LogInv /\ HarnessType
<1> SUFFICES ASSUME Init PROVE LogInv /\ HarnessType
  OBVIOUS
<1>1. Len(lines) \in Nat
  BY FileStarts, LinesLength
<1>2. log = [i \in 1..Len(lines) |-> Op(lines[i].op, lines[i].val)]
  BY DEF Init, Original, ReadInput
<1>3. \A i \in 1..Len(lines) : log[i].val = lines[i].val
  BY <1>2 DEF Op
<1>4. LogInv
  BY <1>2, <1>3 DEF LogInv, Init
<1>5. HarnessType
  <2>1. op = 1 /\ round = 1 /\ canFail = FALSE /\ hpc \in {"attempt", "err"}
    BY DEF Init
  <2>2. op \in 1..(Len(lines) + 1) /\ round \in 1..(2 * Rounds + 1) /\ ~(round > 2 * Rounds)
    BY <1>1, <2>1, RoundsType
  <2> QED
    BY <2>1, <2>2 DEF HarnessType, Ended
<1> QED
  BY <1>4, <1>5

LEMMA LogStep == FileInv /\ LogInv /\ HarnessType /\ [Next]_vars => LogInv' /\ HarnessType'
<1> SUFFICES ASSUME FileInv, LogInv, HarnessType, [Next]_vars PROVE LogInv' /\ HarnessType'
  OBVIOUS
<1>1. Len(lines) \in Nat /\ Len(log) = Len(lines)
  BY LinesLength, LogFacts
<1> DEFINE Calm == round' \in 1..(2 * Rounds + 1) /\ ~(round' > 2 * Rounds)
<1>2. ASSUME hpc # "done", UNCHANGED round PROVE Calm
  BY <1>2 DEF HarnessType
<1> HIDE DEF Calm
<1>3. ASSUME Calm, op' \in 1..(Len(lines) + 1), UNCHANGED lines, canFail' \in BOOLEAN,
             hpc' \in {"attempt", "op", "eof", "wait"} \cup Ended
      PROVE  HarnessType'
  BY <1>3, Zenon DEF HarnessType, Calm
<1>4. 1 \in 1..(Len(lines) + 1)
  BY <1>1
<1>5. CASE CheckSuccess \/ CheckCrashes
  <2>1. /\ UNCHANGED <<lines, log, round>> /\ hpc' = "op" /\ op' = 1 /\ canFail' = FALSE /\ hpc # "done"
        /\ corrupt' = 0 \/ Corruptible(corrupt')
    <3>1. CASE CheckSuccess
      BY <3>1 DEF CheckSuccess, Spawn, file
    <3>2. CASE CheckCrashes
      <4>1. Corruptible(corrupt')
        BY <3>2, LaterIs DEF CheckCrashes, Spawn, Later
      <4> QED
        BY <3>2, <4>1 DEF CheckCrashes, Spawn, file
    <3> QED
      BY <1>5, <3>1, <3>2
  <2>2. LogInv'
    BY <2>1 DEF LogInv, Corruptible
  <2>3. HarnessType'
    BY <1>2, <1>3, <1>4, <2>1
  <2> QED
    BY <2>2, <2>3
<1>6. CASE NextRound
  <2>1. UNCHANGED <<lines, log, op, canFail>> /\ corrupt' = 0 /\ round' = round + 1
        /\ hpc' \in {"done", "attempt"} /\ hpc = "attempt" /\ (round' > 2 * Rounds => hpc' = "done")
    BY <1>6 DEF NextRound, file
  <2>2. LogInv'
    BY <2>1 DEF LogInv, Corruptible
  <2>3. round' \in 1..(2 * Rounds + 1)
    BY <2>1, RoundsType DEF HarnessType
  <2>4. op' \in 1..(Len(lines') + 1) /\ canFail' \in BOOLEAN
    BY <2>1 DEF HarnessType
  <2>5. HarnessType'
    BY <2>1, <2>3, <2>4, Zenon DEF HarnessType, Ended
  <2> QED
    BY <2>2, <2>5
<1>7. CASE WriteOp \/ (WriteFails /\ round > Rounds /\ CorruptOp /\ canFail' = TRUE /\ Step)
  <2>1. /\ op <= Len(log) /\ CorruptOp /\ UNCHANGED <<lines, corrupt, hpc, round>> /\ op' = op + 1
        /\ (canFail' = canFail \/ canFail' = TRUE) /\ hpc = "op"
    BY <1>7 DEF WriteOp, WriteFails, AtOp, Step, file
  <2>2. LogInv'
    BY <2>1, CorruptKeeps
  <2>3. op' \in 1..(Len(lines) + 1)
    BY <1>1, <2>1 DEF HarnessType
  <2>4. canFail' \in BOOLEAN
    BY <2>1, Zenon DEF HarnessType
  <2>5. HarnessType'
    BY <1>2, <1>3, <2>1, <2>3, <2>4
  <2> QED
    BY <2>2, <2>5
<1>8. CASE ReadOp \/ ReadEnd \/ (ReadReset /\ Step /\ UNCHANGED <<log, canFail>>)
  <2>1. op <= Len(log) /\ UNCHANGED <<lines, corrupt, hpc, round, log, canFail>> /\ op' = op + 1 /\ hpc = "op"
    BY <1>8 DEF ReadOp, ReadEnd, ReadReset, AtOp, Step, file
  <2>2. LogInv'
    BY <2>1, LogUnchanged
  <2>3. op' \in 1..(Len(lines) + 1) /\ canFail' \in BOOLEAN
    BY <1>1, <2>1 DEF HarnessType
  <2>4. HarnessType'
    BY <1>2, <1>3, <2>1, <2>3
  <2> QED
    BY <2>2, <2>4
<1>9. CASE hpc # "done" /\ \E how \in {"killed", "err", "wait", "eof"} : Fail(how)
  <2>1. UNCHANGED <<lines, corrupt, round, log, op, canFail>> /\ hpc' \in {"killed", "err", "wait", "eof"}
    BY <1>9 DEF Fail, file
  <2>2. LogInv'
    BY <2>1, LogUnchanged
  <2>3. op' \in 1..(Len(lines) + 1) /\ canFail' \in BOOLEAN
    BY <1>1, <2>1 DEF HarnessType
  <2>4. hpc' \in {"attempt", "op", "eof", "wait"} \cup Ended
    BY <2>1 DEF Ended
  <2>5. HarnessType'
    BY <1>2, <1>3, <1>9, <2>1, <2>3, <2>4
  <2> QED
    BY <2>2, <2>5
<1>10. CASE hpc # "done" /\ Passed
  <2>1. UNCHANGED <<lines, corrupt, log, op, canFail>> /\ hpc' = "attempt"
        /\ round' = IF round <= Rounds THEN round + 1 ELSE round
    BY <1>10 DEF Passed, file
  <2>2. LogInv'
    BY <2>1, LogUnchanged
  <2>3. Calm
    BY <1>10, <2>1, RoundsType DEF Calm, HarnessType
  <2>4. op' \in 1..(Len(lines) + 1) /\ canFail' \in BOOLEAN
    BY <1>1, <2>1 DEF HarnessType
  <2>5. HarnessType'
    BY <1>3, <2>1, <2>3, <2>4
  <2> QED
    BY <2>2, <2>5
<1>11. CASE Child \/ UNCHANGED vars
  <2>1. UNCHANGED <<file, harness>>
    BY <1>11 DEF Child, ChildPuts, ChildExpects, ChildPanics, ChildEchoes, ExitChild, vars
  <2> QED
    BY <2>1, LogUnchanged DEF file, harness, HarnessType
<1>12. WriteFails \/ ReadReset \/ LogEnds \/ HasData \/ NoData \/ ExitCode =>
         \/ WriteFails /\ round > Rounds /\ CorruptOp /\ canFail' = TRUE /\ Step
         \/ ReadReset /\ Step /\ UNCHANGED <<log, canFail>>
         \/ hpc # "done" /\ \E how \in {"killed", "err", "wait", "eof"} : Fail(how)
         \/ hpc # "done" /\ Passed
  BY DEF WriteFails, ReadReset, LogEnds, HasData, NoData, ExitCode, AtOp
<1> QED
  BY <1>5, <1>6, <1>7, <1>8, <1>9, <1>10, <1>11, <1>12 DEF Next, Harness
-----------------------------------------------------------------------------
(* The child.                                                              *)

\* How far my-install is, and what it may have put by then.
ChildType ==
  /\ cpc \in {"none", "boot", "nak", "echo"} \cup Dead
  /\ pos \in 0..(Len(Script) + Len(Exit)) /\ c2h \in Nat /\ reset \in BOOLEAN /\ h2c \in Seq(Values)
  /\ cpc \in {"boot", "nak"} => pos \in 1..Len(Script)
  /\ cpc = "echo" => pos < Len(Exit)
  /\ cpc = "none" => c2h = 0
  /\ cpc = "boot" => c2h <= copies * (pos - 1)
  /\ cpc \in {"nak", "echo"} => c2h <= copies * Len(Script)
  /\ cpc \in Dead => c2h <= copies * (Len(Script) + 1)

LEMMA CopiesType == FileInv => copies \in Nat /\ copies >= 1
BY ReplayAssumption DEF FileInv

LEMMA Times ==
  ASSUME NEW c \in Nat, NEW n \in Nat, NEW m \in Nat
  PROVE  /\ c * (n + 1) = c * n + c /\ c * n \in Nat
         /\ n <= m => c * n <= c * m
BY Z3

LEMMA ScriptShape ==
  /\ Len(Script) \in Nat /\ Len(Script) >= 9 /\ Script[Len(Script)] = R("ACK")
  /\ \A i \in 1..Len(Script) : Script[i].op \in {"WRITE32", "READ32"}
BY BootShape, BootReads DEF Script

LEMMA ChildStarts == Init => ChildType
<1> SUFFICES ASSUME Init PROVE ChildType
  OBVIOUS
<1>1. cpc = "none" /\ pos = 0 /\ h2c = <<>> /\ c2h = 0 /\ reset = FALSE
  BY DEF Init
<1>2. Len(Script) \in Nat /\ Len(Exit) \in Nat
  BY ScriptShape, ExitLength
<1>3. pos \in 0..(Len(Script) + Len(Exit)) /\ c2h \in Nat /\ h2c \in Seq(Values)
  BY <1>1, <1>2
<1>4. cpc \notin Dead /\ cpc \notin {"boot", "nak", "echo"}
  BY <1>1 DEF Dead
<1> QED
  BY <1>1, <1>3, <1>4, Zenon DEF ChildType

\* A step of the child.
LEMMA ChildKeepsType == FileInv /\ ChildType /\ Child => ChildType'
<1> SUFFICES ASSUME FileInv, ChildType, Child PROVE ChildType'
  OBVIOUS
<1> DEFINE n == Len(Script)
<1>1. /\ n \in Nat /\ n >= 9 /\ Script[n] = R("ACK") /\ Len(Exit) \in Nat /\ Len(Exit) > 0
      /\ copies \in Nat /\ copies >= 1
  BY ScriptShape, ExitLength, CopiesType
<1>2. UNCHANGED <<lines, copies>>
  BY DEF Child, ChildPuts, ChildExpects, ChildPanics, ChildEchoes, ExitChild, file
<1>3. Values' = Values
  BY <1>2 DEF Values
<1>4. UNCHANGED Script
  BY DEF Script
<1>5. /\ pos \in 0..(n + Len(Exit)) /\ c2h \in Nat /\ reset \in BOOLEAN /\ h2c \in Seq(Values)
  BY DEF ChildType
<1>6. copies * (n + 1) = copies * n + copies /\ copies * n \in Nat
  BY <1>1, Times
<1>7. CASE ChildPuts
  <2>1. /\ cpc = "boot" /\ Script[pos].op = "WRITE32" /\ c2h' = c2h + copies /\ pos' = pos + 1
        /\ cpc' = "boot" /\ h2c' = h2c /\ reset' = reset
    BY <1>7 DEF ChildPuts
  <2>2. pos \in 1..n /\ c2h <= copies * (pos - 1)
    BY <2>1 DEF ChildType
  <2>3. pos # n
    BY <1>1, <2>1 DEF R, Op
  <2>4. copies * ((pos - 1) + 1) = copies * (pos - 1) + copies /\ copies * (pos - 1) \in Nat
    BY <1>1, <2>2, Times
  <2> DEFINE before == copies * (pos - 1)
  <2>5. copies * pos = before + copies /\ before \in Nat /\ c2h <= before
    BY <1>1, <2>2, <2>4
  <2> HIDE DEF before, n
  <2>6. c2h' <= copies * pos /\ c2h' \in Nat
    BY <1>1, <1>5, <2>1, <2>5
  <2>7. pos' - 1 = pos /\ pos' \in 1..n /\ pos' \in 0..(n + Len(Exit))
    BY <1>1, <2>1, <2>2, <2>3
  <2>8. c2h' <= copies' * (pos' - 1)
    BY <1>2, <2>6, <2>7
  <2>9. cpc' \notin Dead
    BY <2>1 DEF Dead
  <2> QED
    BY <1>3, <1>4, <1>5, <2>1, <2>6, <2>7, <2>8, <2>9 DEF ChildType, n
<1>8. CASE ChildExpects
  <2>1. /\ cpc = "boot" /\ (\E k \in 1..Len(h2c) : h2c' = SubSeq(h2c, k + 1, Len(h2c)))
        /\ c2h' = c2h /\ reset' = reset
        /\ \/ cpc' = "nak" /\ pos' = pos
           \/ pos = n /\ cpc' = "echo" /\ pos' = 0
           \/ pos # n /\ cpc' = "boot" /\ pos' = pos + 1
    BY <1>8 DEF ChildExpects
  <2>2. pos \in 1..n /\ c2h <= copies * (pos - 1)
    BY <2>1 DEF ChildType
  <2>3. copies * (pos - 1) <= copies * pos /\ copies * (pos - 1) <= copies * n
        /\ copies * (pos - 1) \in Nat /\ copies * pos \in Nat
    BY <1>1, <2>2, Times
  <2> DEFINE before == copies * (pos - 1)
             after == copies * pos
             all == copies * n
  <2> HIDE DEF before, after, all, n
  <2>4. c2h' <= after /\ c2h' <= all /\ c2h' <= before /\ c2h' \in Nat
    BY <1>5, <1>6, <2>1, <2>2, <2>3 DEF before, after, all
  <2>5. h2c' \in Seq(Values')
    BY <1>1, <1>3, <1>5, <2>1
  <2>6. cpc' \notin Dead /\ cpc' # "none"
    BY <2>1 DEF Dead
  <2>7. CASE cpc' = "nak"
    <3>1. pos' = pos /\ pos' \in 0..(n + Len(Exit))
      BY <1>5, <2>1, <2>7
    <3> QED
      BY <1>2, <1>4, <1>5, <2>1, <2>2, <2>4, <2>5, <2>6, <2>7, <3>1 DEF ChildType, all, n
  <2>8. CASE cpc' = "echo"
    <3>1. pos' = 0 /\ pos' \in 0..(n + Len(Exit)) /\ pos' < Len(Exit)
      BY <1>1, <2>1, <2>8
    <3> QED
      BY <1>2, <1>4, <1>5, <2>1, <2>4, <2>5, <2>6, <2>8, <3>1 DEF ChildType, all, n
  <2>9. CASE cpc' = "boot"
    <3>1. pos' = pos + 1 /\ pos' - 1 = pos /\ pos' \in 1..n /\ pos' \in 0..(n + Len(Exit))
      BY <1>1, <2>1, <2>2, <2>9
    <3>2. c2h' <= copies' * (pos' - 1)
      BY <1>2, <2>4, <3>1 DEF after
    <3> QED
      BY <1>2, <1>4, <1>5, <2>1, <2>4, <2>5, <2>6, <2>9, <3>1, <3>2 DEF ChildType, n
  <2> QED
    BY <2>1, <2>7, <2>8, <2>9
<1>9. CASE ChildPanics
  <2>1. cpc = "nak" /\ c2h' = c2h + copies /\ pos' = pos /\ h2c' = h2c /\ cpc' = "exit1"
        /\ reset' \in {FALSE, Resets /\ h2c' # <<>>}
    BY <1>9 DEF ChildPanics, ExitChild
  <2>2. c2h <= copies * n
    BY <2>1 DEF ChildType
  <2> DEFINE all == copies * n
             most == copies * (n + 1)
  <2>3. c2h <= all /\ most = all + copies /\ all \in Nat
    BY <1>6, <2>2
  <2> HIDE DEF all, most, n
  <2>4. c2h' <= most /\ c2h' \in Nat
    BY <1>1, <1>5, <2>1, <2>3
  <2>5. reset' \in BOOLEAN
    BY <2>1, Zenon
  <2>6. cpc' \in Dead /\ cpc' \notin {"none", "boot", "nak", "echo"}
    BY <2>1 DEF Dead
  <2>7. c2h' <= copies' * (n + 1)
    BY <1>2, <2>4 DEF most
  <2> QED
    BY <1>3, <1>4, <1>5, <2>1, <2>4, <2>5, <2>6, <2>7 DEF ChildType, n
<1>10. CASE ChildEchoes
  <2> DEFINE m == Done(pos, h2c)
  <2>1. /\ cpc = "echo" /\ h2c' = <<>> /\ c2h' = c2h /\ pos' = m.pos
        /\ \/ m.seen /\ cpc' = "exit0" /\ reset' \in {FALSE, Resets /\ h2c' # <<>>}
           \/ ~m.seen /\ cpc' = "echo" /\ reset' = reset
    BY <1>10 DEF ChildEchoes, ExitChild
  <2>2. pos \in 0..(Len(Exit) - 1)
    BY <1>1, <1>5, <2>1 DEF ChildType
  <2>3. m \in Matches
    BY <1>5, <2>2, MatchStarts, ScanType DEF Done
  <2> HIDE DEF m
  <2>4. pos' \in 0..Len(Exit) /\ (~m.seen => pos' < Len(Exit))
    BY <2>1, <2>3 DEF Matches
  <2>5. c2h <= copies * n
    BY <2>1 DEF ChildType
  <2> DEFINE all == copies * n
             most == copies * (n + 1)
  <2>6. c2h <= all /\ most = all + copies /\ all \in Nat
    BY <1>6, <2>5
  <2> HIDE DEF all, most, n
  <2>7. c2h' <= most /\ c2h' <= all /\ c2h' \in Nat
    BY <1>1, <1>5, <2>1, <2>6
  <2>8. reset' \in BOOLEAN
    BY <1>5, <2>1, Zenon
  <2>9. pos' \in 0..(n + Len(Exit)) /\ h2c' \in Seq(Values')
    BY <1>1, <2>1, <2>4
  <2>10. c2h' <= copies' * (n + 1) /\ c2h' <= copies' * n
    BY <1>2, <2>7 DEF most, all
  <2>11. CASE cpc' = "exit0"
    <3>1. cpc' \in Dead /\ cpc' \notin {"none", "boot", "nak", "echo"}
      BY <2>11 DEF Dead
    <3> QED
      BY <1>4, <2>7, <2>8, <2>9, <2>10, <3>1 DEF ChildType, n
  <2>12. CASE cpc' = "echo"
    <3>1. cpc' \notin Dead /\ cpc' \notin {"none", "boot"}
      BY <2>12 DEF Dead
    <3>2. pos' < Len(Exit)
      BY <2>1, <2>4, <2>12
    <3> QED
      BY <1>4, <2>7, <2>8, <2>9, <2>10, <2>12, <3>1, <3>2 DEF ChildType, n
  <2> QED
    BY <2>1, <2>11, <2>12
<1> QED
  BY <1>7, <1>8, <1>9, <1>10 DEF Child

\* A step of the harness, which takes what the child has put, or starts a child.
LEMMA HarnessKeepsType ==
  FileInv /\ LogInv /\ HarnessType /\ ChildType /\ [Harness]_vars => ChildType'
<1> SUFFICES ASSUME FileInv, LogInv, HarnessType, ChildType, [Harness]_vars PROVE ChildType'
  OBVIOUS
<1> DEFINE n == Len(Script)
<1>1. /\ n \in Nat /\ n >= 9 /\ Len(Exit) \in Nat /\ Len(Exit) > 0 /\ copies \in Nat /\ copies >= 1
  BY ScriptShape, ExitLength, CopiesType
<1>2. UNCHANGED <<lines, copies>>
  BY FileStays DEF Next, vars, file
<1>3. Values' = Values /\ UNCHANGED Script
  BY <1>2 DEF Values, Script
<1>4. /\ pos \in 0..(n + Len(Exit)) /\ c2h \in Nat /\ reset \in BOOLEAN /\ h2c \in Seq(Values)
  BY DEF ChildType
<1>5. CASE UNCHANGED <<cpc, pos, h2c, c2h>> /\ (reset' = reset \/ reset' = FALSE)
  <2>1. reset' \in BOOLEAN
    BY <1>4, <1>5, Zenon
  <2> QED
    BY <1>2, <1>3, <1>4, <1>5, <2>1, Zenon DEF ChildType
<1>6. CASE CheckSuccess \/ CheckCrashes
  <2>1. cpc' = "boot" /\ pos' = 1 /\ h2c' = <<>> /\ c2h' = 0 /\ reset' = FALSE
    BY <1>6 DEF CheckSuccess, CheckCrashes, Spawn
  <2>2. c2h' <= copies' * (pos' - 1) /\ c2h' \in Nat
    <3>1. copies' * (1 - 1) = 0
      BY <1>1, <1>2
    <3> QED
      BY <2>1, <3>1
  <2> HIDE DEF n
  <2>3. pos' \in 1..n /\ pos' \in 0..(n + Len(Exit)) /\ h2c' \in Seq(Values')
    BY <1>1, <2>1
  <2>4. cpc' \notin Dead /\ reset' \in BOOLEAN
    BY <2>1 DEF Dead
  <2> QED
    BY <1>3, <2>1, <2>2, <2>3, <2>4 DEF ChildType, n
<1>7. CASE WriteOp
  <2>1. /\ UNCHANGED <<cpc, pos, c2h, reset>> /\ h2c' = Append(h2c, log'[op].val)
        /\ op <= Len(log) /\ CorruptOp /\ UNCHANGED <<lines, corrupt>>
    BY <1>2, <1>7 DEF WriteOp, Step, AtOp, child
  <2>2. log'[op].val \in Values
    BY <2>1, CorruptKeeps
  <2>3. h2c' \in Seq(Values')
    BY <1>3, <1>4, <2>1, <2>2
  <2> QED
    BY <1>2, <1>3, <1>4, <2>1, <2>3, Zenon DEF ChildType
<1>8. CASE ReadOp
  <2>1. UNCHANGED <<cpc, pos, h2c, reset>> /\ c2h' = c2h - 1 /\ c2h > 0
    BY <1>8 DEF ReadOp, Step, child
  <2>2. c2h' \in Nat /\ c2h' <= c2h
    BY <1>4, <2>1
  <2>3. ASSUME NEW m \in Nat PROVE c2h <= copies * m => c2h' <= copies * m
    <3>1. copies * m \in Nat
      BY <1>1, Times
    <3> QED
      BY <1>4, <2>2, <3>1
  <2>4. cpc = "boot" => pos - 1 \in Nat
    BY DEF ChildType
  <2>5. cpc = "boot" => c2h' <= copies * (pos - 1)
    BY <2>3, <2>4 DEF ChildType
  <2>6. cpc \in {"nak", "echo"} => c2h' <= copies * n
    BY <1>1, <2>3 DEF ChildType
  <2>7. cpc \in Dead => c2h' <= copies * (n + 1)
    <3>1. n + 1 \in Nat
      BY <1>1
    <3> QED
      BY <2>3, <3>1 DEF ChildType
  <2>8. cpc # "none"
    BY <2>1 DEF ChildType
  <2> QED
    BY <1>2, <1>3, <1>4, <2>1, <2>2, <2>5, <2>6, <2>7, <2>8, Zenon DEF ChildType
<1>9. \/ UNCHANGED <<cpc, pos, h2c, c2h>> /\ (reset' = reset \/ reset' = FALSE)
      \/ CheckSuccess \/ CheckCrashes \/ WriteOp \/ ReadOp
  BY DEF Harness, NextRound, WriteFails, ReadEnd, ReadReset, LogEnds, HasData, NoData, ExitCode, Passed,
         Fail, Step, child, socket, vars
<1> QED
  BY <1>5, <1>6, <1>7, <1>8, <1>9

TypeInv == FileInv /\ LogInv /\ HarnessType /\ ChildType

LEMMA TypeStarts == Init => TypeInv
BY FileStarts, LogStarts, ChildStarts DEF TypeInv

LEMMA TypeStep == TypeInv /\ [Next]_vars => TypeInv'
BY FileStep, LogStep, ChildKeepsType, HarnessKeepsType DEF TypeInv, Next

\* Queue, driver and child stay in their ranges: my-install puts no more copies of
\* words than it has words, and done never points behind the exit string.
THEOREM ReplayTypes == Spec => []TypeOK
<1>1. TypeInv => TypeOK
  <2> SUFFICES ASSUME TypeInv PROVE TypeOK
    OBVIOUS
  <2>1. /\ Len(lines) \in Nat /\ Len(log) = Len(lines)
        /\ \A i \in 1..Len(lines) : log[i].op = lines[i].op /\ Original[i] = Op(lines[i].op, lines[i].val)
    BY LinesLength, LogFacts DEF TypeInv
  <2>2. \A i \in 1..Len(log) : log[i].op = Original[i].op
    <3>1. \A i \in 1..Len(lines) : Original[i].op = lines[i].op
      <4>1. \A o, v : Op(o, v).op = o
        BY DEF Op
      <4> QED
        BY <2>1, <4>1
    <3> QED
      BY <2>1, <3>1
  <2>3. corrupt \in 0..Len(log)
    BY <2>1 DEF TypeInv, LogInv, Corruptible
  <2> DEFINE n == Len(Script)
             all == copies * n
             most == copies * (n + 1)
  <2>4. n \in Nat /\ copies \in Nat
    BY ScriptShape, CopiesType DEF TypeInv
  <2>5. most = all + copies /\ all \in Nat /\ (pos - 1 \in Nat /\ pos - 1 <= n => copies * (pos - 1) <= all)
    BY <2>4, Times
  <2>6. cpc = "none" \/ cpc = "boot" \/ cpc \in {"nak", "echo"} \/ cpc \in Dead
    BY DEF TypeInv, ChildType
  <2>7. cpc = "boot" => pos \in 1..n
    BY DEF TypeInv, ChildType
  <2>8. c2h \in 0..(copies * (Len(Script) + 1))
    <3>1. c2h \in Nat /\ (cpc = "none" => c2h = 0) /\ (cpc = "boot" => c2h <= copies * (pos - 1))
          /\ (cpc \in {"nak", "echo"} => c2h <= all) /\ (cpc \in Dead => c2h <= most)
      BY DEF TypeInv, ChildType
    <3>2. cpc = "boot" => copies * (pos - 1) <= all /\ copies * (pos - 1) \in Nat
      <4>1. SUFFICES ASSUME cpc = "boot" PROVE copies * (pos - 1) <= all /\ copies * (pos - 1) \in Nat
        OBVIOUS
      <4>2. pos - 1 \in Nat /\ pos - 1 <= n
        BY <2>4, <2>7, <4>1
      <4> QED
        BY <2>4, <2>5, <4>2, Times
    <3> DEFINE before == copies * (pos - 1)
    <3>3. /\ cpc = "boot" => c2h <= before /\ before <= all /\ before \in Nat
          /\ most = all + copies /\ all \in Nat
      BY <2>5, <3>1, <3>2
    <3> HIDE DEF all, most, before
    <3>4. c2h <= most /\ most \in Nat
      BY <2>4, <2>6, <3>1, <3>3
    <3> QED
      BY <3>1, <3>4 DEF most
  <2> QED
    BY <2>1, <2>2, <2>3, <2>8, Zenon DEF TypeInv, FileInv, HarnessType, ChildType, TypeOK
<1> QED
  BY <1>1, TypeStarts, TypeStep, PTL DEF Spec
-----------------------------------------------------------------------------
(* Bytes that are written and read.                                        *)

\* The characters among the first i operations, and the bytes the harness writes in
\* these: four of a word, one of a character.
Echoes(ops, i) == {j \in 1..i : ops[j].op = "READ8"}
Sent(ops, i) == 4 * Rank(ops, i) - 3 * Cardinality(Echoes(ops, i))

LEMMA EchoesType ==
  ASSUME NEW ops, NEW i \in Nat
  PROVE  IsFiniteSet(Echoes(ops, i)) /\ Cardinality(Echoes(ops, i)) \in Nat /\ Sent(ops, i) \in Int
<1>1. Echoes(ops, i) \subseteq Reads(ops, i) /\ IsFiniteSet(Reads(ops, i)) /\ Rank(ops, i) \in Nat
  BY RankType DEF Echoes, Reads
<1>2. IsFiniteSet(Echoes(ops, i)) /\ Cardinality(Echoes(ops, i)) \in Nat
  BY <1>1, FS_Subset, FS_CardinalityType
<1> QED
  BY <1>1, <1>2 DEF Sent

LEMMA SentNext ==
  ASSUME NEW ops, NEW i \in Nat
  PROVE  /\ Sent(ops, 0) = 0
         /\ ops[i + 1].op = "WRITE32" => Sent(ops, i + 1) = Sent(ops, i)
         /\ ops[i + 1].op = "READ8" => Sent(ops, i + 1) = Sent(ops, i) + 1
         /\ ops[i + 1].op = "READ32" => Sent(ops, i + 1) = Sent(ops, i) + 4
<1> DEFINE e == Cardinality(Echoes(ops, i))
           r == Rank(ops, i)
<1>1. e \in Nat /\ r \in Nat /\ IsFiniteSet(Echoes(ops, i))
  BY EchoesType, RankType
<1>2. Sent(ops, 0) = 0
  <2>1. Echoes(ops, 0) = {} /\ Cardinality({}) = 0
    BY FS_EmptySet DEF Echoes
  <2>2. Rank(ops, 0) = 0
    BY RankNext
  <2> QED
    BY <2>1, <2>2 DEF Sent
<1>3. ops[i + 1].op # "READ8" => Cardinality(Echoes(ops, i + 1)) = e
  <2>1. ops[i + 1].op # "READ8" => Echoes(ops, i + 1) = Echoes(ops, i)
    BY DEF Echoes
  <2> QED
    BY <2>1
<1>4. ops[i + 1].op = "READ8" => Cardinality(Echoes(ops, i + 1)) = e + 1
  <2>1. ops[i + 1].op = "READ8" =>
          Echoes(ops, i + 1) = Echoes(ops, i) \cup {i + 1} /\ i + 1 \notin Echoes(ops, i)
    BY DEF Echoes
  <2> QED
    BY <1>1, <2>1, FS_AddElement
<1>5. /\ ops[i + 1].op # "WRITE32" => Rank(ops, i + 1) = r + 1
      /\ ops[i + 1].op = "WRITE32" => Rank(ops, i + 1) = r
  BY RankNext
<1> HIDE DEF e, r
<1>6. Sent(ops, i) = 4 * r - 3 * e
  BY DEF Sent, e, r
<1>7. ops[i + 1].op = "WRITE32" => Sent(ops, i + 1) = Sent(ops, i)
  BY <1>1, <1>3, <1>5, <1>6 DEF Sent
<1>8. ops[i + 1].op = "READ8" => Sent(ops, i + 1) = Sent(ops, i) + 1
  BY <1>1, <1>4, <1>5, <1>6 DEF Sent
<1>9. ops[i + 1].op = "READ32" => Sent(ops, i + 1) = Sent(ops, i) + 4
  BY <1>1, <1>3, <1>5, <1>6 DEF Sent
<1> QED
  BY <1>2, <1>7, <1>8, <1>9

LEMMA SentAlike ==
  ASSUME NEW ops, NEW other, NEW i \in Nat, \A j \in 1..i : ops[j].op = other[j].op
  PROVE  Sent(ops, i) = Sent(other, i)
<1>1. Echoes(ops, i) = Echoes(other, i)
  BY DEF Echoes
<1>2. Rank(ops, i) = Rank(other, i)
  BY RankAlike
<1> QED
  BY <1>1, <1>2 DEF Sent

LEMMA SentGrows ==
  ASSUME NEW ops, NEW n \in Nat, NEW i \in 0..n,
         \A j \in 1..n : ops[j].op \in {"WRITE32", "READ32", "READ8"}
  PROVE  Sent(ops, i) <= Sent(ops, n)
<1> DEFINE T == {d \in Nat : i + d <= n => Sent(ops, i) <= Sent(ops, i + d)}
<1>1. 0 \in T
  <2>1. i + 0 = i /\ Sent(ops, i) \in Int
    BY EchoesType
  <2> QED
    BY <2>1
<1>2. ASSUME NEW d \in Nat, d \in T PROVE d + 1 \in T
  <2>1. SUFFICES ASSUME i + (d + 1) <= n PROVE Sent(ops, i) <= Sent(ops, i + (d + 1))
    OBVIOUS
  <2> DEFINE c == i + d
  <2>2. c \in Nat /\ i + (d + 1) = c + 1 /\ c + 1 \in 1..n /\ c <= n
    BY <2>1
  <2>3. Sent(ops, i) <= Sent(ops, c)
    BY <1>2, <2>2
  <2> HIDE DEF c
  <2>4. Sent(ops, i) \in Int /\ Sent(ops, c) \in Int
    BY <2>2, EchoesType
  <2>5. Sent(ops, c + 1) \in {Sent(ops, c), Sent(ops, c) + 1, Sent(ops, c) + 4}
    BY <2>2, SentNext
  <2> QED
    BY <2>2, <2>3, <2>4, <2>5
<1>3. Nat \subseteq T
  BY <1>1, <1>2, Induct
<1>4. n - i \in Nat /\ i + (n - i) = n
  OBVIOUS
<1> QED
  BY <1>3, <1>4

\* The characters in the socket.
CharsIn(ts) == {i \in 1..Len(ts) : ts[i] \in Chars}

LEMMA BytesType ==
  ASSUME NEW S, NEW ts \in Seq(S)
  PROVE  /\ IsFiniteSet(CharsIn(ts)) /\ Cardinality(CharsIn(ts)) \in Nat
         /\ Bytes(ts) = 4 * Len(ts) - 3 * Cardinality(CharsIn(ts))
         /\ Bytes(ts) \in Nat /\ Bytes(ts) >= Len(ts) /\ Bytes(<<>>) = 0
<1>1. IsFiniteSet(1..Len(ts)) /\ Cardinality(1..Len(ts)) = Len(ts) /\ Len(ts) \in Nat
  <2> DEFINE n == Len(ts)
  <2>1. n \in Nat
    OBVIOUS
  <2> HIDE DEF n
  <2>2. IsFiniteSet(1..n) /\ Cardinality(1..n) = n
    BY <2>1, FS_Interval
  <2> QED
    BY <2>1, <2>2 DEF n
<1>2. CharsIn(ts) \subseteq 1..Len(ts)
  BY DEF CharsIn
<1>3. IsFiniteSet(CharsIn(ts)) /\ Cardinality(CharsIn(ts)) <= Len(ts) /\ Cardinality(CharsIn(ts)) \in Nat
  BY <1>1, <1>2, FS_Subset, FS_CardinalityType
<1>4. Bytes(ts) = 4 * Len(ts) - 3 * Cardinality(CharsIn(ts))
  BY DEF Bytes, CharsIn
<1>5. Bytes(<<>>) = 0
  <2>1. {i \in 1..Len(<<>>) : <<>>[i] \in Chars} = {} /\ Cardinality({}) = 0 /\ Len(<<>>) = 0
    BY FS_EmptySet
  <2> QED
    BY <2>1 DEF Bytes
<1> QED
  BY <1>1, <1>3, <1>4, <1>5

LEMMA BytesNext ==
  ASSUME NEW S, NEW ts \in Seq(S), NEW x \in S
  PROVE  Bytes(Append(ts, x)) = Bytes(ts) + IF x \in Chars THEN 1 ELSE 4
<1> DEFINE more == Append(ts, x)
           c == Cardinality(CharsIn(ts))
<1>1. more \in Seq(S) /\ Len(more) = Len(ts) + 1 /\ Len(ts) \in Nat
      /\ more[Len(ts) + 1] = x /\ \A i \in 1..Len(ts) : more[i] = ts[i]
  OBVIOUS
<1>2. IsFiniteSet(CharsIn(ts)) /\ c \in Nat /\ Bytes(ts) = 4 * Len(ts) - 3 * c
  BY BytesType
<1>3. Bytes(more) = 4 * Len(more) - 3 * Cardinality(CharsIn(more))
  BY <1>1, BytesType
<1> HIDE DEF more
<1>4. CASE x \in Chars
  <2>1. CharsIn(more) = CharsIn(ts) \cup {Len(ts) + 1} /\ Len(ts) + 1 \notin CharsIn(ts)
    BY <1>1, <1>4 DEF CharsIn
  <2>2. Cardinality(CharsIn(more)) = c + 1
    BY <1>2, <2>1, FS_AddElement
  <2> HIDE DEF c
  <2>3. Bytes(more) = Bytes(ts) + 1
    BY <1>1, <1>2, <1>3, <2>2
  <2> QED
    BY <1>4, <2>3 DEF more
<1>5. CASE x \notin Chars
  <2>1. CharsIn(more) = CharsIn(ts)
    BY <1>1, <1>5 DEF CharsIn
  <2>2. Cardinality(CharsIn(more)) = c
    BY <2>1
  <2> HIDE DEF c
  <2>3. Bytes(more) = Bytes(ts) + 4
    BY <1>1, <1>2, <1>3, <2>2
  <2> QED
    BY <1>5, <2>3 DEF more
<1> QED
  BY <1>4, <1>5

LEMMA Within ==
  ASSUME NEW a \in Nat, NEW b \in Nat, NEW n \in Nat, a > b, a <= b + n
  PROVE  a - b \in 1..n
OBVIOUS

\* A part of a text, and the next character.
LEMMA OneMore ==
  ASSUME NEW C, NEW text \in Seq(C), NEW a \in Nat, NEW b \in Nat, b >= a, b + 1 <= Len(text)
  PROVE  Append(SubSeq(text, a + 1, b), text[b + 1]) = SubSeq(text, a + 1, b + 1)
OBVIOUS

\* What is taken from the front and what is left.
LEMMA BytesSplit ==
  ASSUME NEW S, NEW ts \in Seq(S), NEW k \in 0..Len(ts)
  PROVE  Bytes(ts) = Bytes(SubSeq(ts, 1, k)) + Bytes(SubSeq(ts, k + 1, Len(ts)))
<1> DEFINE T == {d \in Nat : k + d <= Len(ts) =>
                   Bytes(SubSeq(ts, 1, k + d)) = Bytes(SubSeq(ts, 1, k)) + Bytes(SubSeq(ts, k + 1, k + d))}
<1>1. 0 \in T
  <2>1. SubSeq(ts, k + 1, k) = <<>> /\ k + 0 = k /\ SubSeq(ts, 1, k) \in Seq(S)
    OBVIOUS
  <2>2. Bytes(SubSeq(ts, k + 1, k)) = 0 /\ Bytes(SubSeq(ts, 1, k)) \in Nat
    BY <2>1, BytesType
  <2>3. Bytes(SubSeq(ts, 1, k)) = Bytes(SubSeq(ts, 1, k)) + Bytes(SubSeq(ts, k + 1, k))
    BY <2>2
  <2> QED
    BY <2>1, <2>3
<1>2. ASSUME NEW d \in Nat, d \in T PROVE d + 1 \in T
  <2>1. SUFFICES ASSUME k + (d + 1) <= Len(ts)
                 PROVE  Bytes(SubSeq(ts, 1, k + (d + 1)))
                          = Bytes(SubSeq(ts, 1, k)) + Bytes(SubSeq(ts, k + 1, k + (d + 1)))
    OBVIOUS
  <2> DEFINE c == k + d
             all == SubSeq(ts, 1, c)
             rest == SubSeq(ts, k + 1, c)
             x == ts[c + 1]
             front == SubSeq(ts, 1, k)
  <2>2. c \in Nat /\ k + (d + 1) = c + 1 /\ c + 1 <= Len(ts) /\ c >= k /\ k \in Nat /\ c >= 0
    BY <2>1
  <2>3. all \in Seq(S) /\ rest \in Seq(S) /\ front \in Seq(S) /\ x \in S
    BY <2>2
  <2>4. Bytes(all) = Bytes(front) + Bytes(rest)
    BY <1>2, <2>2
  <2>5. Append(SubSeq(ts, k + 1, c), x) = SubSeq(ts, k + 1, c + 1)
    BY <2>2, OneMore
  <2>6. Append(SubSeq(ts, 0 + 1, c), x) = SubSeq(ts, 0 + 1, c + 1)
    BY <2>2, OneMore
  <2>7. Append(all, x) = SubSeq(ts, 1, c + 1)
    BY <2>6
  <2> HIDE DEF c, all, rest, x, front
  <2>8. Bytes(Append(all, x)) = Bytes(all) + IF x \in Chars THEN 1 ELSE 4
    BY <2>3, BytesNext
  <2>9. Bytes(Append(rest, x)) = Bytes(rest) + IF x \in Chars THEN 1 ELSE 4
    BY <2>3, BytesNext
  <2>10. Bytes(all) \in Nat /\ Bytes(rest) \in Nat /\ Bytes(front) \in Nat
    BY <2>3, BytesType
  <2>11. Bytes(Append(all, x)) = Bytes(front) + Bytes(Append(rest, x))
    BY <2>4, <2>8, <2>9, <2>10
  <2>12. Append(rest, x) = SubSeq(ts, k + 1, c + 1)
    BY <2>5 DEF rest
  <2> QED
    BY <2>2, <2>7, <2>11, <2>12 DEF front
<1>3. Nat \subseteq T
  BY <1>1, <1>2, Induct
<1>4. Len(ts) - k \in Nat /\ k + (Len(ts) - k) = Len(ts) /\ SubSeq(ts, 1, Len(ts)) = ts
  OBVIOUS
<1>5. Len(ts) - k \in T
  BY <1>3, <1>4
<1>6. Bytes(SubSeq(ts, 1, Len(ts))) = Bytes(SubSeq(ts, 1, k)) + Bytes(SubSeq(ts, k + 1, Len(ts)))
  BY <1>4, <1>5
<1> QED
  BY <1>4, <1>6
-----------------------------------------------------------------------------
(* What the socket holds, and what the child has read.                     *)

\* The copies my-install has taken out of the socket before it is at pos.
Taken == copies * Rank(Script, pos - 1)

\* The socket holds the words written in this attempt, but for the first t.
Queue(t) ==
  /\ Rank(log, op - 1) = t + Len(h2c)
  /\ \A i \in 1..(op - 1) :
       log[i].op # "WRITE32" /\ Rank(log, i) > t => h2c[Rank(log, i) - t] = log[i].val

\* A byte that is written is in the socket until it is read.  A plain my-install has
\* read the words it expected, in their order; past the boot, it has read all words of
\* the log, and a build with more copies at least the bytes of them.
ReadInv ==
  /\ cpc = "boot" => 4 * Taken + Bytes(h2c) = Sent(log, op - 1)
  /\ cpc = "boot" /\ copies = 1 => Queue(Taken)
  /\ cpc = "boot" /\ copies = 1 =>
       \A i \in 1..(op - 1) :
         log[i].op # "WRITE32" /\ Rank(log, i) <= Rank(Script, pos - 1) => log[i].val = Expected(Rank(log, i))
  /\ cpc \in {"echo", "exit0"} => 4 * (copies * Rank(Script, Len(Script))) <= Sent(log, op - 1)
  /\ cpc \in {"echo", "exit0"} /\ copies = 1 =>
       \A i \in 1..Len(log) : log[i].op = "READ32" => i < op /\ log[i].val = Expected(Rank(log, i))

\* Each number up to the rank is the rank of a word.
LEMMA RankHits ==
  ASSUME NEW ops, NEW n \in Nat, NEW r \in 1..Rank(ops, n)
  PROVE  \E i \in 1..n : ops[i].op # "WRITE32" /\ Rank(ops, i) = r
<1> DEFINE S == {i \in 0..n : r <= Rank(ops, i)}
<1>1. Rank(ops, n) \in Nat /\ r \in Nat /\ r >= 1 /\ r <= Rank(ops, n)
  BY RankType
<1>2. n \in S /\ S \subseteq Nat
  BY <1>1
<1>3. PICK i \in S : \A j \in S : i <= j
  BY <1>2, Least
<1>4. i \in 0..n /\ r <= Rank(ops, i) /\ Rank(ops, 0) = 0
  BY <1>3, RankNext
<1>5. i - 1 \in 0..n /\ ~(i <= i - 1) /\ (i - 1) + 1 = i /\ i \in 1..n
  BY <1>1, <1>4
<1>6. Rank(ops, i - 1) \in Nat /\ Rank(ops, i) \in Nat
  BY <1>5, RankType
<1>7. Rank(ops, i - 1) < r
  BY <1>1, <1>3, <1>5, <1>6
<1>8. /\ ops[(i - 1) + 1].op # "WRITE32" => Rank(ops, (i - 1) + 1) = Rank(ops, i - 1) + 1
      /\ ops[(i - 1) + 1].op = "WRITE32" => Rank(ops, (i - 1) + 1) = Rank(ops, i - 1)
  BY <1>5, RankNext
<1>9. /\ ops[i].op # "WRITE32" => Rank(ops, i) = Rank(ops, i - 1) + 1
      /\ ops[i].op = "WRITE32" => Rank(ops, i) = Rank(ops, i - 1)
  BY <1>5, <1>8
<1>10. ops[i].op # "WRITE32" /\ Rank(ops, i) = r
  BY <1>1, <1>4, <1>6, <1>7, <1>9
<1> QED
  BY <1>5, <1>10

\* The words of the log, corrupted or not.
LEMMA LogReads ==
  ASSUME TypeInv, Readable(lines), NEW i \in 1..Len(log)
  PROVE  /\ log[i].op \in {"WRITE32", "READ32", "READ8"}
         /\ log[i].op = "READ32" => /\ i \in Gets(acks) /\ Rank(log, i) = Rank(BootOps(acks), i)
                                    /\ Rank(log, i) <= Rank(Script, Len(Script))
                                    /\ log[i].val \in Words \cup Bad
         /\ log[i].op = "READ8" => log[i].val \in Chars
<1>1. PICK boot \in Boots[acks] : lines \in Traces(Emit(boot))
  BY DEF TypeInv, FileInv
<1>2. acks \in BOOLEAN
  BY DEF TypeInv, FileInv
<1>3. /\ Len(lines) \in Nat /\ Len(lines) <= Len(boot) /\ Len(log) = Len(lines) /\ Len(boot) \in Nat
      /\ \A j \in 1..Len(lines) :
           /\ Original[j] = boot[j] /\ Original[j] = Op(lines[j].op, lines[j].val)
           /\ log[j].op = lines[j].op
           /\ log[j].val = lines[j].val \/ (Corruptible(j) /\ log[j].val \in Bad)
  BY <1>1, <1>2, ReadableBegins, BootsShape, LogFacts DEF TypeInv, LogInv
<1>4. i \in 1..Len(lines) /\ i \in 1..Len(boot) /\ i \in Nat
  BY <1>3
<1>5. \A o, v : Op(o, v).op = o /\ Op(o, v).val = v
  BY DEF Op
<1>6. \A j \in 1..Len(lines) : boot[j].op = log[j].op /\ boot[j].val = lines[j].val
  BY <1>3, <1>5
<1>7. Shape(acks, boot, i)
  BY <1>1, <1>2, <1>4, BootsShape
<1>8. log[i].op \in {"WRITE32", "READ32", "READ8"}
  BY <1>4, <1>6, <1>7 DEF Shape
<1>9. ASSUME log[i].op = "READ32"
      PROVE  /\ i \in Gets(acks) /\ Rank(log, i) = Rank(BootOps(acks), i)
             /\ Rank(log, i) <= Rank(Script, Len(Script)) /\ log[i].val \in Words \cup Bad
  <2>1. i \in Gets(acks) /\ boot[i].val \in Words \cup Bad /\ \A k \in 1..i : boot[k].op = BootOps(acks)[k].op
    BY <1>4, <1>6, <1>7, <1>9 DEF Shape
  <2>2. \A k \in 1..i : log[k].op = BootOps(acks)[k].op
    BY <1>3, <1>4, <1>6, <2>1
  <2>3. Rank(log, i) = Rank(BootOps(acks), i)
    BY <1>4, <2>2, RankAlike
  <2>4. i <= Len(BootOps(acks)) /\ Len(BootOps(acks)) \in Nat
    BY <1>2, <2>1, BootShape DEF Gets
  <2>5. Rank(BootOps(acks), i) <= Rank(BootOps(acks), Len(BootOps(acks)))
        /\ Rank(BootOps(acks), i) \in Nat /\ Rank(BootOps(acks), Len(BootOps(acks))) \in Nat
    BY <1>4, <2>4, RankGrows, RankType
  <2>6. Rank(BootOps(acks), Len(BootOps(acks))) <= Rank(Script, Len(Script)) /\ Rank(Script, Len(Script)) \in Nat
    BY <1>2, BootRanks, GetsRank
  <2>7. log[i].val \in Words \cup Bad
    BY <1>3, <1>4, <1>6, <2>1
  <2> QED
    BY <2>1, <2>3, <2>5, <2>6, <2>7
<1>10. log[i].op = "READ8" => log[i].val = lines[i].val
  BY <1>3, <1>4 DEF Corruptible
<1>11. log[i].op = "READ8" => log[i].val \in Chars
  BY <1>4, <1>6, <1>7, <1>10 DEF Shape
<1> QED
  BY <1>8, <1>9, <1>11

LEMMA ReadFacts ==
  ASSUME TypeInv
  PROVE  /\ Len(lines) \in Nat /\ Len(log) = Len(lines) /\ op \in 1..(Len(lines) + 1) /\ op \in Nat
         /\ copies \in Nat /\ copies >= 1
         /\ h2c \in Seq(Values) /\ Len(h2c) \in Nat
         /\ \A i \in Nat : Rank(log, i) \in Nat /\ Rank(Script, i) \in Nat
<1>1. Len(lines) \in Nat /\ Len(log) = Len(lines) /\ op \in 1..(Len(lines) + 1)
  BY LinesLength, LogFacts DEF TypeInv, HarnessType
<1>2. copies \in Nat /\ copies >= 1 /\ h2c \in Seq(Values) /\ Len(h2c) \in Nat
  BY CopiesType DEF TypeInv, ChildType
<1> QED
  BY <1>1, <1>2, RankType

\* The harness is done with an operation: what it wrote is at the end of the socket,
\* and of a rank my-install has not come to.
LEMMA OnwardReads ==
  ASSUME TypeInv, ReadInv, Readable(lines), op <= Len(log), op' = op + 1,
         UNCHANGED <<lines, copies, cpc, pos, corrupt>>, CorruptOp \/ log' = log,
         cpc = "boot" => \/ log[op].op = "WRITE32" /\ h2c' = h2c
                         \/ log[op].op # "WRITE32" /\ h2c' = Append(h2c, log'[op].val)
  PROVE  ReadInv'
<1>1. /\ Len(lines) \in Nat /\ Len(log) = Len(lines) /\ op \in 1..Len(lines) /\ op \in Nat
      /\ copies \in Nat /\ copies >= 1 /\ Len(h2c) \in Nat /\ h2c \in Seq(Values)
      /\ \A i \in Nat : Rank(log, i) \in Nat /\ Rank(Script, i) \in Nat
  BY ReadFacts
<1>2. /\ \A i \in 1..Len(lines) : i # op => log'[i] = log[i]
      /\ op # corrupt => log' = log
      /\ LogInv' /\ log'[op].val \in Values
      /\ log' = log \/ log'[op].val \in Bad
  <2>1. CASE CorruptOp
    BY <2>1, CorruptKeeps DEF TypeInv
  <2>2. CASE log' = log
    BY <1>1, <2>2, LogUnchanged, LogFacts DEF TypeInv
  <2> QED
    BY <2>1, <2>2
<1>3. \A i \in 1..Len(lines) : log'[i].op = log[i].op
  BY <1>2, LogFacts DEF TypeInv, LogInv, Op
<1>4. \A i \in 0..Len(lines) : Rank(log', i) = Rank(log, i)
  <2>1. ASSUME NEW i \in 0..Len(lines) PROVE Rank(log', i) = Rank(log, i)
    <3>1. i \in Nat /\ \A j \in 1..i : log'[j].op = log[j].op
      BY <1>1, <1>3
    <3> QED
      BY <3>1, RankAlike
  <2> QED
    BY <2>1
<1>5. /\ op' - 1 = op /\ op - 1 \in 0..Len(lines) /\ op - 1 \in Nat /\ (op - 1) + 1 = op
      /\ op \in 0..Len(lines) /\ op' \in Nat
  BY <1>1
<1>6. /\ Rank(log', op' - 1) = Rank(log, op)
      /\ log[op].op = "WRITE32" => Rank(log, op) = Rank(log, op - 1)
      /\ log[op].op # "WRITE32" => Rank(log, op) = Rank(log, op - 1) + 1
      /\ Rank(log, op - 1) \in Nat
  <2>1. /\ log[(op - 1) + 1].op = "WRITE32" => Rank(log, (op - 1) + 1) = Rank(log, op - 1)
        /\ log[(op - 1) + 1].op # "WRITE32" => Rank(log, (op - 1) + 1) = Rank(log, op - 1) + 1
    BY <1>5, RankNext
  <2> QED
    BY <1>1, <1>4, <1>5, <2>1
<1>7. Taken' = Taken
  BY DEF Taken, Script
<1>8. \A i \in 1..(op' - 1) : (i \in 1..(op - 1) /\ i # op /\ i \in 1..Len(lines)) \/ i = op
  BY <1>1, <1>5
<1>9. ASSUME cpc = "boot", copies = 1 PROVE Queue(Taken)'
  <2>1. /\ Rank(log, op - 1) = Taken + Len(h2c)
        /\ \A i \in 1..(op - 1) :
             log[i].op # "WRITE32" /\ Rank(log, i) > Taken => h2c[Rank(log, i) - Taken] = log[i].val
    BY <1>9 DEF ReadInv, Queue
  <2>2. Taken \in Nat
    <3>1. pos - 1 \in Nat
      BY <1>9 DEF TypeInv, ChildType
    <3> QED
      BY <1>1, <3>1, Times DEF Taken
  <2>3. Rank(log', op' - 1) = Taken + Len(h2c')
    <3>1. CASE log[op].op = "WRITE32"
      BY <1>6, <1>9, <2>1, <3>1
    <3>2. CASE log[op].op # "WRITE32"
      <4>1. Len(h2c') = Len(h2c) + 1
        <5>1. h2c' = Append(h2c, log'[op].val)
          BY <1>9, <3>2
        <5> QED
          BY <1>1, <5>1
      <4>2. Rank(log', op' - 1) = (Taken + Len(h2c)) + 1
        BY <1>6, <2>1, <3>2
      <4> QED
        BY <1>1, <2>2, <4>1, <4>2
    <3> QED
      BY <3>1, <3>2
  <2>4. \A k \in 1..Len(h2c) : h2c'[k] = h2c[k]
    BY <1>1, <1>9
  <2>5. ASSUME NEW i \in 1..(op' - 1), log'[i].op # "WRITE32", Rank(log', i) > Taken
        PROVE  h2c'[Rank(log', i) - Taken] = log'[i].val
    <3>1. CASE i # op
      <4>1. i \in 1..(op - 1) /\ i \in 1..Len(lines) /\ i \in Nat /\ i <= op - 1
        BY <1>1, <1>8, <3>1
      <4>2. log'[i] = log[i] /\ Rank(log', i) = Rank(log, i) /\ log[i].op # "WRITE32"
        <5>1. i \in 0..Len(lines)
          BY <4>1
        <5> QED
          BY <1>2, <1>4, <2>5, <3>1, <4>1, <5>1
      <4>3. h2c[Rank(log, i) - Taken] = log[i].val
        BY <2>1, <2>5, <4>1, <4>2
      <4>4. Rank(log, i) <= Rank(log, op - 1) /\ Rank(log, i) \in Nat
        BY <1>1, <1>5, <4>1, RankGrows
      <4>5. Rank(log, i) - Taken \in 1..Len(h2c)
        <5>1. Rank(log, i) > Taken /\ Rank(log, i) <= Taken + Len(h2c)
          BY <2>1, <2>5, <4>2, <4>4
        <5>2. Len(h2c) \in Nat
          BY <1>1
        <5> QED
          BY <2>2, <4>4, <5>1, <5>2, Within
      <4> QED
        BY <2>4, <4>2, <4>3, <4>5
    <3>2. CASE i = op
      <4>1. log[op].op # "WRITE32"
        BY <1>1, <1>3, <2>5, <3>2
      <4>2. h2c' = Append(h2c, log'[op].val)
        BY <1>9, <4>1
      <4>3. Rank(log', i) = Rank(log, op)
        BY <1>4, <1>5, <3>2
      <4>4. Rank(log', i) - Taken = Len(h2c) + 1
        BY <1>1, <1>6, <2>1, <2>2, <4>1, <4>3
      <4> QED
        BY <1>1, <3>2, <4>2, <4>4
    <3> QED
      BY <3>1, <3>2
  <2> QED
    BY <1>7, <2>3, <2>5 DEF Queue
<1>10. ASSUME cpc = "boot", copies = 1, NEW i \in 1..(op' - 1),
              log'[i].op # "WRITE32", Rank(log', i) <= Rank(Script, pos - 1)
       PROVE  log'[i].val = Expected(Rank(log', i))
  <2>1. pos - 1 \in Nat
    BY <1>10 DEF TypeInv, ChildType
  <2>2. Rank(log, op - 1) = Rank(Script, pos - 1) + Len(h2c)
    <3> DEFINE r == Rank(Script, pos - 1)
    <3>1. Rank(log, op - 1) = copies * r + Len(h2c)
      BY <1>10 DEF ReadInv, Queue, Taken
    <3>2. r \in Nat
      BY <1>1, <2>1
    <3> HIDE DEF r
    <3>3. copies * r = r
      BY <1>10, <3>2
    <3> QED
      BY <3>1, <3>3 DEF r
  <2>3. i # op
    <3>1. SUFFICES ASSUME i = op PROVE FALSE
      OBVIOUS
    <3>2. log[op].op # "WRITE32" /\ Rank(log', i) = Rank(log, op)
      BY <1>1, <1>3, <1>4, <1>5, <1>10, <3>1
    <3>3. Rank(Script, pos - 1) \in Nat
      BY <1>1, <2>1
    <3>4. Rank(log, op) = (Rank(Script, pos - 1) + Len(h2c)) + 1
      BY <1>6, <2>2, <3>2
    <3>5. Rank(log, op) <= Rank(Script, pos - 1)
      BY <1>10, <3>2
    <3> QED
      BY <1>1, <3>3, <3>4, <3>5
  <2>4. i \in 1..(op - 1) /\ i \in 1..Len(lines) /\ i \in 0..Len(lines)
    BY <1>1, <1>8, <2>3
  <2>5. log'[i] = log[i] /\ Rank(log', i) = Rank(log, i)
    BY <1>2, <1>4, <2>3, <2>4
  <2> QED
    BY <1>10, <2>4, <2>5 DEF ReadInv
<1>11. log[op].op # "WRITE32" => (log'[op].val \in Chars <=> log[op].op = "READ8")
  <2> SUFFICES ASSUME log[op].op # "WRITE32" PROVE log'[op].val \in Chars <=> log[op].op = "READ8"
    OBVIOUS
  <2>1. /\ log[op].op \in {"READ32", "READ8"}
        /\ log[op].op = "READ32" => log[op].val \in Words \cup Bad
        /\ log[op].op = "READ8" => log[op].val \in Chars
    BY <1>1, LogReads
  <2>2. CASE log' = log
    BY <2>1, <2>2, ValueAssumption
  <2>3. CASE log' # log
    <3>1. op = corrupt /\ log'[op].val \in Bad
      BY <1>2, <2>3
    <3>2. log[op].op = "READ32"
      BY <1>1, <3>1 DEF TypeInv, LogInv, Corruptible
    <3> QED
      BY <3>1, <3>2, ValueAssumption
  <2> QED
    BY <2>2, <2>3
<1>12. /\ Sent(log, op - 1) \in Int /\ Sent(log', op' - 1) \in Int
       /\ log[op].op = "WRITE32" => Sent(log', op' - 1) = Sent(log, op - 1)
       /\ log[op].op = "READ8" => Sent(log', op' - 1) = Sent(log, op - 1) + 1
       /\ log[op].op = "READ32" => Sent(log', op' - 1) = Sent(log, op - 1) + 4
  <2>1. Sent(log', op) = Sent(log, op)
    <3>1. \A j \in 1..op : log'[j].op = log[j].op
      BY <1>1, <1>3
    <3> QED
      BY <1>1, <3>1, SentAlike
  <2>2. /\ log[(op - 1) + 1].op = "WRITE32" => Sent(log, (op - 1) + 1) = Sent(log, op - 1)
        /\ log[(op - 1) + 1].op = "READ8" => Sent(log, (op - 1) + 1) = Sent(log, op - 1) + 1
        /\ log[(op - 1) + 1].op = "READ32" => Sent(log, (op - 1) + 1) = Sent(log, op - 1) + 4
    BY <1>5, SentNext
  <2>3. Sent(log, op - 1) \in Int /\ Sent(log, op) \in Int
    BY <1>5, <1>1, EchoesType
  <2> QED
    BY <1>5, <2>1, <2>2, <2>3
<1>13. log[op].op \in {"WRITE32", "READ32", "READ8"}
  BY <1>1, LogReads
<1>14. ASSUME cpc = "boot" PROVE 4 * Taken + Bytes(h2c') = Sent(log', op' - 1)
  <2>1. 4 * Taken + Bytes(h2c) = Sent(log, op - 1)
    BY <1>14 DEF ReadInv
  <2>2. Taken \in Nat /\ Bytes(h2c) \in Nat
    <3>1. pos - 1 \in Nat
      BY <1>14 DEF TypeInv, ChildType
    <3> QED
      BY <1>1, <3>1, Times, BytesType DEF Taken
  <2>3. CASE log[op].op = "WRITE32"
    BY <1>12, <1>14, <2>1, <2>3
  <2>4. CASE log[op].op # "WRITE32"
    <3> DEFINE x == log'[op].val
    <3>1. h2c' = Append(h2c, x) /\ x \in Values
      BY <1>2, <1>14, <2>4
    <3> HIDE DEF x
    <3>2. Bytes(h2c') = Bytes(h2c) + IF x \in Chars THEN 1 ELSE 4
      BY <1>1, <3>1, BytesNext
    <3>3. x \in Chars <=> log[op].op = "READ8"
      BY <1>11, <2>4 DEF x
    <3> DEFINE t == Taken
               b == Bytes(h2c)
               a == Bytes(h2c')
               sent == Sent(log, op - 1)
               more == Sent(log', op' - 1)
    <3>4. /\ 4 * t + b = sent /\ t \in Nat /\ b \in Nat /\ sent \in Int
          /\ (a = b + 1 /\ more = sent + 1) \/ (a = b + 4 /\ more = sent + 4)
      BY <1>12, <1>13, <2>1, <2>2, <2>4, <3>2, <3>3
    <3> HIDE DEF t, a, b, sent, more
    <3>5. 4 * t + a = more
      BY <3>4
    <3> QED
      BY <3>5 DEF t, a, more
  <2> QED
    BY <2>3, <2>4
<1>15. ASSUME cpc \in {"echo", "exit0"}
       PROVE  4 * (copies * Rank(Script, Len(Script))) <= Sent(log', op' - 1)
  <2> DEFINE all == 4 * (copies * Rank(Script, Len(Script)))
  <2>1. all <= Sent(log, op - 1)
    BY <1>15 DEF ReadInv
  <2>2. all \in Int
    <3> DEFINE r == Rank(Script, Len(Script))
    <3>1. r \in Nat
      BY <1>1, ScriptShape
    <3> HIDE DEF r
    <3>2. copies * r \in Nat
      BY <1>1, <3>1, Times
    <3>3. 4 * (copies * r) \in Int
      BY <3>2
    <3> QED
      BY <3>3 DEF r
  <2> HIDE DEF all
  <2>3. all <= Sent(log', op' - 1)
    BY <1>12, <1>13, <2>1, <2>2
  <2> QED
    BY <2>3 DEF all
<1>16. ASSUME cpc \in {"echo", "exit0"}, copies = 1, NEW i \in 1..Len(log'), log'[i].op = "READ32"
       PROVE  i < op' /\ log'[i].val = Expected(Rank(log', i))
  <2>1. \A j \in 1..Len(log) : log[j].op = "READ32" => j < op /\ log[j].val = Expected(Rank(log, j))
    BY <1>16 DEF ReadInv
  <2>2. Len(log') = Len(lines)
    BY <1>1, <1>2 DEF LogInv
  <2>3. corrupt # op
    <3>1. SUFFICES ASSUME corrupt = op PROVE FALSE
      OBVIOUS
    <3>2. log[corrupt].op = "READ32" /\ corrupt \in 1..Len(log)
      BY <1>1, <3>1 DEF TypeInv, LogInv, Corruptible
    <3> QED
      BY <1>1, <2>1, <3>1, <3>2
  <2>4. log' = log
    BY <1>2, <2>3
  <2>5. i < op /\ log[i].val = Expected(Rank(log, i))
    BY <1>1, <1>16, <2>1, <2>4
  <2> QED
    BY <1>1, <1>5, <2>2, <2>4, <2>5
<1> QED
  BY <1>7, <1>9, <1>10, <1>14, <1>15, <1>16, Zenon DEF ReadInv, Script

LEMMA HarnessReads == TypeInv /\ ReadInv /\ Readable(lines) /\ [Harness]_vars => ReadInv'
<1> SUFFICES ASSUME TypeInv, ReadInv, Readable(lines), [Harness]_vars PROVE ReadInv'
  OBVIOUS
<1>1. UNCHANGED <<lines, copies>>
  BY FileStays DEF Next, vars, file
<1>2. CASE UNCHANGED <<log, op, cpc, pos, h2c>>
  BY <1>1, <1>2 DEF ReadInv, Queue, Taken, Script, Bytes
<1>3. CASE CheckSuccess \/ CheckCrashes
  <2>1. cpc' = "boot" /\ pos' = 1 /\ op' = 1 /\ h2c' = <<>>
    BY <1>3 DEF CheckSuccess, CheckCrashes, Spawn
  <2>2. /\ Rank(log', 0) = 0 /\ Rank(Script, 0) = 0 /\ copies' * 0 = 0 /\ 1 - 1 = 0
    <3>1. copies' \in Nat
      BY <1>1, ReadFacts
    <3>2. \A ops : Rank(ops, 0) = 0
      BY FS_EmptySet DEF Rank, Reads
    <3>3. \A c \in Nat : c * 0 = 0
      OBVIOUS
    <3>4. Rank(log', 0) = 0 /\ Rank(Script, 0) = 0
      BY <3>2, Zenon
    <3>5. copies' * 0 = 0
      BY <3>1, <3>3, Zenon
    <3>6. 1 - 1 = 0
      OBVIOUS
    <3> QED
      BY <3>4, <3>5, <3>6, Zenon
  <2>3. Taken' = 0
    BY <2>1, <2>2 DEF Taken, Script
  <2>4. 1..0 = {}
    OBVIOUS
  <2>5. Queue(Taken)'
    BY <2>1, <2>2, <2>3, <2>4 DEF Queue
  <2>6. (4 * Taken + Bytes(h2c) = Sent(log, op - 1))'
    <3>1. Bytes(<<>>) = 0
      <4>1. <<>> \in Seq({})
        OBVIOUS
      <4> QED
        BY <4>1, BytesType
    <3>2. Sent(log', 0) = 0
      BY SentNext
    <3>3. Bytes(h2c') = 0 /\ Sent(log', op' - 1) = 0 /\ 4 * Taken' = 0
      BY <2>1, <2>2, <2>3, <3>1, <3>2
    <3> QED
      BY <3>3
  <2> QED
    BY <2>1, <2>2, <2>4, <2>5, <2>6 DEF ReadInv
<1>4. CASE WriteOp
  <2>1. /\ op <= Len(log) /\ op' = op + 1 /\ UNCHANGED <<cpc, pos, corrupt>> /\ CorruptOp
        /\ log[op].op # "WRITE32" /\ h2c' = Append(h2c, log'[op].val)
    BY <1>4 DEF WriteOp, AtOp, Step, child
  <2> QED
    BY <1>1, <2>1, OnwardReads
<1>5. CASE WriteFails
  <2>1. cpc \in Dead /\ UNCHANGED <<cpc, pos>>
    BY <1>5 DEF WriteFails, Step, Fail, child
  <2>2. CASE UNCHANGED <<log, op, h2c>>
    BY <1>2, <2>1, <2>2
  <2>3. CASE op <= Len(log) /\ op' = op + 1 /\ UNCHANGED corrupt /\ CorruptOp
    BY <1>1, <2>1, <2>3, OnwardReads DEF Dead
  <2> QED
    BY <1>5, <2>2, <2>3 DEF WriteFails, AtOp, Step, Fail, socket
<1>6. CASE ReadOp
  <2>1. /\ op <= Len(log) /\ op' = op + 1 /\ UNCHANGED <<cpc, pos, corrupt, log, h2c>>
        /\ log[op].op = "WRITE32"
    BY <1>6 DEF ReadOp, AtOp, Step, child
  <2> QED
    BY <1>1, <2>1, OnwardReads
<1>7. CASE ReadEnd \/ ReadReset
  <2>1. cpc \in Dead /\ UNCHANGED <<cpc, pos, log, h2c>> /\ op <= Len(log)
        /\ (op' = op \/ (op' = op + 1 /\ UNCHANGED corrupt))
    BY <1>7 DEF ReadEnd, ReadReset, AtOp, Step, Fail, child, socket
  <2> QED
    BY <1>1, <1>2, <2>1, OnwardReads DEF Dead
<1>8. CASE NextRound \/ LogEnds \/ HasData \/ NoData \/ ExitCode \/ UNCHANGED vars
  <2>1. UNCHANGED <<log, op, cpc, pos, h2c>>
    BY <1>8 DEF NextRound, LogEnds, HasData, NoData, ExitCode, Passed, Fail, child, socket, harness, vars
  <2> QED
    BY <1>2, <2>1
<1> QED
  BY <1>3, <1>4, <1>5, <1>6, <1>7, <1>8 DEF Harness

\* The word a plain my-install is about to judge: the first in the socket.
LEMMA FirstOut ==
  ASSUME TypeInv, ReadInv, cpc = "boot", copies = 1, Len(h2c) >= 1
  PROVE  /\ pos - 1 \in Nat /\ pos \in 1..Len(Script) /\ Taken \in Nat
         /\ \E i \in 1..(op - 1) :
              log[i].op # "WRITE32" /\ Rank(log, i) = Taken + 1 /\ log[i].val = h2c[1]
<1>1. /\ copies \in Nat /\ copies >= 1 /\ op \in Nat /\ op >= 1 /\ Len(h2c) \in Nat
      /\ \A i \in Nat : Rank(log, i) \in Nat /\ Rank(Script, i) \in Nat
  BY ReadFacts
<1>2. pos \in 1..Len(Script) /\ pos - 1 \in Nat
  BY ScriptShape DEF TypeInv, ChildType
<1>3. Taken \in Nat
  BY <1>1, <1>2, Times DEF Taken
<1>4. /\ Rank(log, op - 1) = Taken + Len(h2c)
      /\ \A i \in 1..(op - 1) :
           log[i].op # "WRITE32" /\ Rank(log, i) > Taken => h2c[Rank(log, i) - Taken] = log[i].val
  BY DEF ReadInv, Queue
<1>5. op - 1 \in Nat /\ Taken + 1 \in 1..Rank(log, op - 1)
  <2> DEFINE all == Rank(log, op - 1)
  <2>1. op - 1 \in Nat /\ all = Taken + Len(h2c) /\ Len(h2c) >= 1
    <3>1. op - 1 \in Nat
      BY <1>1
    <3>2. all = Taken + Len(h2c)
      BY <1>4
    <3> QED
      BY <3>1, <3>2
  <2> HIDE DEF all
  <2>2. Taken + 1 \in 1..all
    BY <1>1, <1>3, <2>1
  <2> QED
    BY <2>1, <2>2 DEF all
<1>6. PICK i \in 1..(op - 1) : log[i].op # "WRITE32" /\ Rank(log, i) = Taken + 1
  BY <1>5, RankHits
<1>7. Rank(log, i) > Taken /\ Rank(log, i) - Taken = 1
  BY <1>3, <1>6
<1>8. h2c[1] = log[i].val
  BY <1>4, <1>6, <1>7
<1> QED
  BY <1>2, <1>3, <1>6, <1>8

\* What is left in the socket when n of its tokens are taken.
LEMMA TailIs ==
  ASSUME NEW S, NEW s \in Seq(S), NEW n \in Nat, n <= Len(s)
  PROVE  LET t == SubSeq(s, n + 1, Len(s)) IN
         Len(t) = Len(s) - n /\ \A k \in 1..Len(t) : t[k] = s[n + k]
<1>1. Len(s) \in Nat
  OBVIOUS
<1> QED
  BY <1>1

\* A get takes four bytes for each copy.  Of a plain child these are the first word, or
\* else what it makes of them is bad.
LEMMA TakesBytes ==
  ASSUME TypeInv, NEW k \in Nat, Takes(k)
  PROVE  /\ k \in 1..Len(h2c) /\ Bytes(h2c) = 4 * copies + Bytes(SubSeq(h2c, k + 1, Len(h2c)))
         /\ Bytes(SubSeq(h2c, k + 1, Len(h2c))) \in Nat
         /\ SubSeq(h2c, 1, k) \in Seq(Values) /\ Len(SubSeq(h2c, 1, k)) = k /\ SubSeq(h2c, 1, k)[1] = h2c[1]
<1>1. h2c \in Seq(Values) /\ Len(h2c) \in Nat /\ k \in 1..Len(h2c) /\ k \in 0..Len(h2c)
  BY ReadFacts DEF Takes
<1>2. Bytes(SubSeq(h2c, 1, k)) = 4 * copies
  BY DEF Takes
<1>3. Bytes(h2c) = Bytes(SubSeq(h2c, 1, k)) + Bytes(SubSeq(h2c, k + 1, Len(h2c)))
  BY <1>1, BytesSplit
<1>4. SubSeq(h2c, k + 1, Len(h2c)) \in Seq(Values)
  BY <1>1
<1>5. Bytes(SubSeq(h2c, k + 1, Len(h2c))) \in Nat
  BY <1>4, BytesType
<1>6. SubSeq(h2c, 1, k) \in Seq(Values) /\ Len(SubSeq(h2c, 1, k)) = k /\ SubSeq(h2c, 1, k)[1] = h2c[1]
  BY <1>1
<1> QED
  BY <1>1, <1>2, <1>3, <1>5, <1>6

LEMMA ChildReads == TypeInv /\ ReadInv /\ Readable(lines) /\ Child => ReadInv'
<1> SUFFICES ASSUME TypeInv, ReadInv, Readable(lines), Child PROVE ReadInv'
  OBVIOUS
<1>1. UNCHANGED <<lines, copies, log, op>>
  BY DEF Child, ChildPuts, ChildExpects, ChildPanics, ChildEchoes, ExitChild, file, harness
<1>2. /\ copies \in Nat /\ copies >= 1 /\ op \in Nat /\ op >= 1 /\ Len(h2c) \in Nat /\ h2c \in Seq(Values)
      /\ \A i \in Nat : Rank(log, i) \in Nat /\ Rank(Script, i) \in Nat
      /\ Len(log) \in Nat /\ op - 1 \in 0..Len(log) /\ Len(lines) = Len(log)
  <2>1. /\ Len(lines) \in Nat /\ Len(log) = Len(lines) /\ op \in 1..(Len(lines) + 1)
        /\ copies \in Nat /\ copies >= 1 /\ Len(h2c) \in Nat /\ h2c \in Seq(Values)
        /\ \A i \in Nat : Rank(log, i) \in Nat /\ Rank(Script, i) \in Nat
    BY ReadFacts
  <2>2. op \in Nat /\ op >= 1 /\ op - 1 \in 0..Len(log)
    BY <2>1
  <2> QED
    BY <2>1, <2>2
<1>3. UNCHANGED Script
  BY DEF Script
<1>4. /\ Len(Script) \in Nat /\ Len(Script) >= 9
      /\ \A i \in 1..Len(Script) :
           Script[i].op = "READ32" => /\ Script[i].val = Expected(Rank(Script, i))
                                      /\ Script[i].val \in Words /\ Script[i].val \notin Bad
  <2>1. \A i \in 1..Len(Script) : Script[i].op = "READ32" => Script[i].val = Expected(Rank(Script, i))
    BY BootReads DEF Script
  <2>2. \A r : Expected(r) \in Words /\ Expected(r) \notin Bad
    BY ValueAssumption DEF Expected, Words
  <2> QED
    BY <2>1, <2>2, ScriptShape
<1>5. cpc \in {"boot", "nak"} => pos \in 1..Len(Script) /\ pos - 1 \in Nat /\ (pos - 1) + 1 = pos
  BY <1>4 DEF TypeInv, ChildType
<1>6. cpc = "boot" => /\ Script[pos].op # "WRITE32" => Rank(Script, pos) = Rank(Script, pos - 1) + 1
                      /\ Script[pos].op = "WRITE32" => Rank(Script, pos) = Rank(Script, pos - 1)
  <2> SUFFICES ASSUME cpc = "boot"
               PROVE  /\ Script[pos].op # "WRITE32" => Rank(Script, pos) = Rank(Script, pos - 1) + 1
                      /\ Script[pos].op = "WRITE32" => Rank(Script, pos) = Rank(Script, pos - 1)
    OBVIOUS
  <2>1. /\ Script[(pos - 1) + 1].op # "WRITE32" => Rank(Script, (pos - 1) + 1) = Rank(Script, pos - 1) + 1
        /\ Script[(pos - 1) + 1].op = "WRITE32" => Rank(Script, (pos - 1) + 1) = Rank(Script, pos - 1)
    BY <1>5, RankNext
  <2> QED
    BY <1>5, <2>1
<1>7. CASE ChildPuts
  <2>1. cpc = "boot" /\ Script[pos].op = "WRITE32" /\ cpc' = "boot" /\ pos' = pos + 1 /\ h2c' = h2c
    BY <1>7 DEF ChildPuts
  <2>2. pos' - 1 = pos /\ Rank(Script, pos' - 1) = Rank(Script, pos - 1)
    BY <1>4, <1>5, <1>6, <2>1
  <2>3. Taken' = Taken
    BY <1>1, <1>3, <2>2 DEF Taken
  <2>4. copies = 1 => Queue(Taken)'
    BY <1>1, <2>1, <2>3 DEF ReadInv, Queue
  <2>5. 4 * Taken' + Bytes(h2c') = Sent(log, op - 1)
    BY <2>1, <2>3 DEF ReadInv
  <2> QED
    BY <1>1, <1>3, <2>1, <2>2, <2>4, <2>5 DEF ReadInv
<1>8. CASE ChildExpects
  <2>1. cpc = "boot" /\ Script[pos].op = "READ32"
    BY <1>8 DEF ChildExpects
  <2>2. PICK k \in 1..Len(h2c) :
          /\ Takes(k) /\ h2c' = SubSeq(h2c, k + 1, Len(h2c))
          /\ \E v \in Got(SubSeq(h2c, 1, k)) :
               \/ cpc' = "nak"
               \/ v = Script[pos].val /\ pos = Len(Script) /\ cpc' = "echo"
               \/ v = Script[pos].val /\ pos # Len(Script) /\ cpc' = "boot" /\ pos' = pos + 1
    BY <1>8 DEF ChildExpects
  <2>3. PICK v \in Got(SubSeq(h2c, 1, k)) :
          \/ cpc' = "nak"
          \/ v = Script[pos].val /\ pos = Len(Script) /\ cpc' = "echo"
          \/ v = Script[pos].val /\ pos # Len(Script) /\ cpc' = "boot" /\ pos' = pos + 1
    BY <2>2
  <2>4. /\ k \in Nat /\ k >= 1 /\ Bytes(h2c) = 4 * copies + Bytes(h2c') /\ Bytes(h2c') \in Nat
        /\ SubSeq(h2c, 1, k) \in Seq(Values) /\ Len(SubSeq(h2c, 1, k)) = k /\ SubSeq(h2c, 1, k)[1] = h2c[1]
    <3>1. k \in Nat /\ k >= 1
      BY <1>2
    <3> QED
      BY <2>2, <3>1, TakesBytes
  <2>5. Taken \in Nat
    BY <1>2, <1>5, <2>1, Times DEF Taken
  <2>6. copies = 1 /\ v = Script[pos].val => k = 1 /\ h2c[1] = v
    <3> SUFFICES ASSUME copies = 1, v = Script[pos].val PROVE k = 1 /\ h2c[1] = v
      OBVIOUS
    <3>1. v \notin Bad
      BY <1>4, <1>5, <2>1
    <3> DEFINE ts == SubSeq(h2c, 1, k)
    <3>2. v \in Got(ts) /\ ~(copies > 1)
      BY <2>3
    <3>3. Len(ts) = k /\ ts[1] = h2c[1]
      BY <2>4
    <3> HIDE DEF ts
    <3> QED
      BY <3>1, <3>2, <3>3 DEF Got
  <2>7. Rank(Script, pos) = Rank(Script, pos - 1) + 1 /\ Rank(Script, pos - 1) \in Nat
    BY <1>2, <1>5, <1>6, <2>1
  <2>8. copies * Rank(Script, pos) = Taken + copies /\ Taken + copies \in Nat
    <3> DEFINE got == Rank(Script, pos - 1)
    <3>1. copies * (got + 1) = copies * got + copies
      BY <1>2, <2>7, Times
    <3>2. copies * Rank(Script, pos) = Taken + copies
      BY <2>7, <3>1 DEF Taken
    <3> QED
      BY <1>2, <2>5, <3>2
  <2>9. 4 * (Taken + copies) + Bytes(h2c') = Sent(log, op - 1)
    <3> DEFINE t == Taken
               b == Bytes(h2c)
               a == Bytes(h2c')
               all == Sent(log, op - 1)
    <3>1. 4 * t + b = all
      BY <2>1 DEF ReadInv
    <3>2. b = 4 * copies + a /\ a \in Nat /\ t \in Nat /\ copies \in Nat
      BY <1>2, <2>4, <2>5
    <3> HIDE DEF t, a, b, all
    <3>3. 4 * (t + copies) + a = all
      BY <3>1, <3>2
    <3> QED
      BY <3>3 DEF t, a, all
  <2>10. copies = 1 => Taken = Rank(Script, pos - 1) /\ Taken + copies = Rank(Script, pos)
    BY <2>7 DEF Taken
  \* What a plain build has got up to here.
  <2>11. ASSUME copies = 1, v = Script[pos].val, NEW j \in 1..(op - 1),
                log[j].op # "WRITE32", Rank(log, j) <= Rank(Script, pos)
         PROVE  log[j].val = Expected(Rank(log, j))
    <3>1. CASE Rank(log, j) <= Rank(Script, pos - 1)
      BY <2>1, <2>11, <3>1 DEF ReadInv
    <3>2. CASE ~(Rank(log, j) <= Rank(Script, pos - 1))
      <4>1. j \in Nat /\ Rank(log, j) \in Nat
        <5>1. j \in Nat
          BY <1>2
        <5> QED
          BY <1>2, <5>1
      <4>2. Taken = Rank(Script, pos - 1)
        BY <2>10, <2>11
      <4>3. Rank(log, j) = Rank(Script, pos) /\ Rank(log, j) > Taken /\ Rank(log, j) - Taken = 1
        BY <2>7, <2>11, <3>2, <4>1, <4>2
      <4>4. h2c[1] = log[j].val
        BY <2>1, <2>11, <4>3 DEF ReadInv, Queue
      <4>5. Script[pos].val = Expected(Rank(Script, pos))
        BY <1>4, <1>5, <2>1
      <4> QED
        BY <2>6, <2>11, <4>3, <4>4, <4>5
    <3> QED
      BY <3>1, <3>2
  <2>12. CASE cpc' = "nak"
    BY <2>12 DEF ReadInv
  <2>13. CASE v = Script[pos].val /\ pos = Len(Script) /\ cpc' = "echo"
    <3>1. 4 * (copies * Rank(Script, Len(Script))) <= Sent(log, op - 1)
      <4> DEFINE all == copies * Rank(Script, Len(Script))
      <4>1. all = Taken + copies
        BY <2>8, <2>13
      <4> HIDE DEF all
      <4>2. 4 * all <= Sent(log, op - 1)
        BY <1>2, <2>4, <2>5, <2>9, <4>1
      <4> QED
        BY <4>2 DEF all
    <3>2. ASSUME copies = 1, NEW j \in 1..Len(log), log[j].op = "READ32"
          PROVE  j < op /\ log[j].val = Expected(Rank(log, j))
      <4>1. j \in Nat /\ log[j].op # "WRITE32"
        BY <3>2
      <4>2. Rank(log, j) <= Rank(Script, pos)
        BY <2>13, <3>2, LogReads
      <4>3. j < op
        <5>1. SUFFICES ASSUME ~(j < op) PROVE FALSE
          OBVIOUS
        <5>2. op - 1 \in Nat /\ op - 1 <= j /\ op - 1 < j
          BY <1>2, <4>1, <5>1
        <5>3. Rank(log, op - 1) < Rank(log, j)
          BY <4>1, <5>2, RankGrows
        <5>4. Rank(log, op - 1) = Rank(Script, pos - 1) + Len(h2c)
          BY <2>1, <2>10, <3>2 DEF ReadInv, Queue
        <5>5. Rank(log, j) \in Nat /\ Rank(log, op - 1) \in Nat
          BY <1>2, <4>1, <5>2
        <5>6. Len(h2c) >= 1
          BY <1>2, <2>4
        <5> DEFINE before == Rank(log, op - 1)
                   at == Rank(log, j)
                   got == Rank(Script, pos - 1)
                   all == Rank(Script, pos)
        <5>7. /\ before < at /\ at <= all /\ all = got + 1 /\ before = got + Len(h2c)
              /\ before \in Nat /\ at \in Nat /\ got \in Nat /\ Len(h2c) \in Nat
          BY <1>2, <2>7, <4>2, <5>3, <5>4, <5>5, Zenon
        <5> HIDE DEF before, at, got, all
        <5> QED
          BY <5>6, <5>7
      <4>4. j \in 1..(op - 1)
        BY <1>2, <4>1, <4>3, <3>2
      <4> QED
        BY <2>11, <2>13, <3>2, <4>1, <4>2, <4>3, <4>4
    <3> QED
      BY <1>1, <1>3, <2>13, <3>1, <3>2 DEF ReadInv
  <2>14. CASE v = Script[pos].val /\ pos # Len(Script) /\ cpc' = "boot" /\ pos' = pos + 1
    <3>1. pos' - 1 = pos
      BY <1>5, <2>1, <2>14
    <3>2. Taken' = Taken + copies
      BY <1>1, <1>3, <2>8, <3>1 DEF Taken
    <3>3. 4 * Taken' + Bytes(h2c') = Sent(log, op - 1)
      BY <2>9, <3>2
    <3>4. ASSUME copies = 1 PROVE Queue(Taken)'
      <4>1. h2c' = SubSeq(h2c, 1 + 1, Len(h2c)) /\ 1 <= Len(h2c) /\ 1 \in Nat
        BY <1>2, <2>2, <2>6, <2>14, <3>4
      <4>2. Len(h2c') = Len(h2c) - 1 /\ \A i \in 1..Len(h2c') : h2c'[i] = h2c[1 + i]
        BY <1>2, <4>1, TailIs
      <4>3. /\ Rank(log, op - 1) = Taken + Len(h2c)
            /\ \A j \in 1..(op - 1) :
                 log[j].op # "WRITE32" /\ Rank(log, j) > Taken => h2c[Rank(log, j) - Taken] = log[j].val
        BY <2>1, <3>4 DEF ReadInv, Queue
      <4>4. Rank(log, op - 1) = (Taken + 1) + Len(h2c')
        BY <1>2, <2>5, <4>2, <4>3
      <4>5. ASSUME NEW j \in 1..(op - 1), log[j].op # "WRITE32", Rank(log, j) > Taken + 1
            PROVE  h2c'[Rank(log, j) - (Taken + 1)] = log[j].val
        <5>1. j \in Nat /\ op - 1 \in Nat /\ j <= op - 1
          BY <1>2
        <5>2. Rank(log, j) <= Rank(log, op - 1) /\ Rank(log, j) \in Nat
          BY <1>2, <5>1, RankGrows
        <5> DEFINE r == Rank(log, j)
                   left == Len(h2c')
                   i == r - (Taken + 1)
        <5>3. r \in Nat /\ left \in Int /\ r > Taken + 1 /\ r <= (Taken + 1) + left
          BY <1>2, <4>2, <4>4, <4>5, <5>2
        <5>4. h2c[r - Taken] = log[j].val \/ ~(r > Taken)
          BY <4>3, <4>5
        <5> HIDE DEF r, left
        <5>5. i \in 1..left /\ 1 + i = r - Taken /\ r > Taken
          BY <2>5, <5>3
        <5> HIDE DEF i
        <5>6. h2c'[i] = h2c[1 + i]
          BY <4>2, <5>5 DEF left
        <5>7. h2c'[i] = log[j].val
          BY <5>4, <5>5, <5>6
        <5> QED
          BY <5>7 DEF i, r
      <4> QED
        BY <1>1, <3>2, <3>4, <4>4, <4>5 DEF Queue
    <3>5. ASSUME copies = 1, NEW j \in 1..(op - 1), log[j].op # "WRITE32", Rank(log, j) <= Rank(Script, pos' - 1)
          PROVE  log[j].val = Expected(Rank(log, j))
      BY <2>11, <2>14, <3>1, <3>5
    <3> QED
      BY <1>1, <1>3, <2>14, <3>3, <3>4, <3>5 DEF ReadInv
  <2> QED
    BY <2>3, <2>12, <2>13, <2>14
<1>9. CASE ChildPanics
  <2>1. cpc' = "exit1"
    BY <1>9 DEF ChildPanics, ExitChild
  <2> QED
    BY <2>1 DEF ReadInv
<1>10. CASE ChildEchoes
  <2>1. cpc = "echo" /\ cpc' \in {"echo", "exit0"}
    BY <1>10 DEF ChildEchoes, ExitChild
  <2>2. /\ 4 * (copies * Rank(Script, Len(Script))) <= Sent(log, op - 1)
        /\ copies = 1 =>
             \A i \in 1..Len(log) : log[i].op = "READ32" => i < op /\ log[i].val = Expected(Rank(log, i))
    BY <2>1 DEF ReadInv
  <2> QED
    BY <1>1, <1>3, <2>1, <2>2 DEF ReadInv
<1> QED
  BY <1>7, <1>8, <1>9, <1>10 DEF Child

LEMMA TimesLess ==
  ASSUME NEW c \in Nat, NEW n \in Nat, c - 1 \in Nat
  PROVE  /\ c * n = (c - 1) * n + n /\ (c - 1) * n \in Nat
         /\ 4 * (c - 1) * n = 4 * ((c - 1) * n)
BY Z3

LEMMA ReadStarts == Init => ReadInv
BY DEF Init, ReadInv

LEMMA ReadStep == TypeInv /\ TypeInv' /\ ReadInv /\ [Next]_vars => ReadInv'
<1> SUFFICES ASSUME TypeInv, TypeInv', ReadInv, [Next]_vars PROVE ReadInv'
  OBVIOUS
<1>1. CASE Readable(lines)
  BY <1>1, HarnessReads, ChildReads DEF Next
<1>2. CASE ~Readable(lines)
  <2>1. UNCHANGED lines
    BY FileStays DEF vars, file
  <2>2. cpc' = "none"
    BY <1>2, <2>1 DEF TypeInv, FileInv
  <2> QED
    BY <2>2 DEF ReadInv
<1> QED
  BY <1>1, <1>2

\* Exit code 0 from what a log holds: of a log with a wrong word in it, corrupted or
\* from a boot that failed at it, a plain my-install never reports success; a robust
\* one only when the text supplies the copies of the words that the log does not hold.
THEOREM SuccessAlwaysEarned == Spec => []SuccessIsEarned
<1>1. TypeInv /\ ReadInv => SuccessIsEarned
  <2> SUFFICES ASSUME TypeInv, ReadInv, cpc = "exit0" PROVE SuccessIsEarned
    BY DEF SuccessIsEarned
  <2> DEFINE n == Len(Script)
             echoed == {i \in 1..Len(log) : log[i].op = "READ8"}
             gets == Cardinality(Gets(TRUE))
  <2>1. Readable(lines) /\ acks \in BOOLEAN
    BY DEF TypeInv, FileInv
  <2>2. Len(log) \in Nat /\ op \in 1..(Len(log) + 1) /\ copies \in Nat /\ copies >= 1
    BY ReadFacts
  <2>3. copies = 1 => \A i \in 1..Len(log) : log[i].op = "READ32" => log[i].val = BootOps(acks)[i].val
    <3> SUFFICES ASSUME copies = 1, NEW i \in 1..Len(log), log[i].op = "READ32"
                 PROVE  log[i].val = BootOps(acks)[i].val
      OBVIOUS
    <3>1. log[i].val = Expected(Rank(log, i))
      BY DEF ReadInv
    <3>2. i \in Gets(acks) /\ Rank(log, i) = Rank(BootOps(acks), i)
      BY <2>1, LogReads
    <3>3. i \in 1..Len(BootOps(acks)) /\ BootOps(acks)[i].op = "READ32"
      BY <3>2 DEF Gets
    <3>4. BootOps(acks)[i].val = Expected(Rank(BootOps(acks), i))
      BY <2>1, <3>3, BootReads
    <3> QED
      BY <3>1, <3>2, <3>4
  \* The words of the log are words of the boot, and the text has the bytes beyond.
  <2>4. Rank(log, Len(log)) <= gets + Cardinality(echoed) /\ Cardinality(echoed) \in Nat /\ gets \in Nat
    <3> DEFINE words == {i \in 1..Len(log) : log[i].op = "READ32"}
    <3>1. /\ IsFiniteSet(Gets(acks)) /\ Cardinality(Gets(acks)) <= gets /\ gets \in Nat
          /\ Cardinality(Gets(acks)) \in Nat
      BY <2>1, GetsRank
    <3>2. words \subseteq Gets(acks)
      BY <2>1, LogReads
    <3>3. IsFiniteSet(words) /\ Cardinality(words) <= Cardinality(Gets(acks)) /\ Cardinality(words) \in Nat
      BY <3>1, <3>2, FS_Subset, FS_CardinalityType
    <3>4. IsFiniteSet(echoed) /\ Cardinality(echoed) \in Nat /\ echoed = Echoes(log, Len(log))
      BY <2>2, EchoesType DEF Echoes
    <3>5. Reads(log, Len(log)) = words \cup echoed /\ words \cap echoed = {}
      BY <2>1, LogReads DEF Reads
    <3> HIDE DEF words, echoed, gets
    <3>6. Cardinality(words \cup echoed) = Cardinality(words) + Cardinality(echoed) - Cardinality({})
      BY <3>3, <3>4, <3>5, FS_Union
    <3>7. Cardinality({}) = 0
      BY FS_EmptySet
    <3> QED
      BY <3>1, <3>3, <3>4, <3>5, <3>6, <3>7 DEF Rank
  <2>5. Sent(log, op - 1) <= Sent(log, Len(log))
    <3>1. op - 1 \in 0..Len(log)
      BY <2>2
    <3>2. \A i \in 1..Len(log) : log[i].op \in {"WRITE32", "READ32", "READ8"}
      BY <2>1, LogReads
    <3> QED
      BY <2>2, <3>1, <3>2, SentGrows
  <2>6. Sent(log, Len(log)) = 4 * Rank(log, Len(log)) - 3 * Cardinality(echoed)
    BY DEF Sent, Echoes
  <2>7. 4 * (copies * gets) <= Sent(log, op - 1)
    <3>1. Rank(Script, n) = gets
      BY GetsRank
    <3> QED
      BY <3>1 DEF ReadInv
  <2>8. /\ Sent(log, op - 1) \in Int /\ Rank(log, Len(log)) \in Nat
        /\ copies - 1 \in Nat /\ copies = (copies - 1) + 1
    <3>1. op - 1 \in Nat
      BY <2>2
    <3> QED
      BY <2>2, <3>1, EchoesType, RankType
  <2>9. copies * gets = (copies - 1) * gets + gets /\ (copies - 1) * gets \in Nat
    BY <2>2, <2>4, <2>8, TimesLess
  <2> DEFINE more == (copies - 1) * gets
             all == copies * gets
             chars == Cardinality(echoed)
             rank == Rank(log, Len(log))
             sent == Sent(log, op - 1)
             most == Sent(log, Len(log))
  <2>10. /\ all = more + gets /\ more \in Nat /\ gets \in Nat /\ chars \in Nat /\ rank \in Nat /\ sent \in Int
         /\ 4 * all <= sent /\ sent <= most /\ most = 4 * rank - 3 * chars /\ rank <= gets + chars
    BY <2>4, <2>5, <2>6, <2>7, <2>8, <2>9, Zenon
  <2>11. 4 * (copies - 1) * gets = 4 * more
    BY <2>2, <2>4, <2>8, TimesLess
  <2> HIDE DEF more, all, gets, chars, rank, sent, most
  <2>12. 4 * more <= chars
    BY <2>10
  <2> QED
    BY <2>3, <2>11, <2>12 DEF SuccessIsEarned, gets, chars
<1>2. Init => TypeInv /\ ReadInv
  BY TypeStarts, ReadStarts
<1>3. TypeInv /\ ReadInv /\ [Next]_vars => TypeInv' /\ ReadInv'
  BY TypeStep, ReadStep
<1> QED
  BY <1>1, <1>2, <1>3, PTL DEF Spec
-----------------------------------------------------------------------------
(* The log of a whole boot, and a plain child.                             *)

Good(text) ==
  /\ acks /\ copies = 1 /\ Readable(lines)
  /\ Original = Recorded(TRUE, text) /\ StopsAtEnd(text)

\* The characters of the text the harness has written, and those my-install has read.
Written == op - 1 - Len(Script)
Shown == Written - Len(h2c)

\* Nothing fails in the first runs: the harness is at the end of the log when it
\* waits and when the child exits, and what the child has not read of the text is
\* in the socket.
Going(text) ==
  /\ corrupt = 0 /\ log = Original /\ canFail = FALSE
  /\ hpc \in {"attempt", "op", "eof", "wait"}
  /\ hpc \in {"eof", "wait"} => op = Len(log) + 1
  /\ cpc \in {"none", "boot", "echo", "exit0"}
  /\ hpc # "attempt" => cpc # "none"
  /\ cpc = "exit0" => op = Len(log) + 1
  /\ cpc = "echo" => /\ Shown \in 0..(Len(text) - 1) /\ pos = Upto(text, Shown).pos
                     /\ h2c = SubSeq(text, Shown + 1, Written)

GoodInv == \A text \in Texts : Good(text) /\ round <= Rounds => Going(text)

LEMMA GoodFacts ==
  ASSUME TypeInv, NEW text \in Texts, Good(text), log = Original
  PROVE  /\ Len(text) \in Nat /\ Len(Script) \in Nat /\ Len(Script) >= 9
         /\ Len(log) = Len(Script) + Len(text) /\ op \in Nat /\ op >= 1 /\ op <= Len(log) + 1
         /\ \A i \in 1..Len(Script) : log[i] = Script[i]
         /\ \A k \in 1..Len(text) : log[Len(Script) + k] = Op("READ8", text[k])
         /\ \A i \in 0..Len(Script) : Rank(log, i) = Rank(Script, i)
         /\ \A k \in 0..Len(text) : Rank(log, Len(Script) + k) = Rank(Script, Len(Script)) + k
<1> DEFINE n == Len(Script)
<1>1. /\ Len(text) \in Nat /\ n \in Nat /\ n >= 9 /\ Len(log) = n + Len(text)
      /\ \A i \in 1..n : log[i] = Script[i]
      /\ \A k \in 1..Len(text) : log[n + k] = Op("READ8", text[k])
  BY RecordedShape, ScriptShape DEF Good, Script
<1>2. op \in Nat /\ op >= 1 /\ op <= Len(log) + 1
  <2>1. op \in 1..(Len(lines) + 1) /\ Len(log) = Len(lines) /\ Len(lines) \in Nat
    BY ReadFacts
  <2> QED
    BY <2>1
<1>3. ASSUME NEW i \in 0..n PROVE Rank(log, i) = Rank(Script, i)
  <2>1. i \in Nat /\ \A j \in 1..i : log[j].op = Script[j].op
    BY <1>1
  <2> QED
    BY <2>1, RankAlike
<1> DEFINE T == {k \in Nat : k <= Len(text) => Rank(log, n + k) = Rank(Script, n) + k}
<1>4. 0 \in T
  <2>1. n + 0 = n /\ n \in 0..n
    BY <1>1
  <2>2. Rank(log, n + 0) = Rank(Script, n) /\ Rank(Script, n) \in Nat
    BY <1>1, <1>3, <2>1, RankType
  <2> QED
    BY <2>2
<1>5. ASSUME NEW k \in T PROVE k + 1 \in T
  <2>1. k \in Nat /\ k + 1 \in Nat
    OBVIOUS
  <2>2. SUFFICES ASSUME k + 1 <= Len(text) PROVE Rank(log, n + (k + 1)) = Rank(Script, n) + (k + 1)
    BY <2>1
  <2>3. Rank(log, n + k) = Rank(Script, n) + k
    BY <1>1, <2>1, <2>2
  <2>4. n + k \in Nat /\ (n + k) + 1 = n + (k + 1) /\ k + 1 \in 1..Len(text)
    BY <1>1, <2>1, <2>2
  <2>5. log[n + (k + 1)].op # "WRITE32"
    <3>1. log[n + (k + 1)] = Op("READ8", text[k + 1])
      BY <1>1, <2>4
    <3> QED
      BY <3>1 DEF Op
  <2>6. Rank(log, (n + k) + 1) = Rank(log, n + k) + 1
    BY <2>4, <2>5, RankNext
  <2>7. Rank(Script, n) \in Nat
    BY <1>1, RankType
  <2> HIDE DEF n
  <2> QED
    BY <2>1, <2>3, <2>4, <2>6, <2>7
<1>6. \A k \in Nat : k \in T
  <2> HIDE DEF T
  <2> QED
    BY <1>4, <1>5, Induct
<1>7. ASSUME NEW k \in 0..Len(text) PROVE Rank(log, n + k) = Rank(Script, n) + k
  BY <1>1, <1>6
<1> QED
  BY <1>1, <1>2, <1>3, <1>7

\* The word my-install judges is the one it expects.
LEMMA GoodWord ==
  ASSUME TypeInv, ReadInv, NEW text \in Texts, Good(text), log = Original,
         cpc = "boot", Script[pos].op = "READ32", Len(h2c) >= 1
  PROVE  h2c[1] = Script[pos].val
<1> DEFINE n == Len(Script)
<1>1. /\ n \in Nat /\ Len(log) = n + Len(text) /\ Len(text) \in Nat /\ op \in Nat /\ op <= Len(log) + 1
      /\ \A i \in 1..n : log[i] = Script[i]
      /\ \A i \in 0..n : Rank(log, i) = Rank(Script, i)
  BY GoodFacts
<1>2. pos - 1 \in Nat /\ pos \in 1..n /\ Taken \in Nat /\ (pos - 1) + 1 = pos
  <2>1. pos - 1 \in Nat /\ pos \in 1..n /\ Taken \in Nat
    BY FirstOut DEF Good
  <2> QED
    BY <1>1, <2>1
<1>3. PICK i \in 1..(op - 1) : log[i].op # "WRITE32" /\ Rank(log, i) = Taken + 1 /\ log[i].val = h2c[1]
  BY FirstOut DEF Good
<1>4. Rank(Script, pos) = Rank(Script, pos - 1) + 1 /\ Rank(Script, pos - 1) \in Nat
  <2>1. Script[(pos - 1) + 1].op # "WRITE32"
    BY <1>2
  <2>2. Rank(Script, (pos - 1) + 1) = Rank(Script, pos - 1) + 1
    BY <1>2, <2>1, RankNext
  <2> QED
    BY <1>2, <2>2, RankType
<1>5. Rank(log, i) = Rank(Script, pos)
  <2>1. Taken = Rank(Script, pos - 1)
    BY <1>4 DEF Taken, Good
  <2> QED
    BY <1>3, <1>4, <2>1
<1>6. Rank(Script, pos) <= Rank(Script, n)
  BY <1>1, <1>2, RankGrows
<1>7. i \in 1..n
  <2>1. SUFFICES ASSUME i > n PROVE FALSE
    BY <1>1
  <2>2. Rank(log, n) < Rank(log, i)
    BY <1>1, <1>3, <2>1, RankGrows
  <2>3. Rank(log, n) = Rank(Script, n) /\ Rank(Script, n) \in Nat /\ Rank(Script, pos) \in Nat
    BY <1>1, <1>2, RankType
  <2> QED
    BY <1>5, <1>6, <2>2, <2>3
<1>8. log[i] = Script[i] /\ Rank(Script, i) = Rank(Script, pos)
  BY <1>1, <1>5, <1>7
<1>9. Script[i].op = "READ32"
  BY <1>3, <1>7, <1>8, ScriptShape
<1>10. Script[i].val = Expected(Rank(Script, i)) /\ Script[pos].val = Expected(Rank(Script, pos))
  BY <1>2, <1>7, <1>9, BootReads DEF Script
<1> QED
  BY <1>3, <1>8, <1>10

\* So that a get of it takes this word and no more.
LEMMA GoodTakes ==
  ASSUME TypeInv, ReadInv, NEW text \in Texts, Good(text), log = Original,
         cpc = "boot", Script[pos].op = "READ32"
  PROVE  /\ \A k \in 1..Len(h2c) : Takes(k) => k = 1
         /\ Len(h2c) >= 1 => Takes(1)
<1> SUFFICES ASSUME Len(h2c) >= 1
             PROVE  Takes(1) /\ \A k \in 1..Len(h2c) : Takes(k) => k = 1
  <2>1. Len(h2c) \in Nat
    BY ReadFacts
  <2> QED
    BY <2>1
<1>1. h2c \in Seq(Values) /\ Len(h2c) \in Nat /\ copies = 1
  BY ReadFacts DEF Good
<1>2. h2c[1] \notin Chars
  <2>1. h2c[1] = Script[pos].val
    BY GoodWord
  <2>2. pos \in 1..Len(Script)
    BY DEF TypeInv, ChildType
  <2>3. Script[pos].val = Expected(Rank(Script, pos))
    BY <2>2, BootReads DEF Script
  <2>4. Expected(Rank(Script, pos)) \in Words
    BY DEF Expected, Words
  <2> QED
    BY <2>1, <2>3, <2>4, ValueAssumption
<1>3. \A ts \in Seq(Values) : Len(ts) >= 1 /\ ts[1] = h2c[1] => Bytes(SubSeq(ts, 1, 1)) = 4
  <2> SUFFICES ASSUME NEW ts \in Seq(Values), Len(ts) >= 1, ts[1] = h2c[1] PROVE Bytes(SubSeq(ts, 1, 1)) = 4
    OBVIOUS
  <2> DEFINE x == ts[1]
             none == SubSeq(ts, 1, 0)
             one == SubSeq(ts, 1, 1)
  <2>1. x \in Values /\ none \in Seq(Values) /\ none = <<>> /\ Len(ts) \in Nat
    OBVIOUS
  <2>2. Bytes(none) = 0
    BY <2>1, BytesType
  <2>3. one = Append(none, x)
    <3>1. Append(SubSeq(ts, 0 + 1, 0), ts[0 + 1]) = SubSeq(ts, 0 + 1, 0 + 1)
      BY <2>1, OneMore
    <3>2. 0 + 1 = 1
      OBVIOUS
    <3> QED
      BY <3>1, <3>2
  <2> HIDE DEF x, none, one
  <2>4. Bytes(Append(none, x)) = Bytes(none) + IF x \in Chars THEN 1 ELSE 4
    BY <2>1, BytesNext
  <2>5. x \notin Chars
    BY <1>2 DEF x
  <2>6. Bytes(one) = 4
    BY <2>3, <2>2, <2>4, <2>5
  <2> QED
    BY <2>6 DEF one
<1>4. Takes(1)
  <2>1. Bytes(SubSeq(h2c, 1, 1)) = 4
    BY <1>1, <1>3
  <2> QED
    BY <1>1, <2>1 DEF Takes
<1>5. ASSUME NEW k \in 1..Len(h2c), Takes(k) PROVE k = 1
  <2> DEFINE ts == SubSeq(h2c, 1, k)
             rest == SubSeq(ts, 1 + 1, Len(ts))
  <2>1. ts \in Seq(Values) /\ Len(ts) = k /\ ts[1] = h2c[1] /\ k \in Nat /\ k >= 1
    BY <1>1
  <2>2. Bytes(ts) = 4
    BY <1>1, <1>5 DEF Takes
  <2> HIDE DEF ts
  <2>3. rest \in Seq(Values) /\ Len(rest) = k - 1
    BY <2>1
  <2>4. Bytes(SubSeq(ts, 1, 1)) = 4
    BY <1>3, <2>1
  <2>5. Bytes(ts) = Bytes(SubSeq(ts, 1, 1)) + Bytes(rest)
    <3>1. 1 \in 0..Len(ts)
      BY <2>1
    <3> QED
      BY <2>1, <3>1, BytesSplit
  <2> HIDE DEF rest
  <2>6. Bytes(rest) \in Nat /\ Bytes(rest) >= Len(rest)
    BY <2>3, BytesType
  <2> QED
    BY <2>1, <2>2, <2>3, <2>4, <2>5, <2>6
<1> QED
  BY <1>4, <1>5

\* With the last word of the boot taken, the socket holds all that is written of the
\* text.
LEMMA EchoBegins ==
  ASSUME TypeInv, ReadInv, NEW text \in Texts, Good(text), log = Original,
         cpc = "boot", pos = Len(Script), Len(h2c) >= 1
  PROVE  /\ Written \in 0..Len(text) /\ Len(h2c) = Written + 1
         /\ SubSeq(h2c, copies + 1, Len(h2c)) = SubSeq(text, 1, Written)
<1> DEFINE n == Len(Script)
<1>1. /\ n \in Nat /\ n >= 9 /\ Len(log) = n + Len(text) /\ Len(text) \in Nat
      /\ op \in Nat /\ op >= 1 /\ op <= Len(log) + 1
      /\ \A k \in 1..Len(text) : log[n + k] = Op("READ8", text[k])
      /\ \A i \in 0..n : Rank(log, i) = Rank(Script, i)
      /\ \A k \in 0..Len(text) : Rank(log, n + k) = Rank(Script, n) + k
  BY GoodFacts
<1>2. h2c \in Seq(Values) /\ Len(h2c) \in Nat /\ copies = 1 /\ text \in Seq(Chars)
  BY ReadFacts, ReplayAssumption DEF Good
<1>3. n - 1 \in Nat /\ (n - 1) + 1 = n /\ n \in 0..n
  BY <1>1
<1>4. Rank(Script, n) = Rank(Script, n - 1) + 1 /\ Rank(Script, n - 1) \in Nat
  <2>1. Script[(n - 1) + 1].op # "WRITE32"
    BY <1>3, ScriptShape DEF R, Op
  <2>2. Rank(Script, (n - 1) + 1) = Rank(Script, n - 1) + 1
    BY <1>3, <2>1, RankNext
  <2> QED
    BY <1>3, <2>2, RankType
<1>5. Taken = Rank(Script, n - 1)
  BY <1>2, <1>4 DEF Taken
<1>6. /\ Rank(log, op - 1) = Taken + Len(h2c)
      /\ \A i \in 1..(op - 1) :
           log[i].op # "WRITE32" /\ Rank(log, i) > Taken => h2c[Rank(log, i) - Taken] = log[i].val
  BY <1>2 DEF ReadInv, Queue
<1>7. op - 1 >= n
  <2>1. SUFFICES ASSUME op - 1 < n PROVE FALSE
    BY <1>1
  <2>2. op - 1 \in Nat
    BY <1>1
  <2>3. Script[n].op # "WRITE32"
    BY ScriptShape DEF R, Op
  <2>4. Rank(Script, op - 1) < Rank(Script, n)
    BY <1>1, <2>1, <2>2, <2>3, RankGrows
  <2>5. Rank(log, op - 1) = Rank(Script, op - 1) /\ Rank(Script, op - 1) \in Nat
    BY <1>1, <2>1, <2>2, RankType
  <2> DEFINE a == Rank(Script, op - 1)
             b == Rank(Script, n)
             c == Rank(Script, n - 1)
  <2>6. a = c + Len(h2c) /\ b = c + 1 /\ a < b /\ a \in Nat /\ c \in Nat /\ Len(h2c) >= 1
    BY <1>2, <1>4, <1>5, <1>6, <2>4, <2>5
  <2> HIDE DEF a, b, c
  <2> QED
    BY <1>2, <2>6
<1> DEFINE w == op - 1 - n
<1>8. w \in 0..Len(text) /\ n + w = op - 1 /\ w \in Nat /\ Written = w
  BY <1>1, <1>7 DEF Written
<1> HIDE DEF w
<1>9. Len(h2c) = w + 1
  <2>1. Rank(log, n + w) = Rank(Script, n) + w
    BY <1>1, <1>8
  <2> DEFINE c == Rank(Script, n - 1)
  <2>2. c + Len(h2c) = (c + 1) + w /\ c \in Nat
    BY <1>4, <1>5, <1>6, <1>8, <2>1
  <2> HIDE DEF c
  <2> QED
    BY <1>2, <1>8, <2>2
<1>10. ASSUME NEW k \in 1..w PROVE h2c[1 + k] = text[k]
  <2>1. k \in 1..Len(text) /\ k \in 0..Len(text) /\ n + k \in 1..(op - 1) /\ k \in Nat
    BY <1>1, <1>8
  <2>2. log[n + k] = Op("READ8", text[k]) /\ Rank(log, n + k) = Rank(Script, n) + k
    BY <1>1, <2>1
  <2>3. log[n + k].op # "WRITE32" /\ log[n + k].val = text[k]
    BY <2>2 DEF Op
  <2>4. Rank(log, n + k) > Taken /\ Rank(log, n + k) - Taken = 1 + k
    BY <1>4, <1>5, <2>1, <2>2
  <2>5. h2c[Rank(log, n + k) - Taken] = log[n + k].val
    BY <1>6, <2>1, <2>3, <2>4
  <2> QED
    BY <2>3, <2>4, <2>5
<1>11. SubSeq(h2c, copies + 1, Len(h2c)) = SubSeq(text, 1, w)
  <2> DEFINE l == SubSeq(h2c, copies + 1, Len(h2c))
             r == SubSeq(text, 1, w)
  <2>1. Len(l) = Len(h2c) - 1 /\ \A k \in 1..Len(l) : l[k] = h2c[1 + k]
    <3>1. l = SubSeq(h2c, 1 + 1, Len(h2c)) /\ 1 <= Len(h2c) /\ 1 \in Nat
      BY <1>2
    <3>2. h2c \in Seq(Values)
      BY <1>2
    <3> HIDE DEF l
    <3> QED
      BY <3>1, <3>2, TailIs, Zenon
  <2>2. l \in Seq(Values)
    BY <1>2
  <2>3. Len(r) = w /\ \A k \in 1..w : r[k] = text[k]
    BY <1>2, <1>8
  <2>4. r \in Seq(Chars)
    BY <1>2, <1>8
  <2> HIDE DEF l, r
  <2>5. Len(l) = w
    BY <1>2, <1>8, <1>9, <2>1
  <2>6. \A k \in 1..w : l[k] = r[k]
    BY <1>10, <2>1, <2>3, <2>5
  <2>7. l = r
    BY <2>2, <2>3, <2>4, <2>5, <2>6
  <2> QED
    BY <2>7 DEF l, r
<1> QED
  BY <1>8, <1>9, <1>11

\* The child that waits with the harness at its end is not what happens.
LEMMA NeverBlocked ==
  ASSUME TypeInv, ReadInv, NEW text \in Texts, Good(text), Going(text), op = Len(log) + 1
  PROVE  ~ChildBlocked
<1> DEFINE n == Len(Script)
<1>1. log = Original
  BY DEF Going
<1>2. /\ n \in Nat /\ n >= 9 /\ Len(log) = n + Len(text) /\ Len(text) \in Nat
      /\ \A k \in 0..Len(text) : Rank(log, n + k) = Rank(Script, n) + k
  BY <1>1, GoodFacts
<1>3. Len(h2c) \in Nat /\ copies = 1 /\ text \in Seq(Chars)
  BY ReadFacts, ReplayAssumption DEF Good
<1>4. ASSUME cpc = "boot", pos <= n, Script[pos].op = "READ32", \A k \in 1..Len(h2c) : ~Takes(k) PROVE FALSE
  <2>1. pos - 1 \in Nat /\ pos \in 1..n /\ (pos - 1) + 1 = pos
    BY <1>2, <1>4 DEF TypeInv, ChildType
  <2>2. Script[(pos - 1) + 1].op # "WRITE32"
    BY <1>4, <2>1
  <2>3. Rank(Script, (pos - 1) + 1) = Rank(Script, pos - 1) + 1
    BY <2>1, <2>2, RankNext
  <2>4. Rank(Script, pos) <= Rank(Script, n)
    BY <1>2, <2>1, RankGrows
  <2>5. Rank(Script, pos - 1) \in Nat /\ Rank(Script, pos) \in Nat /\ Rank(Script, n) \in Nat
    BY <1>2, <2>1, RankType
  <2>6. Rank(log, op - 1) = copies * Rank(Script, pos - 1) + Len(h2c)
    BY <1>3, <1>4 DEF ReadInv, Queue, Taken
  <2>7. op - 1 = n + Len(text) /\ Len(text) \in 0..Len(text)
    BY <1>2
  <2>8. Rank(log, op - 1) = Rank(Script, n) + Len(text)
    BY <1>2, <2>7
  <2> DEFINE a == Rank(Script, pos - 1)
             b == Rank(Script, pos)
             c == Rank(Script, n)
  <2>9. /\ b = a + 1 /\ b <= c /\ copies * a + Len(h2c) = c + Len(text)
        /\ a \in Nat /\ b \in Nat /\ c \in Nat
    BY <2>1, <2>3, <2>4, <2>5, <2>6, <2>8
  <2> HIDE DEF a, b, c
  <2>10. Len(h2c) = 0
    <3>1. Len(h2c) >= 1 => Takes(1) /\ 1 \in 1..Len(h2c)
      BY <1>1, <1>3, <1>4, GoodTakes
    <3> QED
      BY <1>3, <1>4, <3>1
  <2> QED
    BY <1>2, <1>3, <2>9, <2>10
<1>5. ASSUME cpc = "echo", h2c = <<>> PROVE FALSE
  <2>1. Shown \in 0..(Len(text) - 1)
    BY <1>5 DEF Going
  <2>2. Shown = Len(text)
    BY <1>2, <1>5 DEF Shown, Written
  <2> QED
    BY <1>2, <2>1, <2>2
<1> QED
  BY <1>4, <1>5 DEF ChildBlocked

LEMMA GoodHarness ==
  ASSUME TypeInv, ReadInv, NEW text \in Texts, Good(text), round <= Rounds, round' <= Rounds,
         Going(text), Harness
  PROVE  Going(text)'
<1> DEFINE n == Len(Script)
<1>1. UNCHANGED <<lines, acks, copies, Original, Script>>
  BY FileStays DEF Next, Original, ReadInput, Script
<1>2. corrupt = 0 /\ log = Original /\ canFail = FALSE
  BY DEF Going
<1>3. /\ n \in Nat /\ n >= 9 /\ Len(log) = n + Len(text) /\ Len(text) \in Nat
      /\ op \in Nat /\ op >= 1 /\ op <= Len(log) + 1
      /\ \A k \in 1..Len(text) : log[n + k] = Op("READ8", text[k])
  BY <1>2, GoodFacts
<1>4. round \in Nat /\ Rounds \in Nat /\ ~(round > Rounds) /\ round \notin (Rounds + 1)..(2 * Rounds)
  BY RoundsType DEF TypeInv, HarnessType
<1>5. cpc \in Dead => op = Len(log) + 1
  BY DEF Going, Dead
<1>6. CASE CheckSuccess
  <2>1. /\ corrupt' = 0 /\ hpc' = "op" /\ canFail' = FALSE /\ cpc' = "boot" /\ log' = log
    BY <1>6 DEF CheckSuccess, Spawn
  <2> QED
    BY <1>1, <1>2, <2>1 DEF Going
<1>7. CASE WriteOp
  <2>1. /\ hpc = "op" /\ op <= Len(log) /\ log[op].op \in {"READ32", "READ8"} /\ cpc \notin Dead
        /\ CorruptOp /\ h2c' = Append(h2c, log'[op].val) /\ op' = op + 1
        /\ UNCHANGED <<hpc, corrupt, cpc, pos, canFail>>
    BY <1>7 DEF WriteOp, AtOp, Step, child
  <2>2. log' = log
    BY <1>2, <1>3, <2>1 DEF CorruptOp
  <2>3. ASSUME cpc = "echo"
        PROVE  /\ Shown' = Shown /\ h2c' = SubSeq(text, Shown' + 1, Written')
    <3>1. Shown \in 0..(Len(text) - 1) /\ h2c = SubSeq(text, Shown + 1, Written)
      BY <2>3 DEF Going
    <3>2. h2c \in Seq(Values) /\ Len(h2c) \in Nat /\ text \in Seq(Chars)
      BY ReadFacts, ReplayAssumption
    <3>3. Written \in Nat /\ Written >= Shown /\ Written + 1 <= Len(text) /\ n + (Written + 1) = op
          /\ Written' = Written + 1
      BY <1>1, <1>3, <2>1, <3>1, <3>2 DEF Written, Shown
    <3>4. log[op].val = text[Written + 1]
      <4>1. log[n + (Written + 1)] = Op("READ8", text[Written + 1])
        BY <1>3, <3>3
      <4> QED
        BY <3>3, <4>1 DEF Op
    <3>5. Len(h2c') = Len(h2c) + 1
      BY <2>1, <3>2
    <3>6. Shown' = Shown
      BY <3>2, <3>3, <3>5 DEF Shown, Written
    <3>7. Append(SubSeq(text, Shown + 1, Written), text[Written + 1]) = SubSeq(text, Shown + 1, Written + 1)
      <4>1. Shown \in Nat /\ Len(text) \in Nat
        BY <3>1, <3>2
      <4> QED
        BY <3>2, <3>3, <4>1, OneMore
    <3> QED
      BY <2>1, <2>2, <3>1, <3>3, <3>4, <3>6, <3>7
  <2>4. cpc # "exit0"
    BY <2>1 DEF Dead
  <2> QED
    BY <1>1, <1>2, <2>1, <2>2, <2>3, <2>4 DEF Going
<1>8. CASE ReadOp
  <2>1. /\ hpc = "op" /\ op <= Len(log) /\ log[op].op = "WRITE32" /\ op' = op + 1
        /\ UNCHANGED <<hpc, corrupt, cpc, pos, canFail, log, h2c>>
    BY <1>8 DEF ReadOp, AtOp, Step, child
  <2>2. cpc # "echo"
    <3>1. SUFFICES ASSUME cpc = "echo" PROVE FALSE
      OBVIOUS
    <3>2. Shown >= 0 /\ Shown \in Nat
      BY <1>3, <3>1 DEF Going
    <3>3. Len(h2c) \in Nat
      BY ReadFacts
    <3>4. Written >= 0 /\ Written + 1 \in 1..Len(text) /\ n + (Written + 1) = op
      BY <1>3, <2>1, <3>2, <3>3 DEF Shown, Written
    <3>5. log[op] = Op("READ8", text[Written + 1])
      BY <1>3, <3>4
    <3> QED
      BY <2>1, <3>5 DEF Op
  <2>3. cpc # "exit0"
    BY <1>3, <1>5, <2>1 DEF Dead
  <2> QED
    BY <1>1, <1>2, <2>1, <2>2, <2>3 DEF Going
<1>9. CASE LogEnds
  <2>1. hpc' = "eof" /\ op > Len(log) /\ UNCHANGED <<corrupt, log, canFail, op, cpc, pos, h2c>> /\ hpc = "op"
    BY <1>2, <1>9 DEF LogEnds, Fail, child, socket
  <2>2. op = Len(log) + 1
    BY <1>3, <2>1
  <2> QED
    BY <1>1, <1>2, <2>1, <2>2 DEF Going, Shown, Written
<1>10. CASE HasData
  <2>1. hpc' = "wait" /\ hpc = "eof" /\ UNCHANGED <<corrupt, log, canFail, op, cpc, pos, h2c>>
    BY <1>10 DEF HasData, Fail, child, socket
  <2> QED
    BY <1>1, <1>2, <2>1 DEF Going, Shown, Written
<1>11. CASE NoData
  <2>1. ChildBlocked /\ op = Len(log) + 1
    BY <1>11 DEF NoData, Going
  <2> QED
    BY <2>1, NeverBlocked
<1>12. CASE ExitCode
  <2>1. cpc = "exit0"
    BY <1>12 DEF ExitCode, Going, Dead
  <2>2. Status = 0
    BY <2>1 DEF Status
  <2>3. Passed
    BY <1>2, <1>12, <2>2 DEF ExitCode
  <2>4. hpc' = "attempt" /\ UNCHANGED <<corrupt, log, canFail, op, cpc, pos, h2c>>
    BY <2>3 DEF Passed, child, socket
  <2> QED
    BY <1>1, <1>2, <2>1, <2>4 DEF Going, Shown, Written
<1>13. ~CheckCrashes /\ ~NextRound
  BY <1>4 DEF CheckCrashes, NextRound
<1>14. ~WriteFails /\ ~ReadEnd /\ ~ReadReset
  BY <1>3, <1>5 DEF WriteFails, ReadEnd, ReadReset, AtOp
<1> QED
  BY <1>6, <1>7, <1>8, <1>9, <1>10, <1>11, <1>12, <1>13, <1>14 DEF Harness

LEMMA GoodChild ==
  ASSUME TypeInv, ReadInv, NEW text \in Texts, Good(text), Going(text), Child
  PROVE  Going(text)'
<1> DEFINE n == Len(Script)
<1>1. UNCHANGED <<lines, acks, copies, log, hpc, op, corrupt, canFail>>
  BY DEF Child, ChildPuts, ChildExpects, ChildPanics, ChildEchoes, ExitChild, file, harness
<1>2. UNCHANGED <<Original, Script, Written>> /\ log = Original
  BY <1>1 DEF Original, Script, ReadInput, Going, Written
<1>3. /\ n \in Nat /\ n >= 9 /\ Len(log) = n + Len(text) /\ Len(text) \in Nat
      /\ op \in Nat /\ op >= 1 /\ op <= Len(log) + 1
  BY <1>2, GoodFacts
<1>4. Len(h2c) \in Nat /\ copies = 1 /\ h2c \in Seq(Values) /\ text \in Seq(Chars)
  BY ReadFacts, ReplayAssumption DEF Good
<1>5. CASE cpc' = "boot"
  BY <1>1, <1>2, <1>5 DEF Going
<1>6. ASSUME cpc' = "echo", Shown' \in 0..(Len(text) - 1), pos' = Upto(text, Shown').pos,
             h2c' = SubSeq(text, Shown' + 1, Written)
      PROVE  Going(text)'
  BY <1>1, <1>2, <1>6 DEF Going
<1>7. CASE ChildPuts
  BY <1>5, <1>7 DEF ChildPuts
<1>8. CASE ChildExpects
  <2>1. /\ cpc = "boot" /\ Script[pos].op = "READ32" /\ Len(h2c) >= 1 /\ h2c' = SubSeq(h2c, copies + 1, Len(h2c))
        /\ \E v \in Got(SubSeq(h2c, 1, 1)) :
             \/ v # Script[pos].val
             \/ pos = Len(Script) /\ cpc' = "echo" /\ pos' = 0
             \/ cpc' = "boot"
    <3>1. cpc = "boot" /\ Script[pos].op = "READ32"
      BY <1>8 DEF ChildExpects
    <3>2. PICK k \in 1..Len(h2c) :
            /\ Takes(k) /\ h2c' = SubSeq(h2c, k + 1, Len(h2c))
            /\ \E v \in Got(SubSeq(h2c, 1, k)) :
                 \/ v # Script[pos].val
                 \/ pos = Len(Script) /\ cpc' = "echo" /\ pos' = 0
                 \/ cpc' = "boot"
      BY <1>8 DEF ChildExpects
    <3>3. k = 1
      BY <1>2, <3>1, <3>2, GoodTakes
    <3>4. Len(h2c) >= 1
      BY <1>4, <3>2
    <3> QED
      BY <1>4, <3>1, <3>2, <3>3, <3>4
  <2>2. PICK v \in Got(SubSeq(h2c, 1, 1)) :
          \/ v # Script[pos].val
          \/ pos = Len(Script) /\ cpc' = "echo" /\ pos' = 0
          \/ cpc' = "boot"
    BY <2>1
  <2>3. v = Script[pos].val
    <3> DEFINE ts == SubSeq(h2c, 1, 1)
    <3>1. Len(ts) = 1 /\ ts[1] = h2c[1]
      BY <1>4, <2>1
    <3>2. v \in Got(ts) /\ ~(copies > 1)
      BY <1>4, <2>2
    <3> HIDE DEF ts
    <3>3. v = h2c[1]
      BY <3>1, <3>2 DEF Got
    <3> QED
      BY <1>2, <2>1, <3>3, GoodWord
  <2>4. CASE pos = Len(Script) /\ cpc' = "echo" /\ pos' = 0
    <3>1. Written \in 0..Len(text) /\ Len(h2c) = Written + 1 /\ h2c' = SubSeq(text, 1, Written)
      BY <1>2, <2>1, <2>4, EchoBegins
    <3>2. Len(h2c') = Written
      BY <1>4, <3>1
    <3>3. Shown' = 0
      BY <1>2, <3>1, <3>2 DEF Shown
    <3>4. Upto(text, 0) = Match0(0)
      <4>1. SubSeq(text, 1, 0) = <<>>
        BY <1>4
      <4> QED
        BY <4>1, ScanNothing DEF Upto
    <3>5. Upto(text, 0).pos = 0 /\ ~Upto(text, 0).seen
      BY <3>4 DEF Match0
    <3>6. Len(text) # 0
      <4>1. 0 \in 0..Len(text)
        BY <1>3
      <4>2. Upto(text, 0).seen <=> 0 = Len(text)
        BY <4>1, UptoType DEF Good, StopsAtEnd
      <4> QED
        BY <3>5, <4>2
    <3>7. 0 \in 0..(Len(text) - 1)
      BY <1>3, <3>6
    <3> QED
      BY <1>6, <2>4, <3>1, <3>3, <3>5, <3>7
  <2> QED
    BY <1>5, <2>2, <2>3, <2>4
<1>9. CASE ChildPanics
  BY <1>9 DEF ChildPanics, Going
<1>10. CASE ChildEchoes
  <2> DEFINE m == Done(pos, h2c)
  <2>1. /\ cpc = "echo" /\ h2c' = <<>> /\ pos' = m.pos
        /\ (m.seen /\ cpc' = "exit0") \/ (~m.seen /\ cpc' = "echo")
    BY <1>10 DEF ChildEchoes, ExitChild
  <2>2. /\ Shown \in 0..(Len(text) - 1) /\ pos = Upto(text, Shown).pos
        /\ h2c = SubSeq(text, Shown + 1, Written)
    BY <2>1 DEF Going
  <2>3. Written \in Shown..Len(text) /\ Shown \in 0..Len(text) /\ Shown # Len(text) /\ Written \in 0..Len(text)
    BY <1>3, <1>4, <2>2 DEF Shown, Written
  <2>4. m = Upto(text, Written)
    BY <2>2, <2>3, ReadsOn DEF Good
  <2>5. m.seen <=> Written = Len(text)
    BY <2>3, <2>4, UptoType DEF Good, StopsAtEnd
  <2>6. CASE m.seen /\ cpc' = "exit0"
    <3>1. op = Len(log) + 1
      BY <1>3, <2>5, <2>6 DEF Written
    <3> QED
      BY <1>1, <1>2, <2>6, <3>1 DEF Going
  <2>7. CASE ~m.seen /\ cpc' = "echo"
    <3>1. Shown' = Written /\ Written \in 0..(Len(text) - 1)
      BY <1>2, <1>3, <2>1, <2>3, <2>5, <2>7 DEF Shown
    <3>2. SubSeq(text, Written + 1, Written) = <<>>
      BY <1>4, <2>3
    <3> QED
      BY <1>6, <2>1, <2>4, <2>7, <3>1, <3>2
  <2> QED
    BY <2>1, <2>6, <2>7
<1> QED
  BY <1>7, <1>8, <1>9, <1>10 DEF Child

LEMMA GoodStarts == Init => GoodInv
<1> SUFFICES ASSUME Init, NEW text \in Texts, Good(text) PROVE Going(text)
  BY DEF GoodInv
<1> QED
  BY DEF Init, Good, Going

LEMMA GoodStep == TypeInv /\ ReadInv /\ GoodInv /\ [Next]_vars => GoodInv'
<1> SUFFICES ASSUME TypeInv, ReadInv, GoodInv, [Next]_vars, NEW text \in Texts, Good(text)', round' <= Rounds
             PROVE  Going(text)'
  BY DEF GoodInv
<1>1. UNCHANGED <<lines, acks, copies>>
  BY FileStays DEF vars, file
<1>2. Good(text)
  BY <1>1 DEF Good, Original, ReadInput
<1>3. round <= Rounds
  <2>1. round' = round \/ round' = round + 1
    BY DEF Next, Harness, Child, CheckSuccess, CheckCrashes, NextRound, WriteOp, WriteFails, ReadOp, ReadEnd,
           ReadReset, LogEnds, HasData, NoData, ExitCode, Passed, Fail, Step, ChildPuts, ChildExpects,
           ChildPanics, ChildEchoes, ExitChild, harness, vars
  <2>2. round \in Nat /\ Rounds \in Nat
    BY RoundsType DEF TypeInv, HarnessType
  <2> QED
    BY <2>1, <2>2
<1>4. Going(text)
  BY <1>2, <1>3 DEF GoodInv
<1>5. CASE UNCHANGED vars
  BY <1>4, <1>5 DEF Going, Original, ReadInput, Script, Shown, Written, vars, file, harness, child, socket
<1> QED
  BY <1>2, <1>3, <1>4, <1>5, GoodHarness, GoodChild DEF Next

\* If the child is built without robust bytes, the log of a boot up to where my-install
\* stopped to listen replays to exit code 0 in each of the first runs, however the two
\* processes interleave and wherever the reads of the child cut the text.
THEOREM PlainReplayIsTheSame == Spec => []ReplaysTheSame
<1>1. GoodInv => ReplaysTheSame
  <2> SUFFICES ASSUME GoodInv, Matching, round <= Rounds PROVE hpc \notin {"err", "killed"}
    BY DEF ReplaysTheSame
  <2>1. PICK text \in Texts : Good(text)
    BY DEF Matching, WholeLogs, Good
  <2>2. Going(text)
    BY <2>1 DEF GoodInv
  <2> QED
    BY <2>2 DEF Going
<1>2. Init => TypeInv /\ ReadInv /\ GoodInv
  BY TypeStarts, ReadStarts, GoodStarts
<1>3. TypeInv /\ ReadInv /\ GoodInv /\ [Next]_vars => TypeInv' /\ ReadInv' /\ GoodInv'
  BY TypeStep, ReadStep, GoodStep
<1> QED
  BY <1>1, <1>2, <1>3, PTL DEF Spec
=============================================================================
