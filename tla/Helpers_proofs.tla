--------------------------- MODULE Helpers_proofs ---------------------------
(***************************************************************************)
(* What the helpers promise for every size and every number of calls.      *)
(*                                                                         *)
(*   heap   blocks in use are apart and keep their contents                *)
(*   pins   registers of ten fields implement pins of their own            *)
(*   pwm    pulses have their share of ones, spread evenly                 *)
(*   libc   memcpy moves bytes, strncmp compares                           *)
(*   crc    changes next to each other change the checksum                 *)
(*   printk numbers are read back, and a text is cut where the buffer ends *)
(*   shell  tokenize finds the words of the line that was read             *)
(*   watch  the exit string is seen, and at the same place                 *)
(***************************************************************************)
EXTENDS Helpers, Induction, FiniteSetTheorems, SequenceTheorems, TLAPS
-----------------------------------------------------------------------------
(* The heap.                                                               *)

\* What may be in use at all.
BlockType == [at : Nat, size : Nat, written : BOOLEAN]
HeapType ==
  /\ heap \in Nat /\ heap % 8 = 0 /\ HeapStart <= heap
  /\ live \subseteq BlockType
  /\ mem \in [Addresses -> Nat]

HeapInv == HeapType /\ BlocksApart /\ BlocksKeep

\* roundup never gives less than was asked for, and keeps the pointer aligned.
LEMMA RoundUpBounds ==
  ASSUME NEW x \in Nat
  PROVE  RoundUp(x) \in Nat /\ x <= RoundUp(x) /\ RoundUp(x) % 8 = 0
BY DEF RoundUp

\* memset, byte by byte.
LEMMA MemsetBytes ==
  ASSUME NEW p \in Nat, NEW c \in Nat, NEW n \in Nat, HeapType
  PROVE  /\ Memset(p, c, n) \in [Addresses -> Nat]
         /\ \A a \in Addresses :
              Memset(p, c, n)[a] = IF p <= a /\ a < p + n THEN c ELSE mem[a]
BY DEF Memset, HeapType

LEMMA HeapStarts == HeapInit => HeapInv
BY HeapAssumption DEF HeapInit, HeapInv, HeapType, BlocksApart, BlocksKeep, Addresses

\* A new block lies above all others, and is 0.
LEMMA KmallocKeeps == HeapInv /\ KmallocCall => HeapInv'
<1> SUFFICES ASSUME HeapInv, NEW sz \in BlockSizes,
                    heap' = heap + RoundUp(sz),
                    mem' = Memset(heap, 0, RoundUp(sz)),
                    live' = live \cup {Chunk(heap, sz, FALSE)}
             PROVE  HeapInv'
  BY DEF KmallocCall
<1> DEFINE new == Chunk(heap, sz, FALSE)
           n == RoundUp(sz)
<1>1. HeapType /\ BlocksApart /\ BlocksKeep /\ heap \in Nat /\ heap % 8 = 0 /\ HeapStart <= heap
  BY DEF HeapInv, HeapType
<1>2. sz \in Nat /\ n \in Nat /\ sz <= n /\ n % 8 = 0
  BY RoundUpBounds, HeapAssumption
<1> HIDE DEF n
<1>3. new \in BlockType /\ new.at = heap /\ new.size = sz /\ new.written = FALSE
  BY <1>2 DEF Chunk, BlockType, HeapInv, HeapType
<1>4. \A b \in live : b \in BlockType /\ b.at + b.size <= heap
  BY DEF HeapInv, HeapType, BlocksApart
<1>5. /\ mem' \in [Addresses -> Nat]
      /\ \A a \in Addresses : mem'[a] = IF heap <= a /\ a < heap + n THEN 0 ELSE mem[a]
  <2>1. mem' = Memset(heap, 0, n)
    BY DEF n
  <2>2. /\ Memset(heap, 0, n) \in [Addresses -> Nat]
        /\ \A a \in Addresses :
             Memset(heap, 0, n)[a] = IF heap <= a /\ a < heap + n THEN 0 ELSE mem[a]
    <3>1. 0 \in Nat
      OBVIOUS
    <3>. QED BY <3>1, <1>1, <1>2, MemsetBytes, Zenon
  <2>. QED BY <2>1, <2>2
<1>6. HeapType'
  <2>1. heap + n \in Nat /\ (heap + n) % 8 = 0 /\ HeapStart <= heap + n
    BY <1>1, <1>2, HeapAssumption
  <2>. QED BY <2>1, <1>1, <1>3, <1>5 DEF HeapType, Addresses, n
<1>7. BlocksApart'
  <2>1. ASSUME NEW b \in live
        PROVE  /\ b.at % 8 = 0 /\ HeapStart <= b.at
               /\ b.at + b.size <= heap /\ b.at + b.size <= heap + n
               /\ \A x \in live \ {b} : x.at + x.size <= b.at \/ b.at + b.size <= x.at
    <3>1. b.at \in Nat /\ b.size \in Nat
      BY <1>4 DEF BlockType
    <3>. QED BY <3>1, <1>1, <1>2 DEF BlocksApart
  <2>2. heap % 8 = 0 /\ HeapStart <= heap /\ heap + sz <= heap + n
    BY <1>1, <1>2, HeapAssumption
  <2>3. heap' = heap + n
    BY DEF n
  <2>4. new.at = heap /\ new.at + new.size = heap + sz
    BY <1>3
  <2>5. live' = live \cup {new}
    OBVIOUS
  <2> HIDE DEF new
  <2>6. \A b \in live' : b.at % 8 = 0 /\ HeapStart <= b.at /\ b.at + b.size <= heap'
    BY <2>1, <2>2, <2>3, <2>4, <2>5
  <2>7. \A b \in live' : \A x \in live' \ {b} :
          x.at + x.size <= b.at \/ b.at + b.size <= x.at
    BY <2>4, <2>5, <2>1, <1>4
  <2>. QED BY <2>6, <2>7 DEF BlocksApart
<1>8. BlocksKeep'
  <2> SUFFICES ASSUME NEW b \in live', NEW a \in Addresses, Inside(a, b)
               PROVE  mem'[a] = IF b.written THEN b.at ELSE 0
    BY DEF BlocksKeep, Addresses
  <2>1. a \in Int
    BY HeapAssumption DEF Addresses
  <2>2. CASE b = new
    <3>1. heap <= a /\ a < heap + sz
      BY <2>2, <1>3 DEF Inside
    <3>2. heap <= a /\ a < heap + n
      BY <3>1, <2>1, <1>1, <1>2
    <3>. QED BY <2>2, <3>2, <1>3, <1>5
  <2>3. CASE b \in live
    <3>1. a < heap
      BY <2>1, <2>3, <1>4 DEF Inside, BlockType, HeapInv, HeapType
    <3>. QED BY <2>1, <2>3, <3>1, <1>5 DEF HeapInv, HeapType, BlocksKeep
  <2>. QED BY <2>2, <2>3
<1>. QED BY <1>6, <1>7, <1>8 DEF HeapInv

\* What is written lies in no other block.
LEMMA WriteKeeps == HeapInv /\ WriteBlock => HeapInv'
<1> SUFFICES ASSUME HeapInv, NEW b \in live, ~b.written,
                    mem' = Memset(b.at, b.at, b.size),
                    live' = (live \ {b}) \cup {[b EXCEPT !.written = TRUE]},
                    heap' = heap
             PROVE  HeapInv'
  BY DEF WriteBlock
<1> DEFINE new == [b EXCEPT !.written = TRUE]
<1>1. b \in BlockType /\ b.at \in Nat /\ b.size \in Nat
  BY DEF HeapInv, HeapType, BlockType
<1>2. new \in BlockType /\ new.at = b.at /\ new.size = b.size /\ new.written = TRUE
  BY <1>1 DEF BlockType
<1>3. /\ mem' \in [Addresses -> Nat]
      /\ \A a \in Addresses : mem'[a] = IF b.at <= a /\ a < b.at + b.size THEN b.at ELSE mem[a]
  BY <1>1, MemsetBytes DEF HeapInv
<1>4. HeapType'
  BY <1>2, <1>3 DEF HeapInv, HeapType, Addresses
<1>5. BlocksApart'
  BY <1>2 DEF HeapInv, BlocksApart
<1>6. BlocksKeep'
  <2> SUFFICES ASSUME NEW x \in live', NEW a \in Addresses, Inside(a, x)
               PROVE  mem'[a] = IF x.written THEN x.at ELSE 0
    BY DEF BlocksKeep, Addresses
  <2>1. a \in Int
    BY HeapAssumption DEF Addresses
  <2>2. CASE x = new
    BY <2>1, <2>2, <1>1, <1>2, <1>3 DEF Inside
  <2>3. CASE x \in live \ {b}
    <3>1. x.at \in Nat /\ x.size \in Nat /\ (x.at + x.size <= b.at \/ b.at + b.size <= x.at)
      BY <2>3 DEF HeapInv, HeapType, BlockType, BlocksApart
    <3>2. ~(b.at <= a /\ a < b.at + b.size)
      BY <2>1, <3>1, <1>1 DEF Inside
    <3>. QED BY <2>3, <3>2, <1>3 DEF HeapInv, BlocksKeep
  <2>. QED BY <2>2, <2>3
<1>. QED BY <1>4, <1>5, <1>6 DEF HeapInv

\* kfree_after and kfree_all give up blocks only at and above the new pointer.
LEMMA FreeKeeps == HeapInv /\ (Kfree \/ KfreeAfter \/ KfreeAll) => HeapInv'
<1>1. ASSUME HeapInv, Kfree PROVE HeapInv'
  BY <1>1 DEF Kfree, HeapInv, HeapType, BlocksApart, BlocksKeep, Addresses
<1>2. ASSUME HeapInv, KfreeAll PROVE HeapInv'
  BY <1>2, HeapAssumption DEF KfreeAll, HeapInv, HeapType, BlocksApart, BlocksKeep, Addresses
<1>3. ASSUME HeapInv, KfreeAfter PROVE HeapInv'
  <2>1. PICK b \in live : heap' = b.at /\ live' = {x \in live : x.at < b.at} /\ mem' = mem
    BY <1>3 DEF KfreeAfter
  <2>2. b.at \in Nat /\ b.at % 8 = 0 /\ HeapStart <= b.at
    BY <1>3 DEF HeapInv, HeapType, BlocksApart, BlockType
  <2>3. ASSUME NEW x \in live, x.at < b.at
        PROVE  x.at + x.size <= b.at
    <3>1. x.at \in Nat /\ x.size \in Nat /\ b.size \in Nat
      BY <1>3 DEF HeapInv, HeapType, BlockType
    <3>2. x.at + x.size <= b.at \/ b.at + b.size <= x.at
      <4>1. x # b
        BY <2>2, <2>3
      <4>. QED BY <1>3, <4>1 DEF HeapInv, BlocksApart
    <3>. QED BY <2>2, <2>3, <3>1, <3>2
  <2>4. HeapType'
    BY <1>3, <2>1, <2>2 DEF HeapInv, HeapType, Addresses
  <2>5. BlocksApart'
    BY <1>3, <2>1, <2>3 DEF HeapInv, BlocksApart
  <2>6. BlocksKeep'
    BY <1>3, <2>1 DEF HeapInv, BlocksKeep, Addresses
  <2>. QED BY <2>4, <2>5, <2>6 DEF HeapInv
<1>. QED BY <1>1, <1>2, <1>3

LEMMA HeapInductive == HeapInv /\ [HeapNext]_heapVars => HeapInv'
<1>1. HeapInv /\ UNCHANGED heapVars => HeapInv'
  BY DEF heapVars, HeapInv, HeapType, BlocksApart, BlocksKeep, Addresses
<1>. QED BY <1>1, KmallocKeeps, WriteKeeps, FreeKeeps DEF HeapNext

\* Whatever is allocated and freed, in whatever order and size, blocks in use are
\* apart, although kmalloc keeps no list of them.
THEOREM HeapApart == HeapSpec => []BlocksApart
<1>1. HeapInv => BlocksApart
  BY DEF HeapInv
<1>. QED BY <1>1, HeapStarts, HeapInductive, PTL DEF HeapSpec

\* A block is 0 until it is written, and then keeps what was written, for every
\* heap and all sizes: kmalloc clears what kfree_after has given back.
THEOREM HeapKeeps == HeapSpec => []BlocksKeep
<1>1. HeapInv => BlocksKeep
  BY DEF HeapInv
<1>. QED BY <1>1, HeapStarts, HeapInductive, PTL DEF HeapSpec
-----------------------------------------------------------------------------
(* Fields of a register.                                                   *)

LEMMA QuotientIs ==
  ASSUME NEW a \in Nat \ {0}, NEW q \in Int, NEW r \in 0..(a - 1)
  PROVE  (q * a + r) \div a = q /\ (q * a + r) % a = r
BY Z3

LEMMA ZeroDivided ==
  ASSUME NEW a \in Nat \ {0}
  PROVE  0 \div a = 0
BY Z3

LEMMA Split ==
  ASSUME NEW a \in Nat \ {0}, NEW x \in Nat
  PROVE  /\ x \div a \in Nat /\ x % a \in 0..(a - 1)
         /\ x = (x \div a) * a + (x % a)
BY Z3

\* The digits of x at a, the ones above them and the ones below.
LEMMA Digits ==
  ASSUME NEW a \in Nat \ {0}, NEW x \in Nat
  PROVE  \E h \in Nat, l \in 0..(a - 1) : x = h * (8 * a) + ((x \div a) % 8) * a + l
<1> DEFINE y == x \div a
           d == y % 8
           h == y \div 8
           l == x % a
<1>1. y \in Nat /\ l \in 0..(a - 1) /\ x = y * a + l
  BY Split
<1> HIDE DEF y, l
<1>2. h \in Nat /\ d \in 0..7 /\ y = h * 8 + d
  BY <1>1
<1> HIDE DEF h, d
<1>3. y * a = h * (8 * a) + d * a
  BY <1>1, <1>2, Z3
<1> QED
  BY <1>1, <1>2, <1>3 DEF y, d

\* The digit of x at a replaced: it is what it should be.
Put(x, a, v) == x - ((x \div a) % 8) * a + v * a

LEMMA DigitPut ==
  ASSUME NEW a \in Nat \ {0}, NEW x \in Nat, NEW v \in 0..7
  PROVE  Put(x, a, v) \in Nat /\ (Put(x, a, v) \div a) % 8 = v
<1> DEFINE d == (x \div a) % 8
           z == x - d * a + v * a
<1>1. PICK h \in Nat, l \in 0..(a - 1) : x = h * (8 * a) + d * a + l
  BY Digits
<1>2. d \in 0..7
  <2>1. x \div a \in Nat
    BY Split
  <2> QED
    BY <2>1
<1> HIDE DEF d
<1>3. h * (8 * a) \in Nat /\ d * a \in Nat /\ v * a \in Nat
  BY <1>1, <1>2
<1>4. z = h * (8 * a) + v * a + l /\ z \in Nat
  BY <1>1, <1>3
<1>5. h * (8 * a) + v * a = (8 * h + v) * a /\ 8 * h + v \in Int
  BY Z3
<1>6. z = (8 * h + v) * a + l
  BY <1>3, <1>4, <1>5
<1>7. z \div a = 8 * h + v
  <2> DEFINE p == 8 * h + v
  <2>1. p \in Int /\ z = p * a + l
    BY <1>5, <1>6
  <2>2. z \div a = p
    <3> HIDE DEF p, z
    <3> QED
      BY <1>1, <2>1, QuotientIs
  <2> QED
    BY <2>2
<1>8. (8 * h + v) % 8 = v
  OBVIOUS
<1> QED
  BY <1>4, <1>7, <1>8 DEF d, Put

\* b is the place of a digit above the one at a.
Above(b, a) == \E c \in Nat \ {0} : b = (8 * a) * c

\* And the digits above and below it stay.
LEMMA DigitAbove ==
  ASSUME NEW a \in Nat \ {0}, NEW x \in Nat, NEW v \in 0..7, NEW b, Above(b, a)
  PROVE  Put(x, a, v) \div b = x \div b
<1>1. PICK c \in Nat \ {0} : b = (8 * a) * c
  BY DEF Above
<1> DEFINE d == (x \div a) % 8
           z == x - d * a + v * a
<1>2. PICK h \in Nat, l \in 0..(a - 1) : x = h * (8 * a) + d * a + l
  BY Digits
<1> DEFINE e == 8 * a
<1>3. d \in 0..7
  <2>1. x \div a \in Nat
    BY Split
  <2> QED
    BY <2>1
<1> HIDE DEF d
<1>4. e \in Nat \ {0} /\ b \in Nat \ {0} /\ b = e * c
  BY <1>1, Z3
<1>5. d * a \in Nat /\ v * a \in Nat /\ d * a + l < e /\ v * a + l < e
  <2>1. d * a <= 7 * a /\ v * a <= 7 * a /\ d * a \in Nat /\ v * a \in Nat
    BY <1>3, Z3
  <2> QED
    BY <2>1
<1>6. x = h * e + d * a + l
  BY <1>2
<1> HIDE DEF e
<1>7. z = h * e + (v * a + l) /\ x = h * e + (d * a + l)
  <2>1. h * e \in Nat
    BY <1>4
  <2> QED
    BY <1>5, <1>6, <2>1
<1>8. ASSUME NEW r \in Nat, r < e
      PROVE  (h * e + r) \div b = h \div c
  <2> DEFINE q == h \div c
             s == h % c
  <2>1. q \in Nat /\ s \in 0..(c - 1) /\ h = q * c + s
    BY Split
  <2> HIDE DEF q, s
  <2>2. h * e = q * b + s * e
    BY <1>4, <2>1, Z3
  <2>3. s * e + e <= b /\ s * e \in Nat
    BY <1>4, <2>1, Z3
  <2>4. s * e + r \in 0..(b - 1)
    BY <1>4, <1>8, <2>3
  <2>5. q * b \in Nat
    BY <1>4, <2>1
  <2>6. h * e + r = q * b + (s * e + r)
    <3> DEFINE f == h * e
               g == q * b
               j == s * e
    <3>1. f = g + j /\ g \in Nat /\ j \in Nat
      BY <2>2, <2>3, <2>5
    <3> HIDE DEF f, g, j
    <3>2. f + r = g + (j + r)
      BY <1>8, <3>1
    <3> QED
      BY <3>2 DEF f, g, j
  <2>7. (q * b + (s * e + r)) \div b = q
    BY <1>4, <2>1, <2>4, QuotientIs
  <2> QED
    BY <2>6, <2>7 DEF q
<1>9. v * a + l \in Nat /\ d * a + l \in Nat
  BY <1>5
<1> HIDE DEF z
<1> QED
  BY <1>5, <1>7, <1>8, <1>9 DEF z, d, Put

LEMMA DigitBelow ==
  ASSUME NEW b \in Nat \ {0}, NEW a, NEW x \in Nat, NEW v \in 0..7, Above(a, b)
  PROVE  (Put(x, a, v) \div b) % 8 = (x \div b) % 8
<1>1. PICK c \in Nat \ {0} : a = (8 * b) * c
  BY DEF Above
<1> DEFINE d == (x \div a) % 8
           z == x - d * a + v * a
           m == (v - d) * c
           y == x \div b
           l == x % b
<1>2. a \in Nat \ {0}
  BY <1>1, Z3
<1>3. d \in 0..7
  <2>1. x \div a \in Nat
    BY <1>2, Split
  <2> QED
    BY <2>1
<1> HIDE DEF d
<1>4. y \in Nat /\ l \in 0..(b - 1) /\ x = y * b + l
  BY Split
<1>5. m \in Int
  BY <1>3
<1>6. v * a - d * a = (8 * m) * b
  BY <1>1, <1>3, Z3
<1> HIDE DEF m, y, l
<1>7. (y + 8 * m) * b = y * b + (8 * m) * b
  BY <1>4, <1>5, Z3
<1>8. z = (y + 8 * m) * b + l
  <2>1. v * a \in Int /\ d * a \in Int /\ y * b \in Int /\ (8 * m) * b \in Int
    BY <1>2, <1>3, <1>4, <1>5
  <2> QED
    BY <1>4, <1>6, <1>7, <2>1
<1>9. z \div b = y + 8 * m
  <2> DEFINE p == y + 8 * m
  <2>1. p \in Int /\ z = p * b + l
    BY <1>4, <1>5, <1>8
  <2>2. z \div b = p
    <3> HIDE DEF p, z
    <3> QED
      BY <1>4, <2>1, QuotientIs
  <2> QED
    BY <2>2
<1>10. (y + 8 * m) % 8 = y % 8
  BY <1>4, <1>5
<1> QED
  BY <1>1, <1>9, <1>10 DEF y, d, Put
-----------------------------------------------------------------------------
(* The registers.                                                          *)

\* The places of the ten fields.
LEMMA Places ==
  /\ 8^0 = 1 /\ 8^1 = 8 /\ 8^2 = 64 /\ 8^3 = 512 /\ 8^4 = 4096
  /\ 8^5 = 32768 /\ 8^6 = 262144 /\ 8^7 = 2097152 /\ 8^8 = 16777216 /\ 8^9 = 134217728
  OBVIOUS

LEMMA OneOfTen ==
  ASSUME NEW i \in 0..9
  PROVE  i = 0 \/ i = 1 \/ i = 2 \/ i = 3 \/ i = 4 \/ i = 5 \/ i = 6 \/ i = 7 \/ i = 8 \/ i = 9
  OBVIOUS

LEMMA PlaceIs ==
  ASSUME NEW i \in 0..9
  PROVE  8^i \in Nat \ {0} /\ (i < 9 => 8^(i + 1) = 8 * 8^i)
<1>1. CASE i = 0 BY <1>1, Places
<1>2. CASE i = 1 BY <1>2, Places
<1>3. CASE i = 2 BY <1>3, Places
<1>4. CASE i = 3 BY <1>4, Places
<1>5. CASE i = 4 BY <1>5, Places
<1>6. CASE i = 5 BY <1>6, Places
<1>7. CASE i = 6 BY <1>7, Places
<1>8. CASE i = 7 BY <1>8, Places
<1>9. CASE i = 8 BY <1>9, Places
<1>10. CASE i = 9 BY <1>10, Places
<1> QED
  BY OneOfTen, <1>1, <1>2, <1>3, <1>4, <1>5, <1>6, <1>7, <1>8, <1>9, <1>10

LEMMA EightTimes ==
  ASSUME NEW e \in Nat, NEW c \in Nat
  PROVE  8 * (e * c) = e * (8 * c)
BY Z3

LEMMA PlacesApart ==
  ASSUME NEW i \in 0..9, NEW j \in 0..9, i < j
  PROVE  Above(8^j, 8^i)
<1> DEFINE e == 8 * 8^i
<1>1. e \in Nat /\ 8^(i + 1) = e * 1 /\ i \in 0..8
  <2>1. i < 9 /\ i \in 0..8
    OBVIOUS
  <2>2. 8^i \in Nat /\ 8^(i + 1) = 8 * 8^i
    BY <2>1, PlaceIs
  <2> QED
    BY <2>1, <2>2
<1>2. ASSUME NEW n \in 1..8, i + n < 9, NEW c \in Nat, 8^(i + n) = e * c
      PROVE  8^(i + n + 1) = e * (8 * c)
  <2>1. i + n \in 0..9 /\ i + n < 9
    BY <1>2
  <2>2. 8^(i + n + 1) = 8 * (e * c)
    BY <1>2, <2>1, PlaceIs
  <2> HIDE DEF e
  <2>3. 8 * (e * c) = e * (8 * c)
    BY <1>1, EightTimes
  <2> QED
    BY <2>2, <2>3
<1> HIDE DEF e
<1>3. i + 1 <= 9 => 8^(i + 1) = e * 1
  BY <1>1
<1>4. i + 2 <= 9 => 8^(i + 2) = e * 8
  BY <1>1, <1>2, <1>3
<1>5. i + 3 <= 9 => 8^(i + 3) = e * 64
  BY <1>1, <1>2, <1>4
<1>6. i + 4 <= 9 => 8^(i + 4) = e * 512
  BY <1>1, <1>2, <1>5
<1>7. i + 5 <= 9 => 8^(i + 5) = e * 4096
  BY <1>1, <1>2, <1>6
<1>8. i + 6 <= 9 => 8^(i + 6) = e * 32768
  BY <1>1, <1>2, <1>7
<1>9. i + 7 <= 9 => 8^(i + 7) = e * 262144
  BY <1>1, <1>2, <1>8
<1>10. i + 8 <= 9 => 8^(i + 8) = e * 2097152
  BY <1>1, <1>2, <1>9
<1>11. i + 9 <= 9 => 8^(i + 9) = e * 16777216
  BY <1>1, <1>2, <1>10
<1>12. j - i \in 1..9 /\ i + (j - i) = j
  OBVIOUS
<1> QED
  BY <1>3, <1>4, <1>5, <1>6, <1>7, <1>8, <1>9, <1>10, <1>11, <1>12 DEF e, Above

LEMMA PlaceOfPin ==
  ASSUME NEW pin \in Nat
  PROVE  Offset(pin) \in Nat \ {0} /\ pin % 10 \in 0..9 /\ pin \div 10 \in Nat
                                   /\ pin = (pin \div 10) * 10 + (pin % 10)
<1>1. pin % 10 \in 0..9 /\ pin \div 10 \in Nat /\ pin = (pin \div 10) * 10 + (pin % 10)
  OBVIOUS
<1> QED
  BY <1>1, PlaceIs DEF Offset

\* A field that is written reads as it was written.
LEMMA FieldWritten ==
  ASSUME NEW v \in Nat, NEW pin \in Nat, NEW val \in 0..7
  PROVE  WithField(v, pin, val) \in Nat /\ Field(WithField(v, pin, val), pin) = val
<1> DEFINE a == Offset(pin)
           z == Put(v, a, val)
<1>1. a \in Nat \ {0}
  BY PlaceOfPin
<1>2. WithField(v, pin, val) = z
  BY DEF WithField, Field, Put
<1> HIDE DEF a
<1>3. z \in Nat /\ (z \div a) % 8 = val
  BY <1>1, DigitPut
<1> HIDE DEF z
<1> QED
  BY <1>2, <1>3 DEF Field, a

\* And the nine others of the register as they did before.
LEMMA FieldElsewhere ==
  ASSUME NEW v \in Nat, NEW pin \in Nat, NEW val \in 0..7, NEW other \in Nat, other % 10 # pin % 10
  PROVE  Field(WithField(v, pin, val), other) = Field(v, other)
<1> DEFINE a == Offset(pin)
           b == Offset(other)
           z == Put(v, a, val)
<1>1. a \in Nat \ {0} /\ b \in Nat \ {0} /\ pin % 10 \in 0..9 /\ other % 10 \in 0..9
  BY PlaceOfPin
<1>2. a = 8^(pin % 10) /\ b = 8^(other % 10)
  BY DEF Offset
<1>3. WithField(v, pin, val) = z
  BY DEF WithField, Field, Put
<1> HIDE DEF a, b
<1>4. CASE pin % 10 < other % 10
  <2>1. Above(b, a)
    BY <1>1, <1>2, <1>4, PlacesApart
  <2>2. z \div b = v \div b
    BY <1>1, <2>1, DigitAbove
  <2> HIDE DEF z
  <2> QED
    BY <1>3, <2>2 DEF Field, b
<1>5. CASE other % 10 < pin % 10
  <2>1. Above(a, b)
    BY <1>1, <1>2, <1>5, PlacesApart
  <2>2. (z \div b) % 8 = (v \div b) % 8
    BY <1>1, <2>1, DigitBelow
  <2> HIDE DEF z
  <2> QED
    BY <1>3, <2>2 DEF Field, b
<1> QED
  BY <1>1, <1>4, <1>5

\* The registers hold numbers.
Registers == fsel \in [0..3 -> Nat] /\ latch \subseteq Chip

LEMMA RegistersStart == GpioInit => Registers
  BY DEF GpioInit, Registers

\* gpio_set_function for pins that share a register, or do not.
FunctionOf(regs) == [pin \in Chip |-> Field(regs[pin \div 10], pin)]

LEMMA SetOne ==
  ASSUME Registers, NEW pin \in Chip, NEW val \in 0..7
  PROVE  LET regs == [fsel EXCEPT ![pin \div 10] = WithField(@, pin, val)]
         IN regs \in [0..3 -> Nat] /\ FunctionOf(regs) = [FunctionOf(fsel) EXCEPT ![pin] = val]
<1> DEFINE regs == [fsel EXCEPT ![pin \div 10] = WithField(@, pin, val)]
<1> HIDE DEF regs
<1> DEFINE r == pin \div 10
           v == fsel[r]
<1>1. r \in 0..3 /\ v \in Nat /\ pin \in Nat
  BY DEF Registers, Chip
<1> HIDE DEF v, r
<1>2. WithField(v, pin, val) \in Nat /\ Field(WithField(v, pin, val), pin) = val
  BY <1>1, FieldWritten
<1>3. regs \in [0..3 -> Nat] /\ regs[r] = WithField(v, pin, val)
      /\ \A q \in 0..3 : q # r => regs[q] = fsel[q]
  BY <1>1, <1>2 DEF Registers, v, r, regs
<1>4. ASSUME NEW other \in Chip, other # pin
      PROVE  Field(regs[other \div 10], other) = Field(fsel[other \div 10], other)
  <2>1. other \in Nat /\ other \div 10 \in 0..3
    BY DEF Chip
  <2>2. CASE other \div 10 = r
    <3>1. other % 10 # pin % 10
      BY <1>1, <1>4, <2>1, <2>2, PlaceOfPin DEF r
    <3>2. Field(WithField(v, pin, val), other) = Field(v, other)
      BY <1>1, <2>1, <3>1, FieldElsewhere
    <3> QED
      BY <1>3, <2>2, <3>2 DEF v
  <2>3. CASE other \div 10 # r
    BY <1>3, <2>1, <2>3
  <2> QED
    BY <2>2, <2>3
<1>5. Field(regs[pin \div 10], pin) = val
  BY <1>2, <1>3 DEF r
<1> QED
  BY <1>3, <1>4, <1>5 DEF FunctionOf, regs

LEMMA RegistersStep == Registers /\ [GpioNext]_gpioVars => Registers'
<1> SUFFICES ASSUME Registers, [GpioNext]_gpioVars PROVE Registers'
  OBVIOUS
<1>1. ASSUME NEW pin \in Nat, NEW val \in Nat, SetFunction(pin, val)
      PROVE  Registers'
  <2>1. CASE pin >= 32 \/ val % 8 # val
    BY <1>1, <2>1 DEF SetFunction, Registers
  <2>2. CASE ~(pin >= 32 \/ val % 8 # val)
    <3>1. pin \in Chip /\ val \in 0..7
      BY <1>1, <2>2 DEF Chip
    <3>2. fsel' = [fsel EXCEPT ![pin \div 10] = WithField(@, pin, val)] /\ latch' = latch
      BY <1>1, <2>2 DEF SetFunction
    <3>3. fsel' \in [0..3 -> Nat]
      BY <3>1, <3>2, SetOne
    <3> QED
      BY <3>2, <3>3 DEF Registers
  <2> QED
    BY <2>1, <2>2
<1>2. CASE GpioSetFunction \/ GpioSetOutput \/ GpioSetInput
  BY <1>1, <1>2, GpioAssumption DEF GpioSetFunction, GpioSetOutput, GpioSetInput, OUTPUT, INPUT
<1>3. CASE GpioWrite
  <2>1. PICK pin \in Pins :
          /\ pin < 32 => latch' \subseteq latch \cup {pin}
          /\ pin >= 32 => latch' = latch
          /\ fsel' = fsel
    BY <1>3 DEF GpioWrite
  <2>2. (pin < 32 /\ pin \in Chip) \/ pin >= 32
    BY GpioAssumption DEF Chip
  <2>3. latch' \subseteq latch \/ (latch' \subseteq latch \cup {pin} /\ pin \in Chip)
    BY <2>1, <2>2
  <2>4. latch' \subseteq Chip
    BY <2>3 DEF Registers
  <2> QED
    BY <2>1, <2>4 DEF Registers
<1>4. CASE GpioRead
  BY <1>4 DEF GpioRead, Registers
<1>5. CASE UNCHANGED gpioVars
  BY <1>5 DEF gpioVars, Registers
<1> QED
  BY <1>2, <1>3, <1>4, <1>5 DEF GpioNext

\* Each call is a call of PinSpec.
LEMMA SetKeepsPromise ==
  ASSUME Registers, NEW pin \in Nat, NEW val \in Nat, SetFunction(pin, val)
  PROVE  Promised!Set \/ Promised!Refuse
<1>1. asked'.call = "set" /\ asked'.pin = pin /\ asked'.val = val /\ latch' = latch
  BY DEF SetFunction, Ask
<1>2. CASE pin >= 32 \/ val % 8 # val
  <2>1. ret' = -1 /\ fsel' = fsel
    BY <1>2 DEF SetFunction
  <2>2. pin \notin Chip \/ val > 7
    BY <1>2 DEF Chip
  <2> QED
    BY <1>1, <2>1, <2>2 DEF Promised!Refuse, Promised!Good, Promised!Chip, Chip
<1>3. CASE ~(pin >= 32 \/ val % 8 # val)
  <2>1. pin \in Chip /\ val \in 0..7
    BY <1>3 DEF Chip
  <2>2. fsel' = [fsel EXCEPT ![pin \div 10] = WithField(@, pin, val)] /\ ret' = 0
    BY <1>3 DEF SetFunction
  <2>3. FunctionOf(fsel') = [FunctionOf(fsel) EXCEPT ![pin] = val]
    BY <2>1, <2>2, SetOne
  <2> QED
    BY <1>1, <2>1, <2>2, <2>3 DEF FunctionOf, Promised!Set, Promised!Good, Promised!Chip, Chip
<1> QED
  BY <1>2, <1>3

LEMMA WriteKeepsPromise == Registers /\ GpioWrite => Promised!Write \/ Promised!Refuse
<1> SUFFICES ASSUME Registers, GpioWrite PROVE Promised!Write \/ Promised!Refuse
  OBVIOUS
<1>1. PICK pin \in Pins, v \in {0, 1} :
        /\ asked' = Ask("write", pin, v)
        /\ IF pin >= 32
           THEN ret' = -1 /\ UNCHANGED latch
           ELSE ret' = 0 /\ latch' = IF v = 1 THEN latch \cup {pin} ELSE latch \ {pin}
        /\ UNCHANGED fsel
  BY DEF GpioWrite
<1>2. asked'.call = "write" /\ asked'.pin = pin /\ asked'.val = v /\ fsel' = fsel /\ pin \in Nat
  BY <1>1, GpioAssumption DEF Ask
<1>3. CASE pin >= 32
  <2>1. ret' = -1 /\ latch' = latch /\ pin \notin Chip
    BY <1>1, <1>2, <1>3 DEF Chip
  <2> QED
    BY <1>2, <2>1 DEF Promised!Refuse, Promised!Good, Promised!Chip, Chip
<1>4. CASE ~(pin >= 32)
  <2>1. ret' = 0 /\ latch' = (IF v = 1 THEN latch \cup {pin} ELSE latch \ {pin}) /\ pin \in Chip
    BY <1>1, <1>2, <1>4 DEF Chip
  <2> QED
    BY <1>2, <2>1 DEF Promised!Write, Promised!Good, Promised!Chip, Chip
<1> QED
  BY <1>3, <1>4

LEMMA ReadKeepsPromise == Registers /\ GpioRead => Promised!Read
<1> SUFFICES ASSUME Registers, GpioRead PROVE Promised!Read
  OBVIOUS
<1>1. PICK pin \in Pins \cap Chip : asked' = Ask("read", pin, 0) /\ ret' \in Lev(pin) /\ UNCHANGED <<fsel, latch>>
  BY DEF GpioRead
<1>2. asked'.call = "read" /\ asked'.pin = pin /\ fsel' = fsel /\ latch' = latch /\ pin \in Chip
  BY <1>1 DEF Ask
<1>3. ret' \in IF FunctionOf(fsel)[pin] = 1 THEN {IF pin \in latch THEN 1 ELSE 0} ELSE {0, 1}
  BY <1>1 DEF Lev, FunctionOf, OUTPUT
<1> QED
  BY <1>2, <1>3 DEF FunctionOf, Promised!Read, Promised!Good, Promised!Chip, Chip

\* The registers implement 32 pins that know nothing of each other: whatever calls
\* are made in whatever order, gpio_set_function and gpio_write change the pin they
\* name and no other, refuse what is no pin or no function, and gpio_read tells what
\* was written last.
THEOREM PinsAreApart == GpioSpec => PinsApart
<1>1. GpioInit => Promised!Init
  <2> SUFFICES ASSUME GpioInit PROVE Promised!Init
    OBVIOUS
  <2>1. ASSUME NEW pin \in Chip PROVE Field(fsel[pin \div 10], pin) = 0
    <3>1. pin \in Nat /\ pin \div 10 \in 0..3
      BY DEF Chip
    <3>2. fsel[pin \div 10] = 0
      BY <3>1 DEF GpioInit
    <3>3. Offset(pin) \in Nat \ {0}
      BY <3>1, PlaceOfPin
    <3>4. 0 \div Offset(pin) = 0
      BY <3>3, ZeroDivided
    <3> QED
      BY <3>2, <3>4 DEF Field
  <2> QED
    BY <2>1 DEF GpioInit, Promised!Init, Promised!Chip, Chip
<1>2. Registers /\ [GpioNext]_gpioVars =>
        [Promised!Set \/ Promised!Write \/ Promised!Read \/ Promised!Refuse]_<<FunctionOf(fsel), latch, asked, ret>>
  <2> SUFFICES ASSUME Registers, [GpioNext]_gpioVars
               PROVE  \/ Promised!Set \/ Promised!Write \/ Promised!Read \/ Promised!Refuse
                      \/ UNCHANGED <<fsel, latch, asked, ret>>
    BY DEF FunctionOf
  <2>1. CASE GpioSetFunction \/ GpioSetOutput \/ GpioSetInput
    BY <2>1, GpioAssumption, SetKeepsPromise DEF GpioSetFunction, GpioSetOutput, GpioSetInput, OUTPUT, INPUT
  <2>2. CASE GpioWrite
    BY <2>2, WriteKeepsPromise
  <2>3. CASE GpioRead
    BY <2>3, ReadKeepsPromise
  <2>4. CASE UNCHANGED gpioVars
    BY <2>4 DEF gpioVars
  <2> QED
    BY <2>1, <2>2, <2>3, <2>4 DEF GpioNext
<1> QED
  BY <1>1, <1>2, RegistersStart, RegistersStep, PTL DEF GpioSpec, PinsApart, Promised!Spec, FunctionOf
-----------------------------------------------------------------------------
(* Pulses.                                                                 *)
\* Ones counts along its first argument.
Counts(h, N, c) ==
  /\ h \in [0..N -> Int] /\ h[0] = 0
  /\ \A i \in 1..N : h[i] = h[i - 1] + c[i]
  /\ \A k \in 0..N : Ones(c, k) = h[k]

LEMMA OnesCount ==
  ASSUME NEW N \in Nat, NEW c, \A i \in 1..N : c[i] \in Int
  PROVE  \E h : Counts(h, N, c)
<1> DEFINE F == [i \in 1..N |-> [v \in Int |-> v + c[i]]]
<1>1. F \in [1..N -> [Int -> Int]]
  OBVIOUS
<1>2. PICK h : Recursive(h, N, Int, 0, F)
  <2>1. 0 \in Int
    OBVIOUS
  <2> HIDE DEF F
  <2> QED
    BY <1>1, <2>1, Recursion, Zenon
<1>3. h \in [0..N -> Int] /\ h[0] = 0
  BY <1>2 DEF Recursive
<1>4. ASSUME NEW i \in 1..N PROVE h[i] = h[i - 1] + c[i]
  <2>1. i - 1 \in 0..N
    OBVIOUS
  <2> QED
    BY <1>2, <1>3, <2>1 DEF Recursive
<1>5. ASSUME NEW k \in 0..N PROVE Ones(c, k) = h[k]
  <2> DEFINE Follows(f) == f = [i \in 0..k |-> IF i = 0 THEN 0 ELSE f[i - 1] + c[i]]
             g == [i \in 0..k |-> h[i]]
             f == CHOOSE f : Follows(f)
             T == {i \in 0..k : f[i] = h[i]}
  <2>1. ASSUME NEW i \in 0..k PROVE h[i] = IF i = 0 THEN 0 ELSE g[i - 1] + c[i]
    BY <1>3, <1>4
  <2>2. Follows(g)
    BY <2>1
  <2>3. Follows(f)
    BY <2>2
  <2>4. Ones(c, k) = f[k]
    BY DEF Ones
  <2> HIDE DEF f
  <2>5. 0 \in T
    BY <1>3, <2>3
  <2>6. ASSUME NEW i \in 1..k, i - 1 \in T PROVE i \in T
    <3>1. f[i] = f[i - 1] + c[i]
      BY <2>3
    <3>2. h[i] = h[i - 1] + c[i]
      BY <1>4
    <3> QED
      BY <2>6, <3>1, <3>2
  <2>7. 0..k \subseteq T
    <3>1. k \in Nat
      OBVIOUS
    <3> HIDE DEF T
    <3> QED
      BY <2>5, <2>6, <3>1, Along
  <2> QED
    BY <2>4, <2>7
<1> QED
  BY <1>3, <1>4, <1>5 DEF Counts

\* The line of int_line, from turn to turn.
Place == [choices : Seq({0, 1}), x : Int, y : Int, err : Int]
Start(on, off) == [choices |-> <<>>, x |-> 0, y |-> 0, err |-> FirstError(on, off)]
Onward(s, on, off) == IF s.x = on /\ s.y = off THEN s ELSE Turn(s, on, off)

LEMMA StartType ==
  ASSUME NEW on \in Nat, NEW off \in Nat PROVE Start(on, off) \in Place
BY DEF Start, Place, FirstError

LEMMA TurnType ==
  ASSUME NEW on \in Nat, NEW off \in Nat, NEW s \in Place
  PROVE  Turn(s, on, off) \in Place /\ Onward(s, on, off) \in Place
<1>1. Turn(s, on, off) \in Place
  <2>1. <<1>> \in Seq({0, 1}) /\ <<0>> \in Seq({0, 1}) /\ <<>> \in Seq({0, 1})
    OBVIOUS
  <2> DEFINE a == IF s.err > -on THEN <<1>> ELSE <<>>
             b == IF s.err < off THEN <<0>> ELSE <<>>
  <2>2. s.choices \in Seq({0, 1}) /\ a \in Seq({0, 1}) /\ b \in Seq({0, 1})
    BY <2>1 DEF Place
  <2>3. Turn(s, on, off).choices = s.choices \o a \o b
    BY DEF Turn
  <2>4. Turn(s, on, off).choices \in Seq({0, 1})
    <3> HIDE DEF a, b
    <3>1. s.choices \o a \in Seq({0, 1})
      BY <2>2
    <3> QED
      BY <2>2, <2>3, <3>1
  <2>5. s.x \in Int /\ s.y \in Int /\ s.err \in Int
    BY DEF Place
  <2> QED
    BY <2>4, <2>5 DEF Turn, Place
<1> QED
  BY <1>1 DEF Onward

Turns(h, on, off) ==
  /\ h[0] = Start(on, off) /\ \A k \in 1..(on + off) : h[k] = Onward(h[k - 1], on, off)
  /\ PwmCompute(on, on + off) = h[on + off].choices

LEMMA LineTurns ==
  ASSUME NEW on \in Nat, NEW off \in Nat
  PROVE  \E h : Turns(h, on, off)
<1> DEFINE n == on + off
           F == [k \in 1..n |-> [s \in Place |-> Onward(s, on, off)]]
<1>1. \A s \in Place : Onward(s, on, off) \in Place
  BY TurnType
<1>2. Start(on, off) \in Place
  BY StartType
<1>3. Start(on, off) \in Place /\ n \in Nat /\ \A s \in Place : Onward(s, on, off) \in Place
  BY <1>1, <1>2
<1>4. F \in [1..n -> [Place -> Place]]
  BY <1>3
<1>5. PICK h : Recursive(h, n, Place, Start(on, off), F)
  <2> HIDE DEF F, n
  <2> QED
    BY <1>3, <1>4, Recursion, Zenon
<1>6. h \in [0..n -> Place] /\ h[0] = Start(on, off)
  BY <1>5 DEF Recursive
<1>7. ASSUME NEW i \in 1..n PROVE h[i] = Onward(h[i - 1], on, off)
  <2>1. i - 1 \in 0..n
    OBVIOUS
  <2> QED
    BY <1>5, <1>6, <2>1 DEF Recursive
<1> DEFINE Follows(f) == f = [k \in 0..n |-> IF k = 0 THEN Start(on, off) ELSE Onward(f[k - 1], on, off)]
           f == CHOOSE f : Follows(f)
           T == {i \in 0..n : f[i] = h[i]}
<1>8. PwmCompute(on, n) = f[n].choices
  <2>1. n - on = off
    OBVIOUS
  <2> QED
    BY <2>1 DEF PwmCompute, Start, Onward
<1>9. Follows(h)
  BY <1>6, <1>7
<1>10. Follows(f)
  BY <1>9
<1> HIDE DEF f
<1>11. 0 \in T
  BY <1>6, <1>10
<1>12. ASSUME NEW i \in 1..n, i - 1 \in T PROVE i \in T
  <2>1. f[i] = Onward(f[i - 1], on, off)
    BY <1>10
  <2> QED
    BY <1>7, <1>12, <2>1
<1>13. n \in T
  <2> HIDE DEF T, n
  <2>1. 0..n \subseteq T
    BY <1>3, <1>11, <1>12, Along
  <2>2. n \in 0..n
    BY <1>3
  <2> QED
    BY <2>1, <2>2
<1> QED
  BY <1>6, <1>7, <1>8, <1>13 DEF Turns

LEMMA OnesAppend ==
  ASSUME NEW c \in Seq({0, 1}), NEW b \in {0, 1}
  PROVE  /\ \A i \in 0..Len(c) : Ones(Append(c, b), i) = Ones(c, i) /\ Ones(c, i) \in Int
         /\ Ones(Append(c, b), Len(c) + 1) = Ones(c, Len(c)) + b
<1> DEFINE N == Len(c)
           d == Append(c, b)
<1>1. N \in Nat /\ N + 1 \in Nat /\ \A i \in 1..N : c[i] \in Int
  OBVIOUS
<1>2. \A i \in 1..N : d[i] = c[i]
  OBVIOUS
<1>3. d[N + 1] = b
  OBVIOUS
<1>4. \A i \in 1..(N + 1) : d[i] \in Int
  BY <1>1, <1>2, <1>3
<1> HIDE DEF d, N
<1>5. PICK g : Counts(g, N, c)
  BY <1>1, OnesCount
<1>6. PICK h : Counts(h, N + 1, d)
  BY <1>1, <1>4, OnesCount
<1> DEFINE T == {i \in 0..N : h[i] = g[i]}
<1>7. 0 \in T
  BY <1>1, <1>5, <1>6 DEF Counts
<1>8. ASSUME NEW i \in 1..N, i - 1 \in T PROVE i \in T
  <2>1. i \in 0..N /\ i \in 1..(N + 1)
    BY <1>1
  <2>2. h[i] = h[i - 1] + d[i] /\ g[i] = g[i - 1] + c[i]
    BY <2>1, <1>5, <1>6 DEF Counts
  <2> QED
    BY <2>1, <2>2, <1>2, <1>8
<1>9. 0..N \subseteq T
  <2> HIDE DEF T
  <2> QED
    BY <1>1, <1>7, <1>8, Along
<1>10. ASSUME NEW i \in 0..N PROVE Ones(d, i) = Ones(c, i) /\ Ones(c, i) \in Int
  <2>1. i \in 0..(N + 1) /\ h[i] = g[i]
    BY <1>1, <1>9
  <2> QED
    BY <2>1, <1>5, <1>6 DEF Counts
<1>11. Ones(d, N + 1) = Ones(c, N) + b
  <2>1. N + 1 \in 1..(N + 1) /\ N + 1 \in 0..(N + 1) /\ N \in 0..N /\ (N + 1) - 1 = N
    BY <1>1
  <2>2. h[N + 1] = h[N] + d[N + 1]
    BY <1>6, <2>1 DEF Counts
  <2>3. h[N] = g[N] /\ Ones(d, N + 1) = h[N + 1] /\ Ones(c, N) = g[N]
    BY <1>5, <1>6, <1>9, <2>1 DEF Counts
  <2> QED
    BY <2>2, <2>3, <1>3
<1> QED
  BY <1>10, <1>11 DEF d, N

\* After x ones and y zeros every beginning has had its share of the ones.
Even(c, x, y, on, off) ==
  /\ c \in Seq({0, 1}) /\ Len(c) = x + y /\ Ones(c, Len(c)) = x
  /\ \A i \in 1..Len(c) : /\ -(on + off) < (on + off) * Ones(c, i) - on * i
                          /\ (on + off) * Ones(c, i) - on * i < on + off

LEMMA EvenStart ==
  ASSUME NEW on \in Nat, NEW off \in Nat
  PROVE  Even(<<>>, 0, 0, on, off)
<1>1. PICK h : Counts(h, 0, <<>>)
  BY OnesCount
<1>2. Ones(<<>>, 0) = 0
  BY <1>1 DEF Counts
<1> QED
  BY <1>2 DEF Even

LEMMA Share ==
  ASSUME NEW on \in Nat, NEW off \in Nat, NEW x \in Nat, NEW y \in Nat
  PROVE  (on + off) * x - on * (x + y) = x * off - y * on
BY Z3

LEMMA EvenStep ==
  ASSUME NEW on \in Nat, NEW off \in Nat, NEW x \in Nat, NEW y \in Nat, NEW c,
         Even(c, x, y, on, off), NEW b \in {0, 1}, NEW v \in Nat, NEW w \in Nat,
         v = x + b, w = y + (1 - b),
         -(on + off) < v * off - w * on, v * off - w * on < on + off
  PROVE  Even(Append(c, b), v, w, on, off)
<1> DEFINE d == Append(c, b)
<1>1. c \in Seq({0, 1}) /\ Len(c) = x + y /\ Ones(c, Len(c)) = x
  BY DEF Even
<1>2. d \in Seq({0, 1}) /\ Len(d) = Len(c) + 1 /\ Len(d) = v + w
  BY <1>1
<1>3. (\A i \in 0..Len(c) : Ones(d, i) = Ones(c, i)) /\ Ones(d, Len(c) + 1) = x + b
  BY <1>1, OnesAppend
<1> HIDE DEF d
<1>4. ASSUME NEW i \in 1..Len(d)
      PROVE  /\ -(on + off) < (on + off) * Ones(d, i) - on * i
             /\ (on + off) * Ones(d, i) - on * i < on + off
  <2>1. CASE i <= Len(c)
    <3>1. i \in 0..Len(c) /\ i \in 1..Len(c)
      BY <2>1, <1>1
    <3>2. Ones(d, i) = Ones(c, i)
      BY <3>1, <1>3
    <3> QED
      BY <3>1, <3>2 DEF Even
  <2>2. CASE i = Len(c) + 1
    <3>1. Ones(d, i) = v /\ i = v + w
      BY <1>1, <1>2, <1>3, <2>2
    <3>2. (on + off) * v - on * (v + w) = v * off - w * on
      BY Share
    <3> QED
      BY <3>1, <3>2
  <2> QED
    BY <1>1, <1>2, <2>1, <2>2
<1> QED
  BY <1>1, <1>2, <1>3, <1>4 DEF Even, d

\* int_line where it is wider than high, in the middle of its loop.
Drawn(s, on, off) ==
  /\ s \in Place /\ s.x \in Nat /\ s.y \in Nat /\ Even(s.choices, s.x, s.y, on, off)
  /\ s.err = FirstError(on, off) - s.x * off + s.y * on
Wide(s, on, off) == Drawn(s, on, off) /\ 0 <= s.err /\ s.err < on
Tall(s, on, off) == Drawn(s, on, off) /\ -off < s.err /\ s.err <= 0

LEMMA Grown ==
  ASSUME NEW a \in Int, NEW b \in Int
  PROVE  (a + 1) * b = a * b + b /\ a * b \in Int
BY Z3

LEMMA WideTurn ==
  ASSUME NEW on \in Nat, NEW off \in Nat, off < on, NEW s, Wide(s, on, off), s.x < on
  PROVE  Wide(Onward(s, on, off), on, off) /\ Onward(s, on, off).x = s.x + 1
<1> DEFINE P == s.x * off
           Q == s.y * on
           P1 == (s.x + 1) * off
           Q1 == (s.y + 1) * on
           h == on \div 2
           t == Turn(s, on, off)
           mid == Append(s.choices, 1)
<1>1. /\ s \in Place /\ s.x \in Nat /\ s.y \in Nat /\ s.err \in Int
      /\ s.choices \in Seq({0, 1})
  BY DEF Wide, Drawn, Place
<1>2. P \in Int /\ Q \in Int /\ P1 = P + off /\ Q1 = Q + on
  BY <1>1, Grown
<1>3. h \in Int /\ 0 <= h /\ h < on
  OBVIOUS
<1>4. s.err = h - P + Q /\ 0 <= s.err /\ s.err < on
  BY DEF Wide, Drawn, FirstError
<1>5. Onward(s, on, off) = t
  BY <1>1 DEF Onward
<1>6. s.err > -on
  BY <1>1, <1>4
<1>7. s.x + 1 \in Nat /\ s.y + 1 \in Nat
  BY <1>1
<1>8. Even(mid, s.x + 1, s.y, on, off)
  <2>1. -(on + off) < P1 - Q /\ P1 - Q < on + off
    <3> HIDE DEF P, Q, P1, Q1, h
    <3> QED
      BY <1>1, <1>2, <1>3, <1>4
  <2>2. Even(s.choices, s.x, s.y, on, off)
    BY DEF Wide, Drawn
  <2>3. s.x + 1 = s.x + 1 /\ s.y = s.y + (1 - 1)
    BY <1>1
  <2> QED
    BY <1>1, <1>7, <2>1, <2>2, <2>3, EvenStep
<1>9. mid = s.choices \o <<1>>
  BY <1>1
<1>10. CASE s.err < off
  <2>1. t = [choices |-> mid \o <<0>>, x |-> s.x + 1, y |-> s.y + 1, err |-> s.err - off + on]
    BY <1>6, <1>9, <1>10 DEF Turn
  <2>2. mid \o <<0>> = Append(mid, 0)
    BY <1>1
  <2>3. s.err - off + on = h - P1 + Q1 /\ 0 <= s.err - off + on /\ s.err - off + on < on
    <3> HIDE DEF P, Q, P1, Q1, h
    <3> QED
      BY <1>1, <1>2, <1>3, <1>4, <1>10
  <2>4. -(on + off) < P1 - Q1 /\ P1 - Q1 < on + off
    <3> HIDE DEF P, Q, P1, Q1, h
    <3> QED
      BY <1>1, <1>2, <1>3, <1>4, <1>10
  <2>5. Even(Append(mid, 0), s.x + 1, s.y + 1, on, off)
    <3>1. s.x + 1 = (s.x + 1) + 0 /\ s.y + 1 = s.y + (1 - 0)
      BY <1>1
    <3> QED
      BY <1>1, <1>7, <1>8, <2>4, <3>1, EvenStep
  <2>6. t \in Place
    BY <1>1, TurnType
  <2>7. t.x = s.x + 1 /\ t.y = s.y + 1 /\ t.choices = Append(mid, 0) /\ t.err = h - P1 + Q1 /\ 0 <= t.err /\ t.err < on
    BY <2>1, <2>2, <2>3
  <2>8. FirstError(on, off) = h
    BY DEF FirstError
  <2> HIDE DEF t, mid, h
  <2> QED
    BY <1>5, <1>7, <2>5, <2>6, <2>7, <2>8 DEF Wide, Drawn
<1>11. CASE ~(s.err < off)
  <2>1. t = [choices |-> mid \o <<>>, x |-> s.x + 1, y |-> s.y + 0, err |-> s.err - off + 0]
    BY <1>6, <1>9, <1>11 DEF Turn
  <2>2. mid \o <<>> = mid
    BY <1>1
  <2>3. s.err - off + 0 = h - P1 + Q /\ 0 <= s.err - off + 0 /\ s.err - off + 0 < on
    <3> HIDE DEF P, Q, P1, Q1, h
    <3> QED
      BY <1>1, <1>2, <1>3, <1>4, <1>11
  <2>4. t \in Place
    BY <1>1, TurnType
  <2>5. t.x = s.x + 1 /\ t.y = s.y /\ t.choices = mid /\ t.err = h - P1 + Q /\ 0 <= t.err /\ t.err < on
    <3>1. s.y \in Nat
      BY <1>1
    <3> HIDE DEF t, mid, h, P, Q, P1, Q1
    <3> QED
      BY <2>1, <2>2, <2>3, <3>1
  <2>6. FirstError(on, off) = h
    BY DEF FirstError
  <2> HIDE DEF t, mid, h
  <2> QED
    BY <1>1, <1>5, <1>7, <1>8, <2>4, <2>5, <2>6 DEF Wide, Drawn
<1> QED
  BY <1>10, <1>11

LEMMA TallTurn ==
  ASSUME NEW on \in Nat, NEW off \in Nat, on <= off, NEW s, Tall(s, on, off), s.y < off
  PROVE  Tall(Onward(s, on, off), on, off) /\ Onward(s, on, off).y = s.y + 1
<1> DEFINE P == s.x * off
           Q == s.y * on
           P1 == (s.x + 1) * off
           Q1 == (s.y + 1) * on
           h == off \div 2
           t == Turn(s, on, off)
           mid == Append(s.choices, 1)
<1>1. /\ s \in Place /\ s.x \in Nat /\ s.y \in Nat /\ s.err \in Int
      /\ s.choices \in Seq({0, 1})
  BY DEF Tall, Drawn, Place
<1>2. P \in Int /\ Q \in Int /\ P1 = P + off /\ Q1 = Q + on
  BY <1>1, Grown
<1>3. h \in Int /\ 0 <= h /\ h < off
  BY <1>1
<1>4. s.err = -h - P + Q /\ -off < s.err /\ s.err <= 0
  BY DEF Tall, Drawn, FirstError
<1>5. Onward(s, on, off) = t
  BY <1>1 DEF Onward
<1>6. s.err < off
  BY <1>1, <1>4
<1>7. s.x + 1 \in Nat /\ s.y + 1 \in Nat
  BY <1>1
<1>8. Even(s.choices, s.x, s.y, on, off)
  BY DEF Tall, Drawn
<1>9. mid = s.choices \o <<1>>
  BY <1>1
<1>10. FirstError(on, off) = -h
  BY DEF FirstError
<1>11. CASE s.err > -on
  <2>1. t = [choices |-> mid \o <<0>>, x |-> s.x + 1, y |-> s.y + 1, err |-> s.err - off + on]
    BY <1>6, <1>9, <1>11 DEF Turn
  <2>2. mid \o <<0>> = Append(mid, 0)
    BY <1>1
  <2>3. s.err - off + on = -h - P1 + Q1 /\ -off < s.err - off + on /\ s.err - off + on <= 0
    <3> HIDE DEF P, Q, P1, Q1, h
    <3> QED
      BY <1>1, <1>2, <1>3, <1>4, <1>11
  <2>4. -(on + off) < P1 - Q1 /\ P1 - Q1 < on + off
    <3> HIDE DEF P, Q, P1, Q1, h
    <3> QED
      BY <1>1, <1>2, <1>3, <1>4, <1>11
  <2>5. -(on + off) < P1 - Q /\ P1 - Q < on + off
    <3> HIDE DEF P, Q, P1, Q1, h
    <3> QED
      BY <1>1, <1>2, <1>3, <1>4, <1>11
  <2>6. Even(mid, s.x + 1, s.y, on, off)
    <3>1. s.x + 1 = s.x + 1 /\ s.y = s.y + (1 - 1)
      BY <1>1
    <3> QED
      BY <1>1, <1>7, <1>8, <2>5, <3>1, EvenStep
  <2>7. Even(Append(mid, 0), s.x + 1, s.y + 1, on, off)
    <3>1. s.x + 1 = (s.x + 1) + 0 /\ s.y + 1 = s.y + (1 - 0)
      BY <1>1
    <3> QED
      BY <1>1, <1>7, <2>6, <2>4, <3>1, EvenStep
  <2>8. t \in Place
    BY <1>1, TurnType
  <2>9. t.x = s.x + 1 /\ t.y = s.y + 1 /\ t.choices = Append(mid, 0) /\ t.err = -h - P1 + Q1 /\ -off < t.err /\ t.err <= 0
    BY <2>1, <2>2, <2>3
  <2> HIDE DEF t, mid, h
  <2> QED
    BY <1>5, <1>7, <1>10, <2>7, <2>8, <2>9 DEF Tall, Drawn
<1>12. CASE ~(s.err > -on)
  <2>1. t = [choices |-> (s.choices \o <<>>) \o <<0>>, x |-> s.x + 0, y |-> s.y + 1, err |-> s.err - 0 + on]
    BY <1>6, <1>12 DEF Turn
  <2>2. (s.choices \o <<>>) \o <<0>> = Append(s.choices, 0)
    BY <1>1
  <2>3. s.err - 0 + on = -h - P + Q1 /\ -off < s.err - 0 + on /\ s.err - 0 + on <= 0
    <3> HIDE DEF P, Q, P1, Q1, h
    <3> QED
      BY <1>1, <1>2, <1>3, <1>4, <1>12
  <2>4. -(on + off) < P - Q1 /\ P - Q1 < on + off
    <3> HIDE DEF P, Q, P1, Q1, h
    <3> QED
      BY <1>1, <1>2, <1>3, <1>4, <1>12
  <2>5. Even(Append(s.choices, 0), s.x, s.y + 1, on, off)
    <3>1. s.x = s.x + 0 /\ s.y + 1 = s.y + (1 - 0)
      BY <1>1
    <3> QED
      BY <1>1, <1>7, <1>8, <2>4, <3>1, EvenStep
  <2>6. t \in Place
    BY <1>1, TurnType
  <2>7. t.x = s.x /\ t.y = s.y + 1 /\ t.choices = Append(s.choices, 0) /\ t.err = -h - P + Q1 /\ -off < t.err /\ t.err <= 0
    BY <1>1, <2>1, <2>2, <2>3
  <2> HIDE DEF t, mid, h
  <2> QED
    BY <1>1, <1>5, <1>7, <1>10, <2>5, <2>6, <2>7 DEF Tall, Drawn
<1> QED
  BY <1>11, <1>12

LEMMA Multiple ==
  ASSUME NEW a \in Int, NEW b \in Nat, -b < a * b, a * b < b
  PROVE  a = 0
BY Z3

LEMMA Apart ==
  ASSUME NEW a \in Int, NEW b \in Int, NEW c \in Int
  PROVE  (a - b) * c = a * c - b * c /\ a * c \in Int /\ b * c \in Int /\ a * c = c * a
BY Z3

LEMMA WideEnds ==
  ASSUME NEW on \in Nat, NEW off \in Nat, off < on, NEW s, Wide(s, on, off), s.x = on
  PROVE  s.y = off
<1> DEFINE P == on * off
           Q == s.y * on
           R == off * on
           h == on \div 2
<1>1. s.y \in Nat /\ s.err \in Int /\ h \in Int /\ 0 <= h /\ h < on
  BY DEF Wide, Drawn, Place
<1>2. s.err = h - P + Q /\ 0 <= s.err /\ s.err < on
  BY DEF Wide, Drawn, FirstError
<1>3. (s.y - off) * on = Q - R /\ Q \in Int /\ R \in Int /\ P = R
  BY <1>1, Apart
<1>4. -on < Q - R /\ Q - R < on
  <2> HIDE DEF P, Q, R, h
  <2> QED
    BY <1>1, <1>2, <1>3
<1>5. s.y - off \in Int
  BY <1>1
<1>6. s.y - off = 0
  <2> HIDE DEF Q, R
  <2> QED
    BY <1>3, <1>4, <1>5, Multiple
<1> QED
  BY <1>1, <1>6

LEMMA TallEnds ==
  ASSUME NEW on \in Nat, NEW off \in Nat, on <= off, NEW s, Tall(s, on, off), s.y = off
  PROVE  s.x = on
<1> DEFINE P == s.x * off
           Q == off * on
           R == on * off
           h == off \div 2
<1>1. s.x \in Nat /\ s.err \in Int /\ h \in Int /\ 0 <= h
  BY DEF Tall, Drawn, Place
<1>2. s.err = -h - P + Q /\ -off < s.err /\ s.err <= 0
  BY DEF Tall, Drawn, FirstError
<1>3. h < off
  BY <1>1, <1>2
<1>4. (s.x - on) * off = P - R /\ P \in Int /\ R \in Int /\ Q = R
  BY <1>1, Apart
<1>5. -off < P - R /\ P - R < off
  <2> HIDE DEF P, Q, R, h
  <2> QED
    BY <1>3, <1>1, <1>2, <1>4
<1>6. s.x - on \in Int
  BY <1>1
<1>7. s.x - on = 0
  <2> HIDE DEF P, R
  <2> QED
    BY <1>4, <1>5, <1>6, Multiple
<1> QED
  BY <1>1, <1>7

\* When the line has come to its end the loop does nothing more.
LEMMA LineStays ==
  ASSUME NEW on \in Nat, NEW off \in Nat, NEW h, Turns(h, on, off),
         NEW k \in 0..(on + off), h[k].x = on, h[k].y = off
  PROVE  h[on + off] = h[k]
<1> DEFINE m == (on + off) - k
           T == {j \in 0..m : h[k + j] = h[k]}
<1>1. m \in Nat /\ k + m = on + off /\ k \in Nat
  OBVIOUS
<1>2. 0 \in T
  OBVIOUS
<1>3. ASSUME NEW j \in 1..m, j - 1 \in T PROVE j \in T
  <2>1. k + j \in 1..(on + off) /\ (k + j) - 1 = k + (j - 1) /\ j \in 0..m
    BY <1>1
  <2>2. h[k + j] = Onward(h[k + (j - 1)], on, off)
    BY <2>1 DEF Turns
  <2>3. h[k + (j - 1)] = h[k]
    BY <1>3
  <2> QED
    BY <2>1, <2>2, <2>3 DEF Onward
<1>4. m \in T
  <2> HIDE DEF T, m
  <2>1. 0..m \subseteq T
    BY <1>1, <1>2, <1>3, Along
  <2> QED
    BY <1>1, <2>1
<1> QED
  BY <1>1, <1>4

LEMMA LineEnds ==
  ASSUME NEW on \in Nat, NEW off \in Nat, on + off > 0, NEW h, Turns(h, on, off)
  PROVE  Drawn(h[on + off], on, off) /\ h[on + off].x = on /\ h[on + off].y = off
<1>1. h[0] = Start(on, off) /\ Drawn(h[0], on, off) /\ h[0].x = 0 /\ h[0].y = 0
      /\ h[0].err = FirstError(on, off)
  <2>1. h[0] = Start(on, off) /\ Start(on, off) \in Place
    BY StartType DEF Turns
  <2>2. /\ h[0].x = 0 /\ h[0].y = 0 /\ h[0].choices = <<>>
        /\ h[0].err = FirstError(on, off)
    BY <2>1 DEF Start
  <2>3. FirstError(on, off) - 0 * off + 0 * on = FirstError(on, off)
    BY DEF FirstError
  <2> QED
    BY <2>1, <2>2, <2>3, EvenStart DEF Drawn
<1>2. CASE off < on
  <2> DEFINE T == {k \in 0..on : Wide(h[k], on, off) /\ h[k].x = k}
  <2>1. 0 \in T
    <3>1. 0 <= on \div 2 /\ on \div 2 < on /\ FirstError(on, off) = on \div 2
      BY <1>2 DEF FirstError
    <3> QED
      BY <1>1, <3>1 DEF Wide
  <2>2. ASSUME NEW k \in 1..on, k - 1 \in T PROVE k \in T
    <3>1. k \in 1..(on + off) /\ k \in 0..on /\ k - 1 < on /\ (k - 1) + 1 = k
      OBVIOUS
    <3>2. h[k] = Onward(h[k - 1], on, off)
      BY <3>1 DEF Turns
    <3>3. Wide(h[k - 1], on, off) /\ h[k - 1].x = k - 1
      BY <2>2
    <3>4. Wide(h[k], on, off) /\ h[k].x = h[k - 1].x + 1
      BY <1>2, <3>1, <3>2, <3>3, WideTurn
    <3> QED
      BY <3>1, <3>3, <3>4
  <2>3. on \in T
    <3> HIDE DEF T
    <3>1. 0..on \subseteq T
      BY <2>1, <2>2, Along
    <3> QED
      BY <3>1
  <2>4. Wide(h[on], on, off) /\ h[on].x = on /\ h[on].y = off
    BY <1>2, <2>3, WideEnds
  <2>5. h[on + off] = h[on]
    BY <2>4, LineStays
  <2> QED
    BY <2>4, <2>5 DEF Wide
<1>3. CASE on <= off
  <2> DEFINE T == {k \in 0..off : Tall(h[k], on, off) /\ h[k].y = k}
  <2>1. 0 \in T
    <3>1. -off < -(off \div 2) /\ -(off \div 2) <= 0 /\ FirstError(on, off) = -(off \div 2)
      BY <1>3 DEF FirstError
    <3> QED
      BY <1>1, <3>1 DEF Tall
  <2>2. ASSUME NEW k \in 1..off, k - 1 \in T PROVE k \in T
    <3>1. k \in 1..(on + off) /\ k \in 0..off /\ k - 1 < off /\ (k - 1) + 1 = k
      OBVIOUS
    <3>2. h[k] = Onward(h[k - 1], on, off)
      BY <3>1 DEF Turns
    <3>3. Tall(h[k - 1], on, off) /\ h[k - 1].y = k - 1
      BY <2>2
    <3>4. Tall(h[k], on, off) /\ h[k].y = h[k - 1].y + 1
      BY <1>3, <3>1, <3>2, <3>3, TallTurn
    <3> QED
      BY <3>1, <3>3, <3>4
  <2>3. off \in T
    <3> HIDE DEF T
    <3>1. 0..off \subseteq T
      BY <2>1, <2>2, Along
    <3> QED
      BY <3>1
  <2>4. Tall(h[off], on, off) /\ h[off].y = off /\ h[off].x = on
    BY <1>3, <2>3, TallEnds
  <2>5. h[on + off] = h[off]
    BY <2>4, LineStays
  <2> QED
    BY <2>4, <2>5 DEF Tall
<1> QED
  BY <1>2, <1>3

\* What pwm_compute makes: n choices, `on` of them ones, spread evenly.
LEMMA PwmIs ==
  ASSUME NEW n \in Nat, NEW on \in 0..n
  PROVE  /\ Len(PwmCompute(on, n)) = n /\ Ones(PwmCompute(on, n), n) = on
         /\ \A i \in 1..n : /\ -n < n * Ones(PwmCompute(on, n), i) - on * i
                            /\ n * Ones(PwmCompute(on, n), i) - on * i < n
<1> DEFINE off == n - on
<1>1. on \in Nat /\ off \in Nat /\ on + off = n
  OBVIOUS
<1>2. PICK h : Turns(h, on, off)
  BY <1>1, LineTurns
<1>3. PwmCompute(on, n) = h[n].choices
  BY <1>1, <1>2 DEF Turns
<1> HIDE DEF off
<1>4. CASE n > 0
  <2>1. Drawn(h[n], on, off) /\ h[n].x = on /\ h[n].y = off
    BY <1>1, <1>2, <1>4, LineEnds
  <2>2. Even(PwmCompute(on, n), on, off, on, off)
    BY <1>3, <2>1 DEF Drawn
  <2> QED
    BY <1>1, <2>2 DEF Even
<1>5. CASE n = 0
  <2>1. on = 0 /\ off = 0 /\ h[0] = Start(on, off)
    BY <1>1, <1>2, <1>5 DEF Turns
  <2>2. PwmCompute(on, n) = <<>>
    BY <1>3, <1>5, <2>1 DEF Start
  <2>3. Even(<<>>, 0, 0, 0, 0)
    BY EvenStart
  <2> QED
    BY <1>5, <2>1, <2>2, <2>3 DEF Even
<1> QED
  BY <1>4, <1>5

-----------------------------------------------------------------------------
(* Copies.                                                                 *)
\* What has been copied after i units.
Copied(m, dst, src, k) == [a \in DOMAIN m |-> IF dst <= a /\ a < dst + k THEN m[src + a - dst] ELSE m[a]]

LEMMA MoveMore ==
  ASSUME NEW top \in Nat, NEW m, DOMAIN m = 0..top, NEW dst \in 0..top, NEW src \in 0..top,
         NEW k \in Nat, NEW u \in Nat, NEW n \in Nat, k + u <= n,
         dst + n - 1 <= top, src + n - 1 <= top, dst <= src \/ src + n <= dst
  PROVE  Move(Copied(m, dst, src, k), dst + k, src + k, u) = Copied(m, dst, src, k + u)
<1> DEFINE c == Copied(m, dst, src, k)
<1>1. ASSUME NEW a \in 0..top
      PROVE  (IF dst + k <= a /\ a < (dst + k) + u THEN c[(src + k) + a - (dst + k)] ELSE c[a])
               = IF dst <= a /\ a < dst + (k + u) THEN m[src + a - dst] ELSE m[a]
  <2>1. CASE dst + k <= a /\ a < (dst + k) + u
    <3> DEFINE b == src + a - dst
    <3>1. b \in 0..top /\ (src + k) + a - (dst + k) = b
      BY <2>1
    <3>2. ~(dst <= b /\ b < dst + k)
      BY <2>1
    <3>3. c[b] = m[b]
      BY <3>1, <3>2 DEF Copied
    <3>4. dst <= a /\ a < dst + (k + u)
      BY <2>1
    <3> HIDE DEF c
    <3> QED
      BY <2>1, <3>1, <3>3, <3>4
  <2>2. CASE ~(dst + k <= a /\ a < (dst + k) + u)
    <3>1. c[a] = IF dst <= a /\ a < dst + k THEN m[src + a - dst] ELSE m[a]
      BY DEF Copied
    <3> QED
      BY <2>2, <3>1
  <2> QED
    BY <2>1, <2>2
<1>2. DOMAIN c = 0..top
  BY DEF Copied
<1> HIDE DEF c
<1>3. Move(c, dst + k, src + k, u) = [a \in 0..top |-> IF dst + k <= a /\ a < (dst + k) + u THEN c[(src + k) + a - (dst + k)] ELSE c[a]]
  BY <1>2 DEF Move
<1>4. Copied(m, dst, src, k + u) = [a \in 0..top |-> IF dst <= a /\ a < dst + (k + u) THEN m[src + a - dst] ELSE m[a]]
  BY DEF Copied
<1>5. Move(c, dst + k, src + k, u) = Copied(m, dst, src, k + u)
  BY <1>1, <1>3, <1>4
<1> QED
  BY <1>5 DEF c

LEMMA Units ==
  ASSUME NEW n \in Nat, NEW dst \in Nat, NEW src \in Nat
  PROVE  /\ CopyUnit(dst, src, n) \in {1, 4} /\ n \div CopyUnit(dst, src, n) \in Nat
         /\ CopyUnit(dst, src, n) * (n \div CopyUnit(dst, src, n)) = n
BY DEF CopyUnit

LEMMA MemcpyMoves ==
  ASSUME NEW top \in Nat, NEW m, DOMAIN m = 0..top, m = [a \in DOMAIN m |-> m[a]],
         NEW dst \in 0..top, NEW src \in 0..top,
         NEW n \in Nat, dst + n - 1 <= top, src + n - 1 <= top, dst <= src \/ src + n <= dst
  PROVE  Memcpy(m, dst, src, n) = Move(m, dst, src, n)
<1> DEFINE unit == CopyUnit(dst, src, n)
           N == n \div unit
           Follows(f) == f = [i \in 0..N |-> IF i = 0 THEN m ELSE Move(f[i - 1], dst + unit * (i - 1), src + unit * (i - 1), unit)]
           g == [i \in 0..N |-> Copied(m, dst, src, unit * i)]
           f == CHOOSE f : Follows(f)
           T == {i \in 0..N : f[i] = g[i]}
<1>1. unit \in {1, 4} /\ N \in Nat /\ unit * N = n
  BY Units
<1>2. Memcpy(m, dst, src, n) = f[N]
  BY DEF Memcpy
<1> HIDE DEF unit, N
<1>3. g[0] = m
  <2>1. \A a \in DOMAIN m : (IF dst <= a /\ a < dst + 0 THEN m[src + a - dst] ELSE m[a]) = m[a]
    OBVIOUS
  <2>2. unit * 0 = 0 /\ 0 \in 0..N
    BY <1>1
  <2>3. Copied(m, dst, src, 0) = m
    BY <2>1 DEF Copied
  <2> QED
    BY <2>2, <2>3
<1>4. ASSUME NEW i \in 1..N
      PROVE  g[i] = Move(g[i - 1], dst + unit * (i - 1), src + unit * (i - 1), unit)
  <2> DEFINE k == unit * (i - 1)
  <2>1. k \in Nat /\ k + unit = unit * i /\ k + unit <= n
    BY <1>1, SMTT(30)
  <2>2. i - 1 \in 0..N /\ i \in 0..N
    BY <1>1
  <2> HIDE DEF k
  <2>3. Move(Copied(m, dst, src, k), dst + k, src + k, unit) = Copied(m, dst, src, k + unit)
    <3>1. unit \in Nat
      BY <1>1
    <3> QED
      BY <2>1, <3>1, MoveMore
  <2>4. g[i] = Copied(m, dst, src, k + unit)
    BY <2>1, <2>2
  <2>5. g[i - 1] = Copied(m, dst, src, k)
    BY <2>2 DEF k
  <2> HIDE DEF g
  <2>6. g[i] = Move(g[i - 1], dst + k, src + k, unit)
    BY <2>3, <2>4, <2>5
  <2> QED
    BY <2>6 DEF k
<1>5. Follows(g)
  <2>1. g = [i \in 0..N |-> g[i]]
    OBVIOUS
  <2> HIDE DEF g
  <2>2. \A i \in 0..N : g[i] = IF i = 0 THEN m ELSE Move(g[i - 1], dst + unit * (i - 1), src + unit * (i - 1), unit)
    BY <1>1, <1>3, <1>4
  <2> QED
    BY <2>1, <2>2
<1>6. Follows(f)
  <2> HIDE DEF g
  <2> QED
    BY <1>5
<1> HIDE DEF f, g
<1>7. 0 \in T
  BY <1>1, <1>3, <1>6
<1>8. ASSUME NEW i \in 1..N, i - 1 \in T PROVE i \in T
  <2>1. i \in 0..N /\ i # 0
    BY <1>1
  <2>2. f[i] = Move(f[i - 1], dst + unit * (i - 1), src + unit * (i - 1), unit)
    BY <1>6, <2>1
  <2> QED
    BY <1>4, <1>8, <2>1, <2>2
<1>9. N \in T
  <2> HIDE DEF T
  <2>1. 0..N \subseteq T
    BY <1>1, <1>7, <1>8, Along
  <2> QED
    BY <1>1, <2>1
<1>10. f[N] = Copied(m, dst, src, n)
  <2>1. N \in 0..N
    BY <1>1
  <2> QED
    BY <1>1, <1>9, <2>1 DEF g
<1> QED
  BY <1>2, <1>10 DEF Move, Copied

-----------------------------------------------------------------------------
(* Strings.                                                                *)
LEMMA SmallestIs ==
  ASSUME NEW S \in SUBSET Nat, S # {}
  PROVE  Min(S) \in S /\ \A k \in S : Min(S) <= k
<1>1. \E m \in S : \A k \in S : m <= k
  BY Least
<1> QED
  BY <1>1 DEF Min

LEMMA StrncmpFinds ==
  ASSUME NEW line \in Seq(Int \ {0}), NEW name \in Seq(Int \ {0}), NEW behind \in Seq(Int)
  PROVE  (Strncmp(line \o <<0>> \o behind, name \o <<0>>, Len(name)) = 0) <=> IsPrefix(name, line)
<1> DEFINE n == Len(name)
           L == Len(line)
           s1 == line \o <<0>> \o behind
           s2 == name \o <<0>>
           apart == {i \in 1..n : s1[i] # s2[i]}
<1>1. n \in Nat /\ L \in Nat
  OBVIOUS
<1>2. \A i \in 1..L : s1[i] = line[i] /\ line[i] \in Int
  OBVIOUS
<1>3. s1[L + 1] = 0
  OBVIOUS
<1>4. \A i \in 1..n : s2[i] = name[i] /\ name[i] \in Int /\ name[i] # 0
  OBVIOUS
<1>5. IsPrefix(name, line) <=> n <= L /\ \A i \in 1..n : name[i] = line[i]
  BY <1>1 DEF IsPrefix
<1>6. Strncmp(s1, s2, n) = IF apart = {} THEN 0 ELSE s1[Min(apart)] - s2[Min(apart)]
  BY DEF Strncmp
<1> HIDE DEF s1, s2, n, L
<1>7. (apart = {}) <=> n <= L /\ \A i \in 1..n : name[i] = line[i]
  <2>1. CASE n <= L
    <3>1. \A i \in 1..n : i \in 1..L
      BY <1>1, <2>1
    <3> QED
      BY <1>2, <1>4, <2>1, <3>1
  <2>2. CASE ~(n <= L)
    <3>1. L + 1 \in 1..n
      BY <1>1, <2>2
    <3>2. L + 1 \in apart
      BY <1>3, <1>4, <3>1
    <3> QED
      BY <2>2, <3>2
  <2> QED
    BY <2>1, <2>2
<1>8. CASE apart = {}
  BY <1>5, <1>6, <1>7, <1>8 DEF s1, s2, n
<1>9. CASE apart # {}
  <2> DEFINE k == Min(apart)
  <2>1. k \in apart /\ \A i \in apart : k <= i
    <3>1. apart \in SUBSET Nat
      BY <1>1
    <3> HIDE DEF apart
    <3> QED
      BY <1>9, <3>1, SmallestIs
  <2> HIDE DEF k
  <2>2. k \in 1..n /\ s1[k] # s2[k] /\ s2[k] \in Int
    BY <1>4, <2>1
  <2>3. s1[k] \in Int
    <3>1. CASE k <= L
      <4>1. k \in 1..L
        BY <1>1, <2>2, <3>1
      <4> QED
        BY <1>2, <4>1
    <3>2. CASE k = L + 1
      BY <1>3, <3>2
    <3>3. CASE k > L + 1
      <4>1. L + 1 \in 1..n
        BY <1>1, <2>2, <3>3
      <4>2. L + 1 \in apart
        BY <1>3, <1>4, <4>1
      <4> QED
        BY <1>1, <2>1, <2>2, <3>3, <4>2
    <3> QED
      BY <1>1, <2>2, <3>1, <3>2, <3>3
  <2>4. s1[k] - s2[k] # 0
    BY <2>2, <2>3
  <2>5. Strncmp(s1, s2, n) # 0
    BY <1>6, <1>9, <2>4 DEF k
  <2> QED
    BY <1>5, <1>7, <1>9, <2>5 DEF s1, s2, n
<1> QED
  BY <1>8, <1>9


LEMMA FirstIs ==
  ASSUME NEW S \in SUBSET Nat, NEW x
  PROVE  /\ S = {} => FirstOr(S, x) = x
         /\ S # {} => FirstOr(S, x) \in S /\ \A k \in S : FirstOr(S, x) <= k
BY SmallestIs DEF FirstOr
-----------------------------------------------------------------------------
(* The line of the shell.                                                  *)
\* A line s and the \0 behind it, and another, in a buffer.
Held(b, s) ==
  /\ Len(s) + 2 <= BufSize /\ b[Len(s) + 1] = NUL /\ b[Len(s) + 2] = NUL
  /\ \A i \in 1..Len(s) : b[i] = s[i] /\ s[i] # NUL

\* tokenize in its loop: how far it has come, and what it has found up to there.
Frontier(t, s) == IF t.p = 0 THEN Len(s) + 2 ELSE t.p

\* A word that it has found: it ends before the frontier, at a \0.
Found(t, s, w) ==
  /\ w < End(s, w) /\ End(s, w) < Frontier(t, s) /\ t.b[End(s, w)] = NUL
  /\ \A i \in w..(End(s, w) - 1) : t.b[i] = s[i]

Rising(words) == \A k \in 2..Len(words) : words[k - 1] < words[k]

Looped(t, q, s) ==
  /\ t.p \in 0..(Len(s) + 2)
  /\ t.p = 0 \/ t.p = 1 \/ t.p = Len(s) + 2 \/ s[t.p - 1] \in Space
  /\ t.words \in Seq(1..Len(s)) /\ Rising(t.words)
  /\ Range(t.words) = {i \in Begins(s) : i < Frontier(t, s)}
  /\ \A w \in Range(t.words) : Found(t, s, w)
  /\ DOMAIN t.b = 1..BufSize /\ \A i \in Frontier(t, s)..BufSize : t.b[i] = q[i]

LEMMA EndIs ==
  ASSUME NEW C, NEW s \in Seq(C), NEW i \in 1..Len(s)
  PROVE  /\ End(s, i) \in i..(Len(s) + 1)
         /\ \A j \in i..(End(s, i) - 1) : s[j] \notin Space
         /\ End(s, i) <= Len(s) => s[End(s, i)] \in Space
         /\ i \in Begins(s) => i < End(s, i)
<1> DEFINE n == Len(s)
           S == {j \in i..n : s[j] \in Space}
<1>1. n \in Nat /\ i \in 1..n /\ S \in SUBSET Nat
  OBVIOUS
<1>2. End(s, i) = FirstOr(S, n + 1)
  BY DEF End
<1>3. i \in Begins(s) => s[i] \notin Space
  BY DEF Begins
<1> HIDE DEF n
<1>4. CASE S = {}
  <2>1. End(s, i) = n + 1
    BY <1>1, <1>2, <1>4, FirstIs
  <2> QED
    BY <1>1, <1>4, <2>1 DEF n
<1>5. CASE S # {}
  <2> DEFINE e == End(s, i)
  <2>1. e \in S /\ \A k \in S : e <= k
    <3> HIDE DEF S
    <3> QED
      BY <1>1, <1>2, <1>5, FirstIs
  <2> HIDE DEF e
  <2>2. e \in i..n /\ s[e] \in Space
    BY <2>1
  <2>3. ASSUME NEW j \in i..(e - 1) PROVE s[j] \notin Space
    <3>1. j \in i..n /\ ~(e <= j)
      BY <1>1, <2>2
    <3> QED
      BY <2>1, <3>1
  <2>4. i \in Begins(s) => i < e
    BY <1>1, <1>3, <2>2
  <2> QED
    BY <1>1, <2>2, <2>3, <2>4 DEF e, n
<1> QED
  BY <1>4, <1>5

\* What comes next on the line from p on: a word at w, or nothing.
Comes(s, p, w) ==
  \/ w = 0 /\ \A i \in p..Len(s) : s[i] \in Space
  \/ w \in p..Len(s) /\ s[w] \notin Space /\ \A i \in p..(w - 1) : s[i] \in Space

LEMMA SkipSpaceIs ==
  ASSUME NEW C, NEW s \in Seq(C), NEW b, NEW q, Held(q, s), NEW p \in 1..(Len(s) + 2),
         \A i \in p..BufSize : b[i] = q[i]
  PROVE  Comes(s, p, SkipSpace(b, p))
<1> DEFINE n == Len(s)
           S == {i \in p..BufSize : b[i] \notin Space}
           f == FirstOr(S, Beyond)
<1>1. n \in Nat /\ n + 2 <= BufSize /\ BufSize \in Nat /\ NUL \notin Space
  BY LineAssumption DEF Held
<1>2. \A i \in p..BufSize : i \in 1..n => b[i] = s[i] /\ s[i] # NUL
  BY DEF Held
<1>3. b[n + 2] = NUL /\ (n + 1 >= p => b[n + 1] = NUL)
  BY <1>1 DEF Held
<1>4. SkipSpace(b, p) = IF f # Beyond /\ b[f] = NUL THEN 0 ELSE f
  BY DEF SkipSpace
<1> HIDE DEF n
<1>5. p \in 1..(n + 2)
  BY DEF n
<1>6. n + 2 \in S
  BY <1>1, <1>3, <1>5
<1>7. f \in S /\ \A k \in S : f <= k
  <2>1. S \in SUBSET Nat /\ S # {}
    BY <1>1, <1>5, <1>6
  <2> HIDE DEF S
  <2> QED
    BY <2>1, FirstIs
<1> HIDE DEF f
<1>8. f \in p..(n + 2) /\ f # Beyond /\ b[f] \notin Space /\ f \in Nat
  BY <1>1, <1>5, <1>6, <1>7 DEF Beyond
<1>9. ASSUME NEW i \in p..(f - 1) PROVE b[i] \in Space
  <2>1. i \in p..BufSize /\ ~(f <= i)
    BY <1>1, <1>5, <1>8
  <2> QED
    BY <1>7, <2>1
<1>10. CASE f <= n
  <2>1. f \in 1..n /\ f \in p..BufSize
    BY <1>1, <1>5, <1>8, <1>10
  <2>2. b[f] = s[f] /\ b[f] # NUL
    BY <1>2, <2>1
  <2>3. SkipSpace(b, p) = f /\ f \in p..n /\ s[f] \notin Space
    BY <1>4, <1>5, <1>8, <1>10, <2>2
  <2>4. ASSUME NEW i \in p..(f - 1) PROVE s[i] \in Space
    <3>1. i \in 1..n /\ i \in p..BufSize
      BY <1>1, <1>5, <1>8, <2>1
    <3> QED
      BY <1>2, <1>9, <3>1
  <2> QED
    BY <2>3, <2>4 DEF n, Comes
<1>11. CASE f > n
  <2>1. f = n + 1 \/ f = n + 2
    BY <1>1, <1>5, <1>8, <1>11
  <2>2. b[f] = NUL
    BY <1>1, <1>3, <1>5, <1>8, <2>1
  <2>3. SkipSpace(b, p) = 0
    BY <1>4, <1>8, <2>2
  <2>4. ASSUME NEW i \in p..n PROVE s[i] \in Space
    <3>1. i \in 1..n /\ i \in p..BufSize /\ i \in p..(f - 1)
      BY <1>1, <1>5, <1>8, <1>11
    <3> QED
      BY <1>2, <1>9, <3>1
  <2> QED
    BY <2>3, <2>4 DEF n, Comes
<1> QED
  BY <1>1, <1>8, <1>10, <1>11

LEMMA SkipNonspaceIs ==
  ASSUME NEW C, NEW s \in Seq(C), NEW b, NEW q, Held(q, s), NEW i \in 1..Len(s),
         \A j \in i..BufSize : b[j] = q[j]
  PROVE  SkipNonspace(b, i) = End(s, i)
<1> DEFINE n == Len(s)
           S == {j \in i..BufSize : b[j] \in Space \cup {NUL}}
           e == End(s, i)
           f == FirstOr(S, Beyond)
<1>1. n \in Nat /\ n + 2 <= BufSize /\ BufSize \in Nat /\ NUL \notin Space
  BY LineAssumption DEF Held
<1>2. \A j \in i..n : b[j] = s[j] /\ s[j] # NUL
  <2> SUFFICES ASSUME NEW j \in i..n PROVE b[j] = s[j] /\ s[j] # NUL
    OBVIOUS
  <2>1. j \in i..BufSize /\ j \in 1..n
    BY <1>1
  <2> QED
    BY <2>1 DEF Held
<1>3. b[n + 1] = NUL
  <2>1. n + 1 \in i..BufSize
    BY <1>1
  <2> QED
    BY <2>1 DEF Held
<1>4. e \in i..(n + 1) /\ (\A j \in i..(e - 1) : s[j] \notin Space) /\ (e <= n => s[e] \in Space)
  BY EndIs
<1>5. i \in 1..n
  OBVIOUS
<1>6. SkipNonspace(b, i) = f
  BY DEF SkipNonspace
<1> HIDE DEF n, e
<1>7. e \in S
  <2>1. e \in i..BufSize
    BY <1>1, <1>4, <1>5
  <2>2. b[e] \in Space \cup {NUL}
    <3>1. CASE e <= n
      <4>1. e \in i..n
        BY <1>4, <1>5, <3>1
      <4> QED
        BY <1>2, <1>4, <3>1, <4>1
    <3>2. CASE ~(e <= n)
      <4>1. e = n + 1
        BY <1>1, <1>4, <1>5, <3>2
      <4> QED
        BY <1>3, <4>1
    <3> QED
      BY <3>1, <3>2
  <2> QED
    BY <2>1, <2>2
<1>8. \A k \in S : e <= k
  <2> SUFFICES ASSUME NEW k \in i..BufSize, b[k] \in Space \cup {NUL}, k < e PROVE FALSE
    BY <1>1, <1>4, <1>5
  <2>1. k \in i..n /\ k \in i..(e - 1)
    BY <1>1, <1>4, <1>5
  <2> QED
    BY <1>2, <1>4, <2>1
<1>9. f = e
  <2>1. S \in SUBSET Nat /\ S # {}
    BY <1>1, <1>5, <1>7
  <2> HIDE DEF S
  <2>2. f \in S /\ \A k \in S : f <= k
    BY <2>1, FirstIs
  <2>3. f <= e /\ e <= f /\ f \in Nat /\ e \in Nat
    BY <1>7, <1>8, <2>1, <2>2
  <2> QED
    BY <2>3
<1> QED
  BY <1>6, <1>9 DEF e

LEMMA RangeAppend ==
  ASSUME NEW C, NEW u \in Seq(C), NEW w \in C
  PROVE  /\ Range(Append(u, w)) = Range(u) \cup {w} /\ Append(u, w) \in Seq(C)
         /\ Range(u) \subseteq C
<1> DEFINE v == Append(u, w)
           n == Len(u)
<1>1. n \in Nat /\ Len(v) = n + 1 /\ v \in Seq(C) /\ DOMAIN v = 1..(n + 1) /\ DOMAIN u = 1..n
  OBVIOUS
<1>2. (\A i \in 1..n : v[i] = u[i] /\ u[i] \in C) /\ v[n + 1] = w
  OBVIOUS
<1> HIDE DEF v, n
<1>3. ASSUME NEW x PROVE x \in Range(v) <=> x \in Range(u) \cup {w}
  <2>1. x \in Range(v) <=> \E i \in 1..(n + 1) : x = v[i]
    BY <1>1 DEF Range
  <2>2. x \in Range(u) <=> \E i \in 1..n : x = u[i]
    BY <1>1 DEF Range
  <2>3. ASSUME NEW i \in 1..n PROVE i \in 1..(n + 1)
    BY <1>1
  <2>4. n + 1 \in 1..(n + 1)
    BY <1>1
  <2>5. ASSUME NEW i \in 1..(n + 1) PROVE i \in 1..n \/ i = n + 1
    BY <1>1
  <2> QED
    BY <1>2, <2>1, <2>2, <2>3, <2>4, <2>5
<1>4. Range(u) \subseteq C
  BY <1>1, <1>2 DEF Range
<1> QED
  BY <1>1, <1>3, <1>4 DEF v

LEMMA TurnFinds ==
  ASSUME NEW C, NEW s \in Seq(C), NEW q, Held(q, s), NEW t, Looped(t, q, s), t.p # 0
  PROVE  Looped(TakeWord(t), q, s)
<1> DEFINE n == Len(s)
           p == t.p
           w == SkipSpace(t.b, p)
           e == SkipNonspace(t.b, w)
           r == TakeWord(t)
           B == Begins(s)
<1>1. n \in Nat /\ n + 2 <= BufSize /\ BufSize \in Nat /\ NUL \notin Space
  BY LineAssumption DEF Held
<1>2. /\ p \in 1..(n + 2) /\ Frontier(t, s) = p
      /\ p = 1 \/ p = n + 2 \/ s[p - 1] \in Space
      /\ t.words \in Seq(1..n) /\ Rising(t.words) /\ Range(t.words) = {i \in B : i < p}
      /\ DOMAIN t.b = 1..BufSize /\ \A i \in p..BufSize : t.b[i] = q[i]
  BY DEF Looped, Frontier
<1>3. ASSUME NEW x \in Range(t.words)
      PROVE  /\ x \in B /\ x < p /\ x < End(s, x) /\ End(s, x) < p /\ t.b[End(s, x)] = NUL
             /\ \A i \in x..(End(s, x) - 1) : t.b[i] = s[i]
  BY <1>2 DEF Looped, Found
<1>4. B \subseteq 1..n
  BY DEF Begins
<1>5. ASSUME NEW x \in B PROVE End(s, x) \in x..(n + 1)
  BY <1>4, EndIs
<1>6. ASSUME NEW i \in 1..n
      PROVE  i \in B <=> s[i] \notin Space /\ (i = 1 \/ s[i - 1] \in Space)
  BY DEF Begins
<1>7. CASE w = 0 /\ \A i \in p..n : s[i] \in Space
  <2>1. r.p = 0 /\ r.words = t.words /\ r.b = t.b
    BY <1>7 DEF TakeWord
  <2> HIDE DEF r, w, p, n
  <2>2. Frontier(r, s) = n + 2
    BY <2>1 DEF Frontier, n
  <2>3. {i \in B : i < n + 2} = {i \in B : i < p}
    <3>1. ASSUME NEW i \in B PROVE i < n + 2 /\ i < p
      <4>1. i \in 1..n
        BY <1>4
      <4>2. s[i] \notin Space
        BY <1>6, <4>1
      <4> QED
        BY <1>1, <1>2, <1>7, <4>1, <4>2
    <3> QED
      BY <3>1
  <2>4. \A x \in Range(r.words) : Found(r, s, x)
    <3> SUFFICES ASSUME NEW x \in Range(t.words) PROVE Found(r, s, x)
      BY <2>1
    <3>1. x \in 1..n /\ End(s, x) \in x..(n + 1)
      BY <1>3, <1>4, <1>5
    <3>2. End(s, x) < n + 2
      BY <1>1, <3>1
    <3> QED
      BY <1>3, <2>1, <2>2, <3>2 DEF Found
  <2>5. \A i \in (n + 2)..BufSize : r.b[i] = q[i]
    BY <1>1, <1>2, <2>1
  <2>6. Looped(r, q, s)
    BY <1>1, <1>2, <2>1, <2>2, <2>3, <2>4, <2>5 DEF Looped, n
  <2> QED
    BY <2>6 DEF r
<1>8. CASE /\ w \in p..n /\ s[w] \notin Space
           /\ \A i \in p..(w - 1) : s[i] \in Space
  <2>1. w \in 1..n /\ w # 0
    BY <1>2, <1>8
  <2>2. e = End(s, w)
    <3>1. \A j \in w..BufSize : t.b[j] = q[j]
      BY <1>2, <1>8
    <3> HIDE DEF w
    <3> QED
      BY <2>1, <3>1, SkipNonspaceIs
  <2>3. r.p = e + 1 /\ r.words = Append(t.words, w) /\ r.b = [t.b EXCEPT ![e] = NUL]
    BY <2>1 DEF TakeWord
  <2> HIDE DEF r, w, p, e
  <2>4. w \in B
    <3>1. CASE w = p
      <4>1. p = 1 \/ s[p - 1] \in Space
        BY <1>2, <2>1, <3>1
      <4> QED
        BY <1>6, <1>8, <2>1, <3>1, <4>1
    <3>2. CASE w # p
      <4>1. w - 1 \in p..(w - 1)
        BY <1>2, <1>8, <3>2
      <4> QED
        BY <1>6, <1>8, <2>1, <4>1
    <3> QED
      BY <3>1, <3>2
  <2>5. /\ e \in w..(n + 1) /\ w < e /\ (\A j \in w..(e - 1) : s[j] \notin Space)
        /\ (e <= n => s[e] \in Space)
    BY <2>1, <2>2, <2>4, EndIs
  <2> HIDE DEF n, B
  <2>6. Frontier(r, s) = e + 1 /\ r.p \in 1..(n + 2)
    BY <1>1, <2>1, <2>3, <2>5 DEF Frontier
  <2>7. r.p = n + 2 \/ s[r.p - 1] \in Space
    <3>1. (e + 1) - 1 = e /\ (e <= n \/ e = n + 1)
      BY <1>1, <2>1, <2>5
    <3> QED
      BY <1>1, <2>3, <2>5, <3>1
  <2>8. r.words \in Seq(1..n) /\ Range(r.words) = Range(t.words) \cup {w}
    <3> DEFINE C0 == 1..n
               u == t.words
    <3>1. u \in Seq(C0) /\ w \in C0
      BY <1>2, <2>1
    <3> HIDE DEF C0, u
    <3>2. Range(Append(u, w)) = Range(u) \cup {w} /\ Append(u, w) \in Seq(C0)
      BY <3>1, RangeAppend
    <3> QED
      BY <2>3, <3>2 DEF u, C0
  <2>9. Range(r.words) = {i \in B : i < e + 1}
    <3>1. ASSUME NEW i \in B PROVE i < e + 1 <=> i < p \/ i = w
      <4>1. i \in 1..n /\ s[i] \notin Space /\ (i = 1 \/ s[i - 1] \in Space)
        BY <1>4, <1>6
      <4>2. CASE i < w
        <5>1. i < p
          BY <1>2, <1>8, <2>1, <4>1, <4>2
        <5> QED
          BY <2>1, <2>5, <4>1, <4>2, <5>1
      <4>3. CASE i = w
        BY <2>1, <2>5, <4>3
      <4>4. CASE i > w
        <5>1. ~(i < p)
          BY <1>2, <1>8, <2>1, <4>1, <4>4
        <5>2. ~(i < e + 1)
          <6> SUFFICES ASSUME i <= e PROVE FALSE
            BY <2>1, <2>5, <4>1
          <6>1. i - 1 \in w..(e - 1) /\ i # 1
            BY <2>1, <2>5, <4>1, <4>4
          <6> QED
            BY <2>5, <4>1, <6>1
        <5> QED
          BY <2>1, <4>1, <4>4, <5>1, <5>2
      <4> QED
        BY <2>1, <4>1, <4>2, <4>3, <4>4
    <3> QED
      BY <1>2, <2>4, <2>8, <3>1
  <2>10. DOMAIN r.b = 1..BufSize /\ r.b[e] = NUL /\ \A i \in 1..BufSize : i # e => r.b[i] = t.b[i]
    <3>1. e \in 1..BufSize
      BY <1>1, <2>1, <2>5
    <3> QED
      BY <1>2, <2>3, <3>1
  <2>11. \A i \in (e + 1)..BufSize : r.b[i] = q[i]
    <3> SUFFICES ASSUME NEW i \in (e + 1)..BufSize PROVE r.b[i] = q[i]
      OBVIOUS
    <3>1. i \in 1..BufSize /\ i # e /\ i \in p..BufSize
      BY <1>1, <1>2, <1>8, <2>1, <2>5
    <3> QED
      BY <1>2, <2>10, <3>1
  <2>12. \A x \in Range(r.words) : Found(r, s, x)
    <3>1. ASSUME NEW x \in Range(t.words) PROVE Found(r, s, x)
      <4> DEFINE z == End(s, x)
      <4>1. x \in 1..n /\ z \in x..(n + 1) /\ x < p /\ x < z /\ z < p /\ t.b[z] = NUL
            /\ \A i \in x..(z - 1) : t.b[i] = s[i]
        BY <1>3, <1>4, <1>5
      <4> HIDE DEF z
      <4>2. z < e /\ z \in 1..BufSize
        BY <1>1, <1>2, <1>8, <2>1, <2>5, <4>1
      <4>3. z < e + 1 /\ r.b[z] = NUL
        BY <2>1, <2>5, <2>10, <4>1, <4>2
      <4>4. ASSUME NEW i \in x..(z - 1) PROVE r.b[i] = s[i]
        <5>1. i \in 1..BufSize /\ i # e
          BY <1>1, <2>1, <2>5, <4>1, <4>2
        <5> QED
          BY <2>10, <4>1, <5>1
      <4> QED
        BY <2>6, <4>1, <4>3, <4>4 DEF Found, z
    <3>2. Found(r, s, w)
      <4>1. \A i \in w..(e - 1) : r.b[i] = s[i]
        <5> SUFFICES ASSUME NEW i \in w..(e - 1) PROVE r.b[i] = s[i]
          OBVIOUS
        <5>1. i \in 1..n /\ i \in 1..BufSize /\ i # e /\ i \in p..BufSize
          BY <1>1, <1>2, <1>8, <2>1, <2>5
        <5>2. q[i] = s[i]
          BY <5>1 DEF Held, n
        <5> QED
          BY <1>2, <2>10, <5>1, <5>2
      <4>2. e < e + 1
        BY <2>1, <2>5
      <4> QED
        BY <2>2, <2>5, <2>6, <2>10, <4>1, <4>2 DEF Found
    <3> QED
      BY <2>8, <3>1, <3>2
  <2>13. Rising(r.words)
    <3> DEFINE m == Len(t.words)
    <3>1. m \in Nat /\ Len(r.words) = m + 1 /\ r.words[m + 1] = w
          /\ (\A k \in 1..m : r.words[k] = t.words[k] /\ t.words[k] \in Range(t.words))
      BY <1>2, <2>3 DEF Range
    <3> HIDE DEF m
    <3>2. ASSUME NEW k \in 2..(m + 1) PROVE r.words[k - 1] < r.words[k]
      <4>1. CASE k = m + 1
        <5>1. k - 1 = m /\ m \in 1..m
          BY <3>1, <4>1
        <5>2. r.words[m] \in Range(t.words)
          BY <3>1, <5>1
        <5>3. r.words[m] < p /\ r.words[m] \in 1..n
          BY <1>3, <1>4, <5>2
        <5> QED
          BY <1>2, <1>8, <2>1, <3>1, <4>1, <5>1, <5>3
      <4>2. CASE k # m + 1
        <5>1. k \in 2..m /\ k \in 1..m /\ k - 1 \in 1..m
          BY <3>1, <4>2
        <5>2. t.words[k - 1] < t.words[k]
          BY <1>2, <5>1 DEF Rising, m
        <5> QED
          BY <3>1, <5>1, <5>2
      <4> QED
        BY <4>1, <4>2
    <3> QED
      BY <3>1, <3>2 DEF Rising
  <2>14. r.p \in 0..(n + 2)
    BY <1>1, <2>6
  <2>15. Looped(r, q, s)
    BY <2>6, <2>7, <2>8, <2>9, <2>10, <2>11, <2>12, <2>13, <2>14 DEF Looped, n, B
  <2> QED
    BY <2>15 DEF r
<1>9. (w = 0 /\ \A i \in p..n : s[i] \in Space)
      \/ (w \in p..n /\ s[w] \notin Space /\ \A i \in p..(w - 1) : s[i] \in Space)
  <2> DEFINE b == t.b
  <2>1. p \in 1..(Len(s) + 2) /\ \A i \in p..BufSize : b[i] = q[i]
    BY <1>2
  <2> HIDE DEF p, b
  <2>2. Comes(s, p, SkipSpace(b, p))
    BY <2>1, SkipSpaceIs
  <2> QED
    BY <2>2 DEF b, Comes
<1> QED
  BY <1>7, <1>8, <1>9

\* Its states on one line, V being what the buffer can hold.
States(q, s, V) ==
  {t \in [p : 0..(Len(s) + 2), words : Seq(1..Len(s)), b : [1..BufSize -> V]] : Looped(t, q, s)}
NextWord(t) == IF t.p = 0 THEN t ELSE TakeWord(t)

LEMMA TurnStays ==
  ASSUME NEW C, NEW s \in Seq(C), NEW V, NUL \in V, NEW q, Held(q, s), NEW t \in States(q, s, V)
  PROVE  NextWord(t) \in States(q, s, V)
<1> DEFINE n == Len(s)
           r == TakeWord(t)
<1>1. CASE t.p = 0
  BY <1>1 DEF NextWord
<1>2. CASE t.p # 0
  <2>1. Looped(r, q, s)
    <3>1. Looped(t, q, s)
      BY DEF States
    <3> HIDE DEF r
    <3> QED
      BY <1>2, <3>1, TurnFinds DEF r
  <2>2. t.b \in [1..BufSize -> V]
    BY DEF States
  <2>3. r = [p |-> r.p, words |-> r.words, b |-> r.b] /\ r.b \in [1..BufSize -> V]
    <3> DEFINE w == SkipSpace(t.b, t.p)
               e == SkipNonspace(t.b, w)
    <3>1. r = IF w = 0 THEN [p |-> 0, words |-> t.words, b |-> t.b]
              ELSE [p |-> e + 1, words |-> Append(t.words, w), b |-> [t.b EXCEPT ![e] = NUL]]
      BY DEF TakeWord
    <3> HIDE DEF r, w, e
    <3> QED
      BY <2>2, <3>1
  <2> HIDE DEF r
  <2>4. r.p \in 0..(n + 2) /\ r.words \in Seq(1..n)
    BY <2>1 DEF Looped
  <2>5. r \in States(q, s, V)
    BY <2>1, <2>3, <2>4 DEF States
  <2> QED
    BY <1>2, <2>5 DEF NextWord, r
<1> QED
  BY <1>1, <1>2

LEMMA TokenizedLoops ==
  ASSUME NEW C, NEW s \in Seq(C), NEW V, NUL \in V, NEW q \in [1..BufSize -> V], Held(q, s)
  PROVE  Tokenized(q) \in States(q, s, V)
<1> DEFINE n == MaxArgs - 1
           S == States(q, s, V)
           a == [p |-> 1, words |-> <<>>, b |-> q]
           F == [i \in 1..n |-> [t \in S |-> NextWord(t)]]
           Follows(f) == f = [i \in 0..n |-> IF i = 0 THEN a ELSE NextWord(f[i - 1])]
           f == CHOOSE f : Follows(f)
<1>1. n \in Nat
  BY LineAssumption
<1>2. a \in S
  <2>1. Len(s) \in Nat /\ a.p = 1 /\ a.words = <<>> /\ a.b = q
    OBVIOUS
  <2>2. Range(a.words) = {} /\ Rising(a.words)
    BY <2>1 DEF Range, Rising
  <2>3. {i \in Begins(s) : i < 1} = {} /\ Frontier(a, s) = 1
    BY <2>1 DEF Begins, Frontier
  <2>4. Looped(a, q, s)
    BY <2>1, <2>2, <2>3 DEF Looped
  <2> QED
    BY <2>1, <2>4 DEF States
<1>3. \A t \in S : NextWord(t) \in S
  BY TurnStays
<1>4. Tokenized(q) = f[n]
  BY DEF Tokenized, NextWord
<1> HIDE DEF n, S, a
<1>5. F \in [1..n -> [S -> S]]
  BY <1>3
<1>6. PICK h : Recursive(h, n, S, a, F)
  <2> HIDE DEF F
  <2> QED
    BY <1>1, <1>2, <1>5, Recursion, Zenon
<1>7. h \in [0..n -> S] /\ h[0] = a
  BY <1>6 DEF Recursive
<1>8. ASSUME NEW i \in 1..n PROVE h[i] = NextWord(h[i - 1])
  <2>1. i - 1 \in 0..n
    BY <1>1
  <2> QED
    BY <1>6, <1>7, <2>1 DEF Recursive
<1>9. Follows(h)
  BY <1>7, <1>8
<1>10. Follows(f)
  BY <1>9
<1> HIDE DEF f
<1> DEFINE T == {i \in 0..n : f[i] \in S}
<1>11. 0 \in T
  BY <1>1, <1>2, <1>10
<1>12. ASSUME NEW i \in 1..n, i - 1 \in T PROVE i \in T
  <2>1. i \in 0..n /\ i # 0
    BY <1>1, SMTT(30)
  <2>2. f[i] = NextWord(f[i - 1])
    BY <1>10, <2>1
  <2> QED
    BY <1>3, <1>12, <2>1, <2>2
<1>13. n \in T
  <2> HIDE DEF T
  <2>1. 0..n \subseteq T
    BY <1>1, <1>11, <1>12, Along
  <2> QED
    BY <1>1, <2>1
<1> QED
  BY <1>4, <1>13 DEF S

\* What the shell takes for the word at w.
ReadAt(b, w) == SubSeq(b, w, Min({i \in w..BufSize : b[i] = NUL}) - 1)

\* The words that it has found, once there are no more.
LEMMA FoundWord ==
  ASSUME NEW C, NEW s \in Seq(C), NEW V, NEW q \in [1..BufSize -> V], Held(q, s),
         NEW t \in States(q, s, V), t.p = 0, NEW w \in Range(t.words)
  PROVE  ReadAt(t.b, w) = Word(s, w)
<1> DEFINE n == Len(s)
           z == End(s, w)
           S == {i \in w..BufSize : t.b[i] = NUL}
           b == t.b
<1>1. n \in Nat /\ n + 2 <= BufSize /\ BufSize \in Nat
  BY LineAssumption DEF Held
<1>2. w \in Begins(s) /\ Found(t, s, w) /\ b \in [1..BufSize -> V]
  BY DEF States, Looped
<1>3. w \in 1..n
  BY <1>2 DEF Begins
<1>4. z \in w..(n + 1)
  BY <1>3, EndIs
<1>5. b[z] = NUL /\ \A i \in w..(z - 1) : b[i] = s[i]
  BY <1>2 DEF Found
<1>6. \A i \in 1..n : s[i] # NUL
  BY DEF Held
<1>7. Word(s, w) = SubSeq(s, w, z - 1)
  BY DEF Word
<1> HIDE DEF z, n
<1>8. z \in S /\ \A k \in S : z <= k
  <2>1. z \in w..BufSize
    BY <1>1, <1>3, <1>4
  <2>2. ASSUME NEW k \in w..BufSize, b[k] = NUL PROVE z <= k
    <3> SUFFICES ASSUME k < z PROVE FALSE
      BY <1>3, <1>4
    <3>1. k \in w..(z - 1) /\ k \in 1..n
      BY <1>1, <1>3, <1>4
    <3> QED
      BY <1>5, <1>6, <2>2, <3>1
  <2> QED
    BY <1>5, <2>1, <2>2
<1>9. Min(S) = z
  <2>1. S \in SUBSET Nat /\ S # {}
    BY <1>3, <1>8
  <2> DEFINE m == Min(S)
  <2> HIDE DEF S
  <2>2. m \in S /\ \A k \in S : m <= k
    BY <2>1, SmallestIs
  <2> HIDE DEF m
  <2>3. m <= z /\ z <= m /\ m \in Nat /\ z \in Nat
    BY <1>8, <2>1, <2>2
  <2>4. m = z
    BY <2>3
  <2> QED
    BY <2>4 DEF m
<1>10. b \in Seq(V) /\ Len(b) = BufSize
  BY <1>1, <1>2
<1> HIDE DEF b, S
<1>11. SubSeq(b, w, z - 1) = SubSeq(s, w, z - 1)
  <2> DEFINE m == z - 1
             x == SubSeq(b, w, m)
             y == SubSeq(s, w, m)
  <2>1. w \in Int /\ m \in Int
    BY <1>3, <1>4
  <2>2. \A i \in w..m : b[i] \in V /\ s[i] \in V /\ b[i] = s[i]
    BY <1>1, <1>2, <1>3, <1>4, <1>5
  <2> HIDE DEF m, b
  <2>3. /\ x \in Seq(V) /\ Len(x) = IF w <= m THEN m - w + 1 ELSE 0
        /\ \A i \in 1..(m - w + 1) : x[i] = b[w + i - 1]
    BY <2>1, <2>2, SubSeqProperties
  <2>4. /\ y \in Seq(V) /\ Len(y) = IF w <= m THEN m - w + 1 ELSE 0
        /\ \A i \in 1..(m - w + 1) : y[i] = s[w + i - 1]
    BY <2>1, <2>2, SubSeqProperties
  <2> HIDE DEF x, y
  <2>5. Len(x) = Len(y)
    BY <2>3, <2>4
  <2>6. ASSUME NEW i \in 1..Len(x) PROVE x[i] = y[i]
    <3>1. i \in 1..(m - w + 1) /\ w + i - 1 \in w..m
      BY <2>1, <2>3
    <3> QED
      BY <2>2, <2>3, <2>4, <3>1
  <2>7. x = y
    BY <2>3, <2>4, <2>5, <2>6, SeqEqual
  <2> QED
    BY <2>7 DEF x, y, m
<1> QED
  BY <1>7, <1>9, <1>11 DEF b, S, ReadAt

\* Characters that a buffer can hold.
Kept == Keys \cup {NUL, "old"}

LineInv ==
  /\ typed \in Seq(Keys) /\ got \in Seq(Keys) /\ buf \in [1..BufSize -> Kept]
  /\ spc \in {"fgets", "strip", "tokenize", "run", "panic"}
  /\ spc \in {"strip", "tokenize"} => Len(got) \in 1..(BufSize - 1) /\ buf[Len(got) + 1] = NUL
  /\ spc = "strip" => \A i \in 1..Len(got) : buf[i] = got[i]
  /\ spc = "tokenize" => buf[Len(got)] = NUL /\ \A i \in 1..(Len(got) - 1) : buf[i] = got[i]
  /\ ArgvIsTheLine

LEMMA LineStarts == LineInit => LineInv
<1>1. <<>> \in Seq(Keys)
  OBVIOUS
<1> QED
  BY <1>1 DEF LineInit, LineInv, Kept, ArgvIsTheLine

LEMMA TypeKeeps == LineInv /\ Type => LineInv'
<1> SUFFICES ASSUME LineInv, NEW t \in Typed, NEW end \in {<<LF>>, <<>>}, typed' = t \o end,
                    spc = "fgets", UNCHANGED <<buf, got, argv, spc>>
             PROVE  LineInv'
  BY DEF Type
<1>1. LF \in Keys
  BY DEF Keys
<1>2. t \in Seq(Keys) /\ <<>> \in Seq(Keys) /\ <<LF>> \in Seq(Keys)
  BY <1>1, LineAssumption
<1>3. typed' \in Seq(Keys)
  <2>1. end \in Seq(Keys) /\ typed' = t \o end
    BY <1>2
  <2>2. ASSUME NEW x \in Seq(Keys), NEW y \in Seq(Keys) PROVE x \o y \in Seq(Keys)
    BY ConcatProperties
  <2> QED
    BY <1>2, <2>1, <2>2
<1> QED
  BY <1>3 DEF LineInv, ArgvIsTheLine, WordAt

LEMMA FgetsKeeps == LineInv /\ Fgets => LineInv'
<1> SUFFICES ASSUME LineInv, Fgets PROVE LineInv'
  OBVIOUS
<1> DEFINE n == Len(typed)
           k == Min({n, BufSize - 1})
<1>1. n \in Nat /\ n >= 1 /\ typed \in Seq(Keys) /\ got \in Seq(Keys) /\ buf \in [1..BufSize -> Kept]
      /\ BufSize \in Nat /\ BufSize > 2
  BY LineAssumption DEF LineInv, Fgets
<1>2. \A i \in 1..n : typed[i] \in Keys
  BY <1>1
<1>3. /\ got' = SubSeq(typed, 1, k) /\ typed' = SubSeq(typed, k + 1, n)
      /\ buf' = [i \in 1..BufSize |-> IF i <= k THEN typed[i] ELSE IF i = k + 1 THEN NUL ELSE buf[i]]
      /\ spc' = "strip"
  BY DEF Fgets
<1>4. k \in 1..n /\ k \in 1..(BufSize - 1)
  <2> DEFINE S == {n, BufSize - 1}
  <2>1. S \in SUBSET Nat /\ S # {}
    BY <1>1
  <2> HIDE DEF n
  <2>2. k \in S /\ \A i \in S : k <= i
    <3> HIDE DEF S
    <3>1. Min(S) \in S /\ \A i \in S : Min(S) <= i
      BY <2>1, SmallestIs
    <3> QED
      BY <3>1 DEF S
  <2> HIDE DEF k
  <2>3. k <= n /\ k <= BufSize - 1 /\ (k = n \/ k = BufSize - 1)
    BY <2>2
  <2> QED
    BY <1>1, <2>3
<1> HIDE DEF n, k
<1>5. got' \in Seq(Keys) /\ Len(got') = k /\ \A i \in 1..k : got'[i] = typed[i]
  <2>1. \A i \in 1..k : typed[i] \in Keys
    BY <1>1, <1>2, <1>4
  <2>2. k - 1 + 1 = k /\ 1 \in Int /\ k \in Int /\ 1 <= k
    BY <1>4
  <2> DEFINE x == SubSeq(typed, 1, k)
  <2>3. /\ x \in Seq(Keys) /\ Len(x) = IF 1 <= k THEN k - 1 + 1 ELSE 0
        /\ \A i \in 1..(k - 1 + 1) : x[i] = typed[1 + i - 1]
    BY <2>1, <2>2, SubSeqProperties
  <2> HIDE DEF x
  <2>4. \A i \in 1..k : x[i] = typed[i]
    BY <2>2, <2>3
  <2> QED
    BY <1>3, <2>2, <2>3, <2>4 DEF x
<1>6. typed' \in Seq(Keys)
  <2>1. \A i \in (k + 1)..n : typed[i] \in Keys
    BY <1>1, <1>2, <1>4
  <2>2. k + 1 \in Int /\ n \in Int
    BY <1>1, <1>4
  <2> QED
    BY <1>3, <2>1, <2>2, SubSeqProperties
<1>7. buf' \in [1..BufSize -> Kept]
  <2>1. \A i \in 1..BufSize : (IF i <= k THEN typed[i] ELSE IF i = k + 1 THEN NUL ELSE buf[i]) \in Kept
    BY <1>1, <1>2, <1>4 DEF Kept
  <2> QED
    BY <1>3, <2>1
<1>8. (\A i \in 1..k : buf'[i] = got'[i]) /\ buf'[k + 1] = NUL
  BY <1>1, <1>3, <1>4, <1>5
<1>9. k + 1 \in 1..BufSize
  BY <1>1, <1>4
<1> QED
  BY <1>3, <1>4, <1>5, <1>6, <1>7, <1>8 DEF LineInv, ArgvIsTheLine

LEMMA StripKeeps == LineInv /\ Strip => LineInv'
<1> SUFFICES ASSUME LineInv, Strip PROVE LineInv'
  OBVIOUS
<1> DEFINE n == Len(got)
<1>1. /\ n \in 1..(BufSize - 1) /\ buf[n + 1] = NUL /\ buf \in [1..BufSize -> Kept] /\ BufSize \in Nat
      /\ \A i \in 1..n : buf[i] = got[i]
  BY LineAssumption DEF LineInv, Strip
<1>2. buf' = [buf EXCEPT ![n] = NUL] /\ spc' = "tokenize" /\ UNCHANGED <<typed, got, argv>>
  BY DEF Strip
<1> HIDE DEF n
<1>3. buf' \in [1..BufSize -> Kept]
  BY <1>1, <1>2 DEF Kept
<1>4. n \in 1..BufSize /\ n + 1 \in 1..BufSize
  BY <1>1
<1>5. buf'[n] = NUL /\ buf'[n + 1] = NUL
  BY <1>1, <1>2, <1>4
<1>6. \A i \in 1..(n - 1) : buf'[i] = got[i]
  BY <1>1, <1>2
<1> QED
  BY <1>1, <1>2, <1>3, <1>5, <1>6 DEF LineInv, ArgvIsTheLine, n

LEMMA TokenizeKeeps == LineInv /\ Tokenize => LineInv'
<1> SUFFICES ASSUME LineInv, Tokenize PROVE LineInv'
  OBVIOUS
<1> DEFINE n == Len(got) - 1
           s == SubSeq(got, 1, n)
           t == Tokenized(buf)
<1>1. /\ n + 1 \in 1..(BufSize - 1) /\ buf[n + 2] = NUL /\ buf[n + 1] = NUL
      /\ buf \in [1..BufSize -> Kept] /\ got \in Seq(Keys) /\ typed \in Seq(Keys)
      /\ BufSize \in Nat /\ Len(got) = n + 1 /\ n \in Nat
      /\ \A i \in 1..n : buf[i] = got[i]
  <2> DEFINE m == Len(got)
  <2>1. /\ m \in 1..(BufSize - 1) /\ buf[m + 1] = NUL /\ buf[m] = NUL /\ BufSize \in Nat /\ m \in Nat
        /\ \A i \in 1..(m - 1) : buf[i] = got[i]
    BY LineAssumption DEF LineInv, Tokenize
  <2>2. (m - 1) + 2 = m + 1 /\ (m - 1) + 1 = m /\ m - 1 \in Nat
    BY <2>1
  <2>3. buf \in [1..BufSize -> Kept] /\ got \in Seq(Keys) /\ typed \in Seq(Keys)
    BY DEF LineInv
  <2> QED
    BY <2>1, <2>2, <2>3
<1>2. argv' = t.words /\ buf' = t.b /\ spc' = (IF t.p = 0 THEN "run" ELSE "panic") /\ UNCHANGED <<typed, got>>
  BY DEF Tokenize
<1>3. \A i \in 1..n : got[i] \in Keys /\ got[i] # NUL
  <2> SUFFICES ASSUME NEW i \in 1..n PROVE got[i] \in Keys /\ got[i] # NUL
    OBVIOUS
  <2> HIDE DEF n
  <2>1. i \in 1..Len(got)
    BY <1>1
  <2> QED
    BY <1>1, <2>1, LineAssumption
<1> HIDE DEF n, t
<1>4. s \in Seq(Keys) /\ Len(s) = n /\ \A i \in 1..n : s[i] = got[i]
  <2>1. 1 \in Int /\ n \in Int /\ n - 1 + 1 = n /\ (IF 1 <= n THEN n ELSE 0) = n
    BY <1>1
  <2>2. /\ s \in Seq(Keys) /\ Len(s) = IF 1 <= n THEN n - 1 + 1 ELSE 0
        /\ \A i \in 1..(n - 1 + 1) : s[i] = got[1 + i - 1]
    BY <1>3, <2>1, SubSeqProperties
  <2> HIDE DEF s
  <2> QED
    BY <2>1, <2>2
<1> HIDE DEF s
<1>5. Held(buf, s)
  BY <1>1, <1>3, <1>4 DEF Held
<1>6. t \in States(buf, s, Kept)
  <2>1. NUL \in Kept
    BY DEF Kept
  <2> QED
    BY <1>1, <1>4, <1>5, <2>1, TokenizedLoops DEF t
<1>7. buf' \in [1..BufSize -> Kept]
  BY <1>2, <1>6 DEF States
<1>8. CASE t.p # 0
  BY <1>1, <1>2, <1>7, <1>8 DEF LineInv, ArgvIsTheLine
<1>9. CASE t.p = 0
  <2>1. Looped(t, buf, s)
    BY <1>6 DEF States
  <2>2. Range(t.words) = Begins(s) /\ Rising(t.words) /\ t.words \in Seq(1..n)
    <3>1. \A i \in Begins(s) : i < n + 2
      BY <1>1, <1>4 DEF Begins
    <3> QED
      BY <1>4, <1>9, <2>1, <3>1 DEF Looped, Frontier
  <2>3. ASSUME NEW k \in 1..Len(t.words)
        PROVE  SubSeq(t.b, t.words[k], Min({i \in t.words[k]..BufSize : t.b[i] = NUL}) - 1) = Word(s, t.words[k])
    <3>1. t.words[k] \in Range(t.words)
      BY <2>2 DEF Range
    <3> DEFINE w == t.words[k]
    <3> HIDE DEF w
    <3>2. w \in Range(t.words)
      BY <3>1 DEF w
    <3>3. buf \in [1..BufSize -> Kept]
      BY <1>1
    <3>4. ReadAt(t.b, w) = Word(s, w)
      BY <1>4, <1>5, <1>6, <1>9, <3>2, <3>3, FoundWord
    <3> QED
      BY <3>4 DEF w, ReadAt
  <2>4. ASSUME NEW k \in 1..Len(t.words), k > 1 PROVE t.words[k - 1] < t.words[k]
    BY <2>2, <2>4 DEF Rising
  <2>5. SubSeq(got, 1, Len(got) - 1) = s
    <3>1. Len(got) - 1 = n
      BY <1>1
    <3> QED
      BY <3>1 DEF s
  <2>6. ArgvIsTheLine'
    BY <1>2, <2>2, <2>3, <2>4, <2>5 DEF ArgvIsTheLine, WordAt
  <2>7. spc' = "run"
    BY <1>2, <1>9
  <2> QED
    BY <1>1, <1>2, <1>7, <2>6, <2>7 DEF LineInv
<1> QED
  BY <1>8, <1>9

LEMMA LineStep == LineInv /\ [LineNext]_lineVars => LineInv'
<1>1. LineInv /\ Prompt => LineInv'
  BY DEF Prompt, LineInv, ArgvIsTheLine
<1>2. LineInv /\ UNCHANGED lineVars => LineInv'
  BY DEF lineVars, LineInv, ArgvIsTheLine, WordAt
<1> QED
  BY <1>1, <1>2, TypeKeeps, FgetsKeeps, StripKeeps, TokenizeKeeps DEF LineNext
-----------------------------------------------------------------------------
(* The watchers of the exit string.                                        *)
LEMMA ExitIs ==
  /\ Len(Exit) \in Nat \ {0} /\ \A i \in 1..Len(Exit) : Exit[i] # NUL
  /\ \A i \in 1..(Len(Exit) - 1) : Exit[i] # LF
<1>1. Exit \in Seq(Range(Exit)) /\ Exit # <<>>
  BY WatchAssumption
<1>2. Len(Exit) \in Nat \ {0}
  BY <1>1, EmptySeq
<1>3. ASSUME NEW i \in 1..Len(Exit) PROVE Exit[i] # NUL
  <2>1. i \in DOMAIN Exit
    BY <1>1
  <2>2. Exit[i] \in Range(Exit)
    BY <2>1 DEF Range
  <2> QED
    BY <2>2, WatchAssumption
<1> QED
  BY <1>2, <1>3, WatchAssumption

\* The watcher, character by character.
Heed(p, c) == IF p = Len(Exit) THEN p ELSE FsmChrDone(Exit, p, c)

Watches(h, text) ==
  /\ h \in [0..Len(text) -> 0..Len(Exit)] /\ h[0] = 0
  /\ \A i \in 1..Len(text) : h[i] = Heed(h[i - 1], text[i])
  /\ EchoUntil(Exit, text) = FirstOr({i \in 1..Len(text) : h[i] = Len(Exit)}, 0)

LEMMA WatcherRuns ==
  ASSUME NEW C, NEW text \in Seq(C)
  PROVE  \E h : Watches(h, text)
<1> DEFINE n == Len(text)
           X == Len(Exit)
           F == [i \in 1..n |-> [p \in 0..X |-> Heed(p, text[i])]]
           Follows(f) == f = [i \in 0..n |-> IF i = 0 THEN 0 ELSE IF f[i - 1] = X THEN X
                                             ELSE FsmChrDone(Exit, f[i - 1], text[i])]
           f == CHOOSE f : Follows(f)
<1>1. n \in Nat /\ X \in Nat \ {0}
  BY ExitIs
<1>2. ASSUME NEW p \in 0..X, NEW c PROVE Heed(p, c) \in 0..X
  BY <1>1 DEF Heed, FsmChrDone
<1>3. EchoUntil(Exit, text) = FirstOr({i \in 1..n : f[i] = X}, 0)
  BY DEF EchoUntil
<1> HIDE DEF n, X
<1>4. F \in [1..n -> [0..X -> 0..X]] /\ 0 \in 0..X
  BY <1>1, <1>2
<1>5. PICK h : Recursive(h, n, 0..X, 0, F)
  <2> DEFINE S == 0..X
  <2> HIDE DEF F, S
  <2>1. F \in [1..n -> [S -> S]] /\ 0 \in S
    BY <1>4 DEF S
  <2>2. \E h : Recursive(h, n, S, 0, F)
    BY <1>1, <2>1, Recursion, Zenon
  <2> QED
    BY <2>2 DEF S
<1>6. h \in [0..n -> 0..X] /\ h[0] = 0
  BY <1>5 DEF Recursive
<1>7. ASSUME NEW i \in 1..n PROVE h[i] = Heed(h[i - 1], text[i])
  <2>1. i - 1 \in 0..n
    BY <1>1
  <2> QED
    BY <1>5, <1>6, <2>1 DEF Recursive
<1>8. ASSUME NEW i \in 0..n PROVE h[i] = IF i = 0 THEN 0 ELSE IF h[i - 1] = X THEN X ELSE FsmChrDone(Exit, h[i - 1], text[i])
  <2>1. CASE i = 0
    BY <1>6, <2>1
  <2>2. CASE i # 0
    <3>1. i \in 1..n
      BY <1>1, <2>2
    <3> QED
      BY <1>7, <2>2, <3>1 DEF Heed, X
  <2> QED
    BY <2>1, <2>2
<1>9. Follows(h)
  BY <1>6, <1>8
<1>10. Follows(f)
  BY <1>9
<1> HIDE DEF f
<1> DEFINE T == {i \in 0..n : f[i] = h[i]}
<1>11. 0 \in T
  BY <1>1, <1>6, <1>10
<1>12. ASSUME NEW i \in 1..n, i - 1 \in T PROVE i \in T
  <2>1. i \in 0..n /\ i # 0
    BY <1>1
  <2>2. f[i] = IF f[i - 1] = X THEN X ELSE FsmChrDone(Exit, f[i - 1], text[i])
    BY <1>10, <2>1
  <2>3. h[i] = IF h[i - 1] = X THEN X ELSE FsmChrDone(Exit, h[i - 1], text[i])
    BY <1>8, <2>1
  <2> QED
    BY <1>12, <2>1, <2>2, <2>3
<1>13. 0..n \subseteq T
  <2> HIDE DEF T
  <2> QED
    BY <1>1, <1>11, <1>12, Along
<1>14. {i \in 1..n : f[i] = X} = {i \in 1..n : h[i] = X}
  <2>1. ASSUME NEW i \in 1..n PROVE f[i] = h[i]
    <3>1. i \in 0..n
      BY <1>1
    <3> QED
      BY <1>13, <3>1
  <2> QED
    BY <2>1
<1> QED
  BY <1>3, <1>6, <1>7, <1>14 DEF Watches, n, X

\* Once it has seen the string it stays there.
LEMMA WatcherStays ==
  ASSUME NEW C, NEW text \in Seq(C), NEW h, Watches(h, text),
         NEW a \in 0..Len(text), h[a] = Len(Exit), NEW b \in a..Len(text)
  PROVE  h[b] = Len(Exit)
<1> DEFINE m == b - a
           T == {j \in 0..m : h[a + j] = Len(Exit)}
           n == Len(text)
<1>1. n \in Nat /\ a \in 0..n /\ b \in a..n /\ m \in Nat /\ a + m = b
  OBVIOUS
<1>2. 0 \in T
  BY <1>1
<1>3. ASSUME NEW j \in 1..m, j - 1 \in T PROVE j \in T
  <2>1. a + j \in 1..n /\ (a + j) - 1 = a + (j - 1) /\ j \in 0..m
    BY <1>1
  <2>2. h[a + j] = Heed(h[a + (j - 1)], text[a + j])
    BY <2>1 DEF Watches
  <2> QED
    BY <1>3, <2>1, <2>2 DEF Heed
<1>4. 0..m \subseteq T
  <2> HIDE DEF T, m
  <2> QED
    BY <1>1, <1>2, <1>3, Along
<1>5. m \in 0..m
  BY <1>1
<1> QED
  BY <1>1, <1>4, <1>5

\* What it has seen is the beginning of the string.
LEMMA WatcherSees ==
  ASSUME NEW C, NEW text \in Seq(C), NEW h, Watches(h, text),
         NEW u \in 1..Len(text), h[u] = Len(Exit), \A i \in 1..(u - 1) : h[i] # Len(Exit)
  PROVE  Len(Exit) <= u /\ SubSeq(text, u - Len(Exit) + 1, u) = Exit
<1> DEFINE n == Len(text)
           X == Len(Exit)
           Matched(i) == h[i] <= i /\ \A k \in 1..h[i] : text[i - h[i] + k] = Exit[k]
           T == {i \in 0..u : Matched(i)}
<1>1. n \in Nat /\ X \in Nat \ {0} /\ u \in 1..n /\ u \in Nat
  BY ExitIs
<1>2. h \in [0..n -> 0..X] /\ h[0] = 0
  BY DEF Watches
<1>3. \A i \in 1..n : h[i] = Heed(h[i - 1], text[i])
  BY DEF Watches
<1>4. \A i \in 1..(u - 1) : h[i] # X
  OBVIOUS
<1>5. h[u] = X
  OBVIOUS
<1>6. Exit \in Seq(Range(Exit)) /\ text \in Seq(C)
  BY WatchAssumption
<1> HIDE DEF n, X
<1>7. 0 \in T
  BY <1>1, <1>2
<1>8. ASSUME NEW i \in 1..u, i - 1 \in T PROVE i \in T
  <2> DEFINE p == h[i - 1]
  <2>1. i \in 1..n /\ i \in 0..u /\ i - 1 \in 0..n /\ p \in 0..X
    BY <1>1, <1>2
  <2>2. p # X
    <3>1. CASE i = 1
      BY <1>1, <1>2, <3>1
    <3>2. CASE i # 1
      <4>1. i - 1 \in 1..(u - 1)
        BY <1>1, <3>2
      <4> QED
        BY <1>4, <4>1
    <3> QED
      BY <3>1, <3>2
  <2>3. h[i] = IF text[i] # Exit[p + 1] THEN 0 ELSE p + 1
    BY <1>3, <2>1, <2>2 DEF Heed, FsmChrDone, X
  <2>4. p <= i - 1 /\ \A k \in 1..p : text[(i - 1) - p + k] = Exit[k]
    BY <1>8
  <2> HIDE DEF p
  <2>5. CASE text[i] # Exit[p + 1]
    BY <2>1, <2>3, <2>5
  <2>6. CASE text[i] = Exit[p + 1]
    <3>1. h[i] = p + 1 /\ p + 1 <= i
      BY <2>1, <2>3, <2>4, <2>6
    <3>2. ASSUME NEW k \in 1..(p + 1) PROVE text[i - (p + 1) + k] = Exit[k]
      <4>1. CASE k = p + 1
        <5>1. i - (p + 1) + k = i
          BY <2>1, <4>1
        <5> QED
          BY <2>6, <4>1, <5>1
      <4>2. CASE k # p + 1
        <5>1. k \in 1..p /\ i - (p + 1) + k = (i - 1) - p + k
          BY <2>1, <4>2
        <5> QED
          BY <2>4, <5>1
      <4> QED
        BY <4>1, <4>2
    <3> QED
      BY <2>1, <3>1, <3>2
  <2> QED
    BY <2>5, <2>6
<1>9. Matched(u)
  <2>1. 0..u \subseteq T
    <3> HIDE DEF T
    <3> QED
      BY <1>1, <1>7, <1>8, Along
  <2>2. u \in 0..u
    BY <1>1
  <2> QED
    BY <2>1, <2>2
<1>10. X <= u /\ \A k \in 1..X : text[u - X + k] = Exit[k]
  BY <1>5, <1>9
<1>11. SubSeq(text, u - X + 1, u) = Exit
  <2> DEFINE a == u - X + 1
             R == Range(Exit)
             y == SubSeq(text, a, u)
  <2>1. a \in Int /\ u \in Int /\ a <= u /\ u - a + 1 = X
    BY <1>1, <1>10
  <2>2. ASSUME NEW i \in a..u PROVE text[i] \in R
    <3>1. i - a + 1 \in 1..X /\ u - X + (i - a + 1) = i
      BY <1>1, <1>10
    <3>2. Exit[i - a + 1] \in R
      BY <1>6, <3>1 DEF X, Range
    <3> QED
      BY <1>10, <3>1, <3>2
  <2> HIDE DEF a, R
  <2>3. /\ y \in Seq(R) /\ Len(y) = IF a <= u THEN u - a + 1 ELSE 0
        /\ \A i \in 1..(u - a + 1) : y[i] = text[a + i - 1]
    BY <2>1, <2>2, SubSeqProperties
  <2> HIDE DEF y
  <2>4. Len(y) = Len(Exit)
    BY <2>1, <2>3 DEF X
  <2>5. ASSUME NEW i \in 1..Len(y) PROVE y[i] = Exit[i]
    <3>1. i \in 1..X /\ a + i - 1 = u - X + i /\ i \in 1..(u - a + 1)
      BY <1>1, <2>1, <2>3 DEF a
    <3> QED
      BY <1>10, <2>3, <3>1
  <2>6. y = Exit
    <3>1. Exit \in Seq(R)
      BY <1>6 DEF R
    <3> QED
      BY <2>3, <2>4, <2>5, <3>1, SeqEqual
  <2> QED
    BY <2>6 DEF y, a
<1> QED
  BY <1>10, <1>11 DEF X

\* And it misses no line that is the string: a line begins where it has matched nothing.
LEMMA WatcherMisses ==
  ASSUME NEW C, NEW text \in Seq(C), NEW h, Watches(h, text),
         NEW i \in 0..(Len(text) - Len(Exit)), i = 0 \/ text[i] = LF,
         SubSeq(text, i + 1, i + Len(Exit)) = Exit
  PROVE  \E u \in 1..Len(text) : h[u] = Len(Exit)
<1> SUFFICES ASSUME \A u \in 1..Len(text) : h[u] # Len(Exit) PROVE FALSE
  OBVIOUS
<1> DEFINE n == Len(text)
           X == Len(Exit)
           T == {k \in 0..X : h[i + k] = k}
<1>1. n \in Nat /\ X \in Nat \ {0} /\ i \in 0..(n - X) /\ i \in Nat
  BY ExitIs
<1>2. h \in [0..n -> 0..X] /\ h[0] = 0 /\ \A j \in 1..n : h[j] = Heed(h[j - 1], text[j])
  BY DEF Watches
<1>3. \A u \in 1..n : h[u] # X
  OBVIOUS
<1>4. text \in Seq(C) /\ (\A j \in 1..(X - 1) : Exit[j] # LF)
  BY ExitIs
<1> HIDE DEF X
<1>5. \A j \in 1..X : text[i + j] = Exit[j]
  <2> DEFINE a == i + 1
             b == i + X
             y == SubSeq(text, a, b)
  <2>1. a \in Int /\ b \in Int /\ b - a + 1 = X
    BY <1>1
  <2>2. \A k \in a..b : text[k] \in C
    BY <1>1, <1>4
  <2> HIDE DEF a, b
  <2>3. \A k \in 1..(b - a + 1) : y[k] = text[a + k - 1]
    BY <2>1, <2>2, SubSeqProperties
  <2>4. y = Exit
    BY DEF a, b, X
  <2> HIDE DEF y
  <2>5. ASSUME NEW j \in 1..X PROVE text[i + j] = Exit[j]
    <3>1. a + j - 1 = i + j /\ j \in 1..(b - a + 1)
      BY <1>1, <2>1 DEF a
    <3> QED
      BY <2>3, <2>4, <3>1
  <2> QED
    BY <2>5
<1> HIDE DEF n
<1>6. \A j \in 0..n : h[j] # X
  BY <1>1, <1>2, <1>3
<1>7. 0 \in T
  <2>1. CASE i = 0
    BY <1>1, <1>2, <2>1
  <2>2. CASE i # 0
    <3> DEFINE p == h[i - 1]
    <3>1. i \in 1..n /\ i - 1 \in 0..n /\ i \in 0..n /\ text[i] = LF
      BY <1>1, <2>2
    <3>2. p \in 0..X /\ p # X /\ h[i] = IF text[i] # Exit[p + 1] THEN 0 ELSE p + 1
      BY <1>1, <1>2, <1>6, <3>1 DEF Heed, FsmChrDone, X
    <3> HIDE DEF p
    <3>3. h[i] = 0
      <4> SUFFICES ASSUME Exit[p + 1] = LF PROVE FALSE
        BY <3>1, <3>2
      <4>1. p + 1 = X
        BY <1>1, <1>4, <3>2
      <4>2. h[i] = X
        BY <3>1, <3>2, <4>1
      <4> QED
        BY <1>6, <3>1, <4>2
    <3> QED
      BY <1>1, <3>3
  <2> QED
    BY <2>1, <2>2
<1>8. ASSUME NEW k \in 1..X, k - 1 \in T PROVE k \in T
  <2>1. i + k \in 1..n /\ i + k - 1 = i + (k - 1) /\ i + (k - 1) \in 0..n
    BY <1>1
  <2>2. h[i + (k - 1)] = k - 1 /\ k - 1 # X /\ (k - 1) + 1 = k
    BY <1>1, <1>8
  <2>3. h[i + k] = Heed(h[i + (k - 1)], text[i + k]) /\ text[i + k] = Exit[k]
    BY <1>2, <1>5, <2>1
  <2>4. h[i + k] = k
    BY <2>2, <2>3 DEF Heed, FsmChrDone, X
  <2> QED
    BY <2>4
<1>9. X \in T
  <2> HIDE DEF T
  <2>1. 0..X \subseteq T
    BY <1>1, <1>7, <1>8, Along
  <2> QED
    BY <1>1, <2>1
<1>10. i + X \in 0..n
  BY <1>1
<1> QED
  BY <1>6, <1>9, <1>10

\* done() goes the same way, in pieces.
Matching(p) == [pos |-> p, seen |-> p = Len(Exit), stop |-> FALSE]

LEMMA MatchIs ==
  ASSUME NEW p \in 0..Len(Exit), NEW c, c # NUL
  PROVE  Log!MatchChar(Matching(p), c) = Matching(Heed(p, c))
<1>1. Len(Exit) \in Nat \ {0}
  BY ExitIs
<1>2. CASE p = Len(Exit)
  BY <1>2 DEF Log!MatchChar, Matching, Heed
<1>3. CASE p # Len(Exit)
  <2>1. Matching(p) = [pos |-> p, seen |-> FALSE, stop |-> FALSE]
    BY <1>3 DEF Matching
  <2>2. CASE c # Exit[p + 1]
    BY <1>1, <1>3, <2>1, <2>2 DEF Log!MatchChar, Matching, Heed, FsmChrDone
  <2>3. CASE c = Exit[p + 1]
    BY <1>1, <1>3, <2>1, <2>3 DEF Log!MatchChar, Matching, Heed, FsmChrDone
  <2> QED
    BY <2>2, <2>3
<1> QED
  BY <1>2, <1>3

LEMMA ScanIs ==
  ASSUME NEW C, NEW text \in Seq(C), NUL \notin C, NEW h, Watches(h, text),
         NEW a \in 0..Len(text), NEW b \in a..Len(text)
  PROVE  Log!Scan(Matching(h[a]), SubSeq(text, a + 1, b)) = Matching(h[b])
<1> DEFINE n == Len(text)
           m == b - a
           y == SubSeq(text, a + 1, b)
           Once(s, c) == CHOOSE e \in {Log!MatchChar(p, c) : p \in {s}} : TRUE
           Follows(f) == f = [i \in 0..Len(y) |-> IF i = 0 THEN Matching(h[a]) ELSE Once(f[i - 1], y[i])]
           f == CHOOSE f : Follows(f)
           g == [i \in 0..m |-> Matching(h[a + i])]
           T == {i \in 0..m : f[i] = g[i]}
<1>1. n \in Nat /\ a \in 0..n /\ b \in a..n /\ m \in Nat /\ a + m = b
  OBVIOUS
<1>2. h \in [0..n -> 0..Len(Exit)] /\ \A j \in 1..n : h[j] = Heed(h[j - 1], text[j])
  BY DEF Watches
<1>3. Len(y) = m /\ \A i \in 1..m : y[i] = text[a + i] /\ text[a + i] \in C
  <2>1. a + 1 \in Int /\ b \in Int /\ b - (a + 1) + 1 = m /\ \A i \in (a + 1)..b : text[i] \in C
    OBVIOUS
  <2>2. /\ Len(y) = IF a + 1 <= b THEN b - (a + 1) + 1 ELSE 0
        /\ \A i \in 1..(b - (a + 1) + 1) : y[i] = text[(a + 1) + i - 1]
    BY <2>1, SubSeqProperties
  <2> HIDE DEF y, n
  <2>3. Len(y) = m
    BY <1>1, <2>1, <2>2
  <2>4. ASSUME NEW i \in 1..m PROVE y[i] = text[a + i] /\ text[a + i] \in C
    <3>1. (a + 1) + i - 1 = a + i /\ i \in 1..(b - (a + 1) + 1) /\ a + i \in (a + 1)..b
      BY <1>1, <2>1
    <3> QED
      BY <2>1, <2>2, <3>1
  <2> QED
    BY <2>3, <2>4
<1>4. Log!Scan(Matching(h[a]), y) = f[Len(y)]
  BY DEF Log!Scan
<1>5. \A s, c : Once(s, c) = Log!MatchChar(s, c)
  <2> SUFFICES ASSUME NEW s, NEW c PROVE Once(s, c) = Log!MatchChar(s, c)
    OBVIOUS
  <2>1. {Log!MatchChar(p, c) : p \in {s}} = {Log!MatchChar(s, c)}
    OBVIOUS
  <2> QED
    BY <2>1
<1> HIDE DEF n, m, y, Once
<1>6. g[0] = Matching(h[a])
  BY <1>1
<1>7. ASSUME NEW i \in 1..m PROVE g[i] = Log!MatchChar(g[i - 1], y[i])
  <2>1. a + i \in 1..n /\ (a + i) - 1 = a + (i - 1) /\ i - 1 \in 0..m /\ i \in 0..m /\ a + (i - 1) \in 0..n
    BY <1>1
  <2>2. y[i] # NUL /\ y[i] = text[a + i]
    BY <1>3
  <2>3. h[a + (i - 1)] \in 0..Len(Exit)
    BY <1>2, <2>1
  <2>4. Log!MatchChar(Matching(h[a + (i - 1)]), y[i]) = Matching(Heed(h[a + (i - 1)], y[i]))
    BY <2>2, <2>3, MatchIs
  <2>5. h[a + i] = Heed(h[a + (i - 1)], y[i])
    BY <1>2, <2>1, <2>2
  <2> QED
    BY <2>1, <2>4, <2>5
<1>8. Follows(g)
  <2> HIDE DEF g
  <2>1. g = [i \in 0..m |-> g[i]]
    BY DEF g
  <2>2. \A i \in 0..m : g[i] = IF i = 0 THEN Matching(h[a]) ELSE Log!MatchChar(g[i - 1], y[i])
    BY <1>1, <1>6, <1>7
  <2>3. \A i \in 0..m : g[i] = IF i = 0 THEN Matching(h[a]) ELSE Once(g[i - 1], y[i])
    BY <1>5, <2>2
  <2> QED
    BY <1>3, <2>1, <2>3
<1>9. Follows(f)
  <2> HIDE DEF g
  <2> QED
    BY <1>8
<1> HIDE DEF f, g
<1>10. 0 \in T
  BY <1>1, <1>3, <1>6, <1>9
<1>11. ASSUME NEW i \in 1..m, i - 1 \in T PROVE i \in T
  <2>1. i \in 0..m /\ i # 0
    BY <1>1
  <2>2. f[i] = Log!MatchChar(f[i - 1], y[i])
    BY <1>5, <1>9, <2>1
  <2> QED
    BY <1>7, <1>11, <2>1, <2>2
<1>12. m \in T
  <2> HIDE DEF T
  <2>1. 0..m \subseteq T
    BY <1>1, <1>10, <1>11, Along
  <2> QED
    BY <1>1, <2>1
<1>13. f[m] = Matching(h[b])
  BY <1>1, <1>12 DEF g
<1> QED
  BY <1>3, <1>4, <1>13 DEF y

\* How far my-install has looked when it has read e characters: k[e], which is the end
\* of the piece with the string from there on.
Looks(k, h, text, ends) ==
  /\ \A e \in 0..Len(text) :
       /\ k[e] \in 0..e /\ \A x \in ends : x < k[e] => h[x] # Len(Exit)
       /\ h[k[e]] # Len(Exit) => \A x \in ends : x <= e => x <= k[e]
  /\ SeenBy(text, ends) = FirstOr({e \in ends : h[k[e]] = Len(Exit)}, 0)

LEMMA PiecesLook ==
  ASSUME NEW C, NEW text \in Seq(C), NUL \notin C, NEW h, Watches(h, text),
         NEW ends \in SUBSET (0..Len(text))
  PROVE  \E k : Looks(k, h, text, ends)
<1> DEFINE n == Len(text)
           X == Len(Exit)
           F == [e \in 1..n |-> [a \in 0..n |-> IF e \notin ends \/ h[a] = X THEN a ELSE e]]
           At(a) == [m |-> Matching(h[a]), from |-> a]
           Onto(s, e) == IF e \notin ends \/ s.m.seen THEN s
                         ELSE [m |-> Log!Done(s.m.pos, SubSeq(text, s.from + 1, e)), from |-> e]
           Follows(f) == f = [e \in 0..n |-> IF e = 0 THEN [m |-> Log!Match0(0), from |-> 0]
                                             ELSE Onto(f[e - 1], e)]
           f == CHOOSE f : Follows(f)
<1>1. n \in Nat /\ X \in Nat \ {0} /\ ends \subseteq 0..n
  BY ExitIs
<1>2. h \in [0..n -> 0..X] /\ h[0] = 0
  BY DEF Watches
<1>3. SeenBy(text, ends) = FirstOr({e \in ends : f[e].m.seen}, 0)
  BY DEF SeenBy
<1>4. PICK k : Recursive(k, n, 0..n, 0, F)
  <2> DEFINE S == 0..n
  <2>1. F \in [1..n -> [S -> S]] /\ 0 \in S
    BY <1>1
  <2> HIDE DEF F, S, n
  <2>2. \E k : Recursive(k, n, S, 0, F)
    BY <1>1, <2>1, Recursion, Zenon
  <2> QED
    BY <2>2 DEF S
<1>5. k \in [0..n -> 0..n] /\ k[0] = 0
  BY <1>4 DEF Recursive
<1>6. ASSUME NEW e \in 1..n
      PROVE  k[e] = IF e \notin ends \/ h[k[e - 1]] = X THEN k[e - 1] ELSE e
  <2>1. e - 1 \in 0..n
    BY <1>1
  <2>2. k[e - 1] \in 0..n
    BY <1>5, <2>1
  <2>3. k[e] = F[e][k[e - 1]]
    BY <1>4 DEF Recursive
  <2> QED
    BY <2>2, <2>3
<1> HIDE DEF n, X, F
<1> DEFINE Fine(e) == /\ k[e] \in 0..e /\ \A x \in ends : x < k[e] => h[x] # X
                      /\ h[k[e]] # X => \A x \in ends : x <= e => x <= k[e]
           T == {e \in 0..n : Fine(e)}
<1>7. 0 \in T
  BY <1>1, <1>2, <1>5
<1>8. ASSUME NEW e \in 1..n, e - 1 \in T PROVE e \in T
  <2> DEFINE b == k[e - 1]
  <2>1. /\ b \in 0..(e - 1) /\ \A x \in ends : x < b => h[x] # X
        /\ h[b] # X => \A x \in ends : x <= e - 1 => x <= b
    BY <1>8
  <2>2. k[e] = IF e \notin ends \/ h[b] = X THEN b ELSE e
    BY <1>6
  <2>3. e \in 0..n /\ e \in Nat
    BY <1>1
  <2> HIDE DEF b
  <2>4. CASE e \notin ends
    <3>1. \A x \in ends : x <= e => x <= e - 1
      BY <1>1, <2>3, <2>4
    <3> QED
      BY <2>1, <2>2, <2>3, <2>4, <3>1
  <2>5. CASE h[b] = X
    BY <2>1, <2>2, <2>3, <2>5
  <2>6. CASE e \in ends /\ h[b] # X
    <3>1. k[e] = e
      BY <2>2, <2>6
    <3>2. ASSUME NEW x \in ends, x < e PROVE h[x] # X
      <4>1. x \in 0..n /\ x <= e - 1
        BY <1>1, <2>3, <3>2
      <4>2. x <= b
        BY <2>1, <2>6, <4>1
      <4> QED
        BY <2>1, <2>6, <4>1, <4>2
    <3> QED
      BY <2>3, <3>1, <3>2
  <2> QED
    BY <2>4, <2>5, <2>6
<1>9. ASSUME NEW e \in 0..n PROVE Fine(e)
  <2>1. 0..n \subseteq T
    <3> HIDE DEF T
    <3> QED
      BY <1>1, <1>7, <1>8, Along
  <2> QED
    BY <2>1
<1>10. At(0) = [m |-> Log!Match0(0), from |-> 0]
  BY <1>1, <1>2 DEF Matching, Log!Match0, X
<1>11. ASSUME NEW e \in 1..n PROVE At(k[e]) = Onto(At(k[e - 1]), e)
  <2> DEFINE b == k[e - 1]
  <2>1. b \in 0..(e - 1) /\ e \in 0..n /\ e - 1 \in 0..n /\ b \in 0..n /\ e \in b..n
    <3>1. e - 1 \in 0..n /\ e \in 0..n
      BY <1>1
    <3>2. b \in 0..(e - 1)
      BY <1>9, <3>1
    <3> QED
      BY <1>1, <3>1, <3>2
  <2>2. k[e] = IF e \notin ends \/ h[b] = X THEN b ELSE e
    BY <1>6
  <2> HIDE DEF b
  <2>3. At(b).m.seen = (h[b] = X) /\ At(b).m.pos = h[b] /\ At(b).from = b
    BY DEF Matching, X
  <2>4. CASE e \notin ends \/ h[b] = X
    BY <2>2, <2>3, <2>4 DEF b
  <2>5. CASE e \in ends /\ h[b] # X
    <3>1. Log!Match0(h[b]) = Matching(h[b])
      BY <2>5 DEF Log!Match0, Matching, X
    <3>2. Log!Scan(Matching(h[b]), SubSeq(text, b + 1, e)) = Matching(h[e])
      BY <2>1, ScanIs DEF n
    <3>3. Log!Done(h[b], SubSeq(text, b + 1, e)) = Matching(h[e])
      BY <3>1, <3>2 DEF Log!Done
    <3> QED
      BY <2>2, <2>3, <2>5, <3>3 DEF b
  <2> QED
    BY <2>4, <2>5
<1> HIDE DEF At, Onto
<1> DEFINE g == [e \in 0..n |-> At(k[e])]
<1>12. Follows(g)
  <2>1. ASSUME NEW e \in 0..n
        PROVE  g[e] = IF e = 0 THEN [m |-> Log!Match0(0), from |-> 0] ELSE Onto(g[e - 1], e)
    <3>1. CASE e = 0
      BY <1>1, <1>5, <1>10, <3>1
    <3>2. CASE e # 0
      <4>1. e \in 1..n /\ e - 1 \in 0..n
        BY <1>1, <3>2
      <4> QED
        BY <1>11, <3>2, <4>1
    <3> QED
      BY <3>1, <3>2
  <2>2. g = [e \in 0..n |-> g[e]]
    OBVIOUS
  <2> HIDE DEF g
  <2> QED
    BY <2>1, <2>2
<1> HIDE DEF g
<1>13. Follows(f)
  BY <1>12
<1> HIDE DEF f
<1> DEFINE U == {e \in 0..n : f[e] = g[e]}
<1>14. 0 \in U
  BY <1>1, <1>12, <1>13
<1>15. ASSUME NEW e \in 1..n, e - 1 \in U PROVE e \in U
  <2>1. e \in 0..n /\ e # 0
    BY <1>1
  <2>2. f[e] = Onto(f[e - 1], e) /\ g[e] = Onto(g[e - 1], e)
    BY <1>12, <1>13, <2>1
  <2> QED
    BY <1>15, <2>1, <2>2
<1>16. 0..n \subseteq U
  <2> HIDE DEF U
  <2> QED
    BY <1>1, <1>14, <1>15, Along
<1>17. {e \in ends : f[e].m.seen} = {e \in ends : h[k[e]] = X}
  <2>1. ASSUME NEW e \in ends PROVE f[e].m.seen <=> h[k[e]] = X
    <3>1. e \in 0..n
      BY <1>1
    <3>2. f[e] = At(k[e])
      BY <1>16, <3>1 DEF g
    <3>3. ASSUME NEW b PROVE At(b).m.seen <=> h[b] = X
      BY DEF At, Matching, X
    <3> QED
      BY <3>2, <3>3
  <2> QED
    BY <2>1
<1>18. SeenBy(text, ends) = FirstOr({e \in ends : h[k[e]] = X}, 0)
  BY <1>3, <1>17
<1>19. Looks(k, h, text, ends)
  BY <1>9, <1>18 DEF Looks, n, X
<1> QED
  BY <1>19

\* What both make of a text.
Watched(text, ends, until, piece) ==
  IF until > 0
  THEN /\ Len(Exit) <= until /\ SubSeq(text, until - Len(Exit) + 1, until) = Exit
       /\ piece \in ends /\ until <= piece /\ \A e \in ends : e < piece => e < until
  ELSE /\ piece = 0
       /\ \A i \in 0..(Len(text) - Len(Exit)) :
            i = 0 \/ text[i] = LF => SubSeq(text, i + 1, i + Len(Exit)) # Exit

LEMMA WatchFinds ==
  ASSUME NEW C, NEW text \in Seq(C), NUL \notin C, NEW ends \in SUBSET (0..Len(text)), Len(text) \in ends
  PROVE  Watched(text, ends, EchoUntil(Exit, text), SeenBy(text, ends))
<1> DEFINE until == EchoUntil(Exit, text)
           piece == SeenBy(text, ends)
<1> DEFINE n == Len(text)
           X == Len(Exit)
<1>1. PICK h : Watches(h, text)
  BY WatcherRuns
<1>2. PICK k : Looks(k, h, text, ends)
  BY <1>1, PiecesLook
<1> DEFINE S == {i \in 1..n : h[i] = X}
           Z == {e \in ends : h[k[e]] = X}
<1>3. n \in Nat /\ X \in Nat \ {0} /\ ends \subseteq 0..n /\ n \in ends
  BY ExitIs
<1>4. until = FirstOr(S, 0) /\ piece = FirstOr(Z, 0)
  BY <1>1, <1>2 DEF Watches, Looks
<1>5. h \in [0..n -> 0..X] /\ h[0] = 0
  BY <1>1 DEF Watches
<1> SUFFICES Watched(text, ends, until, piece)
  OBVIOUS
<1> HIDE DEF until, piece
<1>6. S \in SUBSET Nat /\ Z \in SUBSET Nat
  <2>1. S \subseteq 1..n /\ Z \subseteq 0..n
    BY <1>3
  <2> HIDE DEF S, Z
  <2> QED
    BY <2>1
<1>7. ASSUME NEW e \in 0..n
      PROVE  /\ k[e] \in 0..e /\ \A x \in ends : x < k[e] => h[x] # X
             /\ h[k[e]] # X => \A x \in ends : x <= e => x <= k[e]
  BY <1>2, <1>7 DEF Looks
<1>8. CASE S = {}
  <2>1. until = 0 /\ ~(until > 0)
    BY <1>4, <1>6, <1>8, FirstIs
  <2>2. Z = {}
    <3> SUFFICES ASSUME NEW e \in ends, h[k[e]] = X PROVE FALSE
      OBVIOUS
    <3>1. e \in 0..n /\ k[e] \in 0..e
      BY <1>3, <1>7
    <3>2. k[e] # 0 /\ k[e] \in 1..n
      BY <1>3, <1>5, <3>1
    <3> QED
      BY <1>8, <3>2
  <2>3. piece = 0
    BY <1>4, <1>6, <2>2, FirstIs
  <2>4. ASSUME NEW i \in 0..(n - X), i = 0 \/ text[i] = LF, SubSeq(text, i + 1, i + X) = Exit PROVE FALSE
    <3>1. \E u \in 1..n : h[u] = X
      BY <1>1, <2>4, WatcherMisses
    <3> QED
      BY <1>8, <3>1
  <2> QED
    BY <2>1, <2>3, <2>4 DEF Watched
<1>9. CASE S # {}
  <2>1. until \in S /\ \A i \in S : until <= i
    <3> HIDE DEF S
    <3> QED
      BY <1>4, <1>6, <1>9, FirstIs
  <2>2. until \in 1..n /\ h[until] = X
    BY <2>1
  <2>3. ASSUME NEW i \in 1..(until - 1) PROVE h[i] # X
    <3>1. i \in 1..n /\ ~(until <= i)
      BY <1>3, <2>2
    <3> QED
      BY <2>1, <3>1
  <2>4. X <= until /\ SubSeq(text, until - X + 1, until) = Exit
    BY <1>1, <2>2, <2>3, WatcherSees
  <2>5. ASSUME NEW i \in until..n PROVE h[i] = X
    <3>1. until \in 0..n
      BY <1>3, <2>2
    <3> QED
      BY <1>1, <2>2, <3>1, WatcherStays
  <2>6. n \in Z
    <3>1. n \in 0..n /\ k[n] \in 0..n /\ n <= n
      BY <1>3, <1>7
    <3>2. h[k[n]] = X
      <4> SUFFICES ASSUME h[k[n]] # X PROVE FALSE
        OBVIOUS
      <4>1. n <= k[n]
        BY <1>3, <1>7, <3>1
      <4>2. k[n] = n /\ n \in until..n
        BY <1>3, <2>2, <3>1, <4>1
      <4> QED
        BY <2>5, <4>2
    <3> QED
      BY <1>3, <3>2
  <2>7. piece \in Z /\ \A e \in Z : piece <= e
    <3> HIDE DEF Z
    <3> QED
      BY <1>4, <1>6, <2>6, FirstIs
  <2>8. piece \in ends /\ piece \in 0..n /\ h[k[piece]] = X /\ k[piece] \in 0..piece
    BY <1>3, <1>7, <2>7
  <2>9. until <= piece
    <3>1. k[piece] # 0 /\ k[piece] \in 1..n
      BY <1>3, <1>5, <2>8
    <3>2. until <= k[piece]
      BY <2>1, <2>8, <3>1
    <3> QED
      BY <2>2, <2>8, <3>1, <3>2
  <2>10. ASSUME NEW e \in ends, e < piece PROVE e < until
    <3>1. e \in 0..n /\ e \notin Z
      <4>1. e \in 0..n
        BY <1>3
      <4>2. ~(piece <= e)
        BY <2>8, <2>10, <4>1
      <4> QED
        BY <2>7, <4>1, <4>2
    <3>2. h[k[e]] # X
      BY <3>1
    <3>3. k[e] \in 0..e /\ e <= k[e]
      BY <1>3, <1>7, <3>1, <3>2
    <3>4. h[e] # X
      <4>1. k[e] = e
        BY <3>1, <3>3
      <4> QED
        BY <3>2, <4>1
    <3> SUFFICES ASSUME ~(e < until) PROVE FALSE
      OBVIOUS
    <3>5. e \in until..n
      BY <2>2, <3>1
    <3> QED
      BY <2>5, <3>4, <3>5
  <2>11. until > 0
    BY <2>2
  <2> QED
    BY <2>4, <2>8, <2>9, <2>10, <2>11 DEF Watched
<1> QED
  BY <1>8, <1>9
-----------------------------------------------------------------------------
(* The read timeout.                                                       *)
LEMMA TimeoutIs ==
  ASSUME NEW copies \in 1..8
  PROVE  /\ 10 <= VTime(10, copies)
         /\ \A tenths \in 1..9 : VTime(tenths, copies) = 0
<1>1. 10 \div 10 = 1
  OBVIOUS
<1>2. 10 <= VTime(10, copies)
  BY <1>1 DEF VTime
<1>3. ASSUME NEW tenths \in 1..9 PROVE VTime(tenths, copies) = 0
  <2>1. tenths \div 10 = 0 /\ 0 * 200 * copies = 0 /\ 0 % 256 = 0
    OBVIOUS
  <2> QED
    BY <2>1 DEF VTime
<1> QED
  BY <1>2, <1>3
-----------------------------------------------------------------------------
(* The checksum.                                                           *)
Bits == SUBSET (0..31)

\* One bit shifted out through the polynomial.
Bit(v) == IF 0 \in v THEN Xor(Shift(v, 1), Polynomial) ELSE Shift(v, 1)

LEMMA ShiftIs ==
  ASSUME NEW a \in SUBSET Nat, NEW k \in Nat
  PROVE  \A i : i \in Shift(a, k) <=> i \in Nat /\ i + k \in a
<1>1. ASSUME NEW i, i \in Shift(a, k) PROVE i \in Nat /\ i + k \in a
  <2>1. PICK j \in a : j >= k /\ i = j - k
    BY <1>1 DEF Shift
  <2> QED
    BY <2>1
<1>2. ASSUME NEW i \in Nat, i + k \in a PROVE i \in Shift(a, k)
  <2>1. i + k \in {j \in a : j >= k} /\ i = (i + k) - k
    BY <1>2
  <2> QED
    BY <2>1 DEF Shift
<1> QED
  BY <1>1, <1>2

LEMMA ShiftOne ==
  ASSUME NEW v \in Bits
  PROVE  \A i \in 0..31 : /\ i \in Shift(v, 1) <=> i < 31 /\ i + 1 \in v
                          /\ Shift(v, 1) \subseteq 0..30
<1>1. v \in SUBSET Nat
  BY DEF Bits
<1>2. \A i : i \in Shift(v, 1) <=> i \in Nat /\ i + 1 \in v
  BY <1>1, ShiftIs
<1> QED
  BY <1>2 DEF Bits

LEMMA BitType ==
  ASSUME NEW v \in Bits PROVE Bit(v) \in Bits
BY ShiftOne DEF Bit, Bits, Xor, Polynomial

LEMMA XorType ==
  ASSUME NEW v \in Bits, NEW w \in Bits PROVE Xor(v, w) \in Bits
BY DEF Bits, Xor

LEMMA XorIs ==
  ASSUME NEW v, NEW w
  PROVE  \A i : i \in Xor(v, w) <=> (i \in v) # (i \in w)
BY DEF Xor

LEMMA ShiftXor ==
  ASSUME NEW v \in Bits, NEW w \in Bits, NEW k \in Nat
  PROVE  Shift(Xor(v, w), k) = Xor(Shift(v, k), Shift(w, k))
<1>1. v \in SUBSET Nat /\ w \in SUBSET Nat /\ Xor(v, w) \in SUBSET Nat
  BY DEF Bits, Xor
<1>2. \A i : i \in Shift(Xor(v, w), k) <=> i \in Nat /\ i + k \in Xor(v, w)
  BY <1>1, ShiftIs
<1>3. \A i : i \in Shift(v, k) <=> i \in Nat /\ i + k \in v
  BY <1>1, ShiftIs
<1>4. \A i : i \in Shift(w, k) <=> i \in Nat /\ i + k \in w
  BY <1>1, ShiftIs
<1> QED
  BY <1>2, <1>3, <1>4 DEF Xor

LEMMA BitXor ==
  ASSUME NEW v \in Bits, NEW w \in Bits
  PROVE  Bit(Xor(v, w)) = Xor(Bit(v), Bit(w))
<1>1. Shift(Xor(v, w), 1) = Xor(Shift(v, 1), Shift(w, 1))
  BY ShiftXor
<1> DEFINE a == Shift(v, 1)
           b == Shift(w, 1)
           p == Polynomial
<1>2. (0 \in Xor(v, w)) <=> ((0 \in v) # (0 \in w))
  BY DEF Xor
<1>3. Bit(v) = (IF 0 \in v THEN Xor(a, p) ELSE a) /\ Bit(w) = (IF 0 \in w THEN Xor(b, p) ELSE b)
  BY DEF Bit
<1>4. Bit(Xor(v, w)) = IF 0 \in Xor(v, w) THEN Xor(Xor(a, b), p) ELSE Xor(a, b)
  BY <1>1 DEF Bit
<1> HIDE DEF a, b, p
<1>5. /\ Xor(Xor(a, p), Xor(b, p)) = Xor(a, b) /\ Xor(Xor(a, p), b) = Xor(Xor(a, b), p)
      /\ Xor(a, Xor(b, p)) = Xor(Xor(a, b), p)
  BY DEF Xor
<1> QED
  BY <1>2, <1>3, <1>4, <1>5

LEMMA BitBack ==
  ASSUME NEW v \in Bits, 31 \notin Bit(v)
  PROVE  0 \notin v /\ \A i \in 0..30 : i \in Bit(v) <=> i + 1 \in v
<1>1. 31 \notin Shift(v, 1) /\ 31 \in Polynomial
  BY ShiftOne DEF Polynomial
<1>2. 0 \notin v
  BY <1>1 DEF Bit, Xor
<1> QED
  BY <1>2, ShiftOne DEF Bit

\* An entry of the table, bit by bit.
Shifted(h, b) ==
  /\ h \in [0..8 -> Bits] /\ h[0] = b /\ h[8] = Crc32Tab(b)
  /\ \A i \in 1..8 : h[i] = Bit(h[i - 1])

LEMMA TableShifts ==
  ASSUME NEW b \in Bits PROVE \E h : Shifted(h, b)
<1> DEFINE F == [i \in 1..8 |-> [v \in Bits |-> Bit(v)]]
<1>1. F \in [1..8 -> [Bits -> Bits]]
  BY BitType
<1>2. PICK h : Recursive(h, 8, Bits, b, F)
  <2>1. 8 \in Nat
    OBVIOUS
  <2> HIDE DEF F
  <2> QED
    BY <1>1, <2>1, Recursion, Zenon
<1>3. h \in [0..8 -> Bits] /\ h[0] = b
  BY <1>2 DEF Recursive
<1>4. ASSUME NEW i \in 1..8 PROVE h[i] = Bit(h[i - 1])
  <2>1. i - 1 \in 0..8
    OBVIOUS
  <2> QED
    BY <1>2, <1>3, <2>1 DEF Recursive
<1> DEFINE Follows(f) == f = [k \in 0..8 |-> IF k = 0 THEN b ELSE Bit(f[k - 1])]
           f == CHOOSE f : Follows(f)
           T == {i \in 0..8 : f[i] = h[i]}
<1>5. Crc32Tab(b) = f[8]
  BY DEF Crc32Tab, Bit
<1>6. Follows(h)
  BY <1>3, <1>4
<1>7. Follows(f)
  BY <1>6
<1> HIDE DEF f
<1>8. 0 \in T
  BY <1>3, <1>7
<1>9. ASSUME NEW i \in 1..8, i - 1 \in T PROVE i \in T
  <2>1. i \in 0..8 /\ i # 0
    OBVIOUS
  <2>2. f[i] = Bit(f[i - 1])
    BY <1>7, <2>1
  <2> QED
    BY <1>4, <1>9, <2>1, <2>2
<1>10. 0..8 \subseteq T
  <2> HIDE DEF T
  <2> QED
    BY <1>8, <1>9, Along
<1> QED
  BY <1>3, <1>4, <1>5, <1>10 DEF Shifted

LEMMA TableXor ==
  ASSUME NEW v \in Bits, NEW w \in Bits
  PROVE  /\ Crc32Tab(Xor(v, w)) = Xor(Crc32Tab(v), Crc32Tab(w))
         /\ Crc32Tab(v) \in Bits
<1>1. PICK f : Shifted(f, v)
  BY TableShifts
<1>2. PICK g : Shifted(g, w)
  BY TableShifts
<1>3. PICK h : Shifted(h, Xor(v, w))
  BY XorType, TableShifts
<1> DEFINE T == {i \in 0..8 : h[i] = Xor(f[i], g[i])}
<1>4. 0 \in T
  BY <1>1, <1>2, <1>3 DEF Shifted
<1>5. ASSUME NEW i \in 1..8, i - 1 \in T PROVE i \in T
  <2>1. i - 1 \in 0..8 /\ i \in 0..8
    OBVIOUS
  <2>2. f[i - 1] \in Bits /\ g[i - 1] \in Bits
    BY <1>1, <1>2, <2>1 DEF Shifted
  <2>3. h[i] = Bit(h[i - 1]) /\ f[i] = Bit(f[i - 1]) /\ g[i] = Bit(g[i - 1])
    BY <1>1, <1>2, <1>3 DEF Shifted
  <2> QED
    BY <1>5, <2>1, <2>2, <2>3, BitXor
<1>6. 0..8 \subseteq T
  <2> HIDE DEF T
  <2> QED
    BY <1>4, <1>5, Along
<1>7. 8 \in T
  BY <1>6
<1> QED
  BY <1>1, <1>2, <1>3, <1>7 DEF Shifted

\* The high bytes of the entries differ: what leaves no bit there was nothing.
LEMMA TableTop ==
  ASSUME NEW v \in SUBSET (0..7), Crc32Tab(v) \cap 24..31 = {}
  PROVE  v = {} /\ Crc32Tab(v) = {}
<1>1. PICK h : Shifted(h, v)
  BY TableShifts DEF Bits
<1> DEFINE Clear(j) == h[j] \cap (32 - j)..31 = {} /\ h[j] \cap 0..(7 - j) = {}
           T == {i \in 0..8 : Clear(8 - i)}
<1>2. 0 \in T
  BY <1>1 DEF Shifted
<1>3. ASSUME NEW i \in 1..8, i - 1 \in T PROVE i \in T
  <2> DEFINE j == 8 - i
             x == h[j]
             y == h[j + 1]
  <2>1. j \in 0..7 /\ j + 1 = 8 - (i - 1) /\ j + 1 \in 1..8 /\ (j + 1) - 1 = j /\ j \in 0..8 /\ i \in 0..8
    OBVIOUS
  <2>2. y \cap (32 - (j + 1))..31 = {} /\ y \cap 0..(7 - (j + 1)) = {}
    BY <1>3, <2>1
  <2>3. x \in Bits /\ y = Bit(x)
    BY <1>1, <2>1 DEF Shifted
  <2> HIDE DEF x, y, j
  <2>4. 31 \notin y
    BY <2>1, <2>2
  <2>5. 0 \notin x /\ \A k \in 0..30 : k \in y <=> k + 1 \in x
    BY <2>3, <2>4, BitBack
  <2>6. ASSUME NEW k \in (32 - j)..31 PROVE k \notin x
    <3>1. k - 1 \in 0..30 /\ (k - 1) + 1 = k
      BY <2>1
    <3>2. k - 1 \in (32 - (j + 1))..31
      BY <2>1
    <3> QED
      BY <2>1, <2>2, <2>5, <3>1, <3>2
  <2>7. ASSUME NEW k \in 0..(7 - j) PROVE k \notin x
    <3>1. CASE k = 0
      BY <2>5, <3>1
    <3>2. CASE k # 0
      <4>1. k - 1 \in 0..30 /\ (k - 1) + 1 = k /\ k - 1 \in 0..(7 - (j + 1))
        BY <2>1, <3>2
      <4> QED
        BY <2>2, <2>5, <4>1
    <3> QED
      BY <3>1, <3>2
  <2> QED
    BY <2>1, <2>6, <2>7 DEF x, j
<1>4. 0..8 \subseteq T
  <2> HIDE DEF T
  <2> QED
    BY <1>2, <1>3, Along
<1>5. 8 \in T /\ h[0] = v
  BY <1>1, <1>4 DEF Shifted
<1>6. v = {}
  BY <1>5
<1>7. Crc32Tab({}) = {}
  <2>1. {} \in Bits /\ Xor({}, {}) = {}
    BY DEF Bits, Xor
  <2>2. Crc32Tab({}) = Xor(Crc32Tab({}), Crc32Tab({}))
    BY <2>1, TableXor
  <2> QED
    BY <2>2 DEF Xor
<1> QED
  BY <1>6, <1>7

\* The states of crc32 along a message.
Sums(h, msg) ==
  /\ h \in [0..Len(msg) -> Bits] /\ h[0] = 0..31 /\ Crc(msg) = Xor(h[Len(msg)], 0..31)
  /\ \A i \in 1..Len(msg) : h[i] = TakeByte(h[i - 1], msg[i])

LEMMA TakeByteType ==
  ASSUME NEW c \in Bits, NEW b \in SUBSET (0..7)
  PROVE  TakeByte(c, b) \in Bits
<1>1. Xor(c, b) \cap 0..7 \in Bits
  BY DEF Bits
<1>2. Crc32Tab(Xor(c, b) \cap 0..7) \in Bits
  BY <1>1, TableXor
<1>3. Shift(c, 8) \in Bits
  <2>1. c \in SUBSET Nat
    BY DEF Bits
  <2>2. \A i : i \in Shift(c, 8) <=> i \in Nat /\ i + 8 \in c
    BY <2>1, ShiftIs
  <2> QED
    BY <2>2 DEF Bits
<1> QED
  BY <1>2, <1>3, XorType DEF TakeByte

LEMMA CrcSums ==
  ASSUME NEW msg \in Seq(SUBSET (0..7)) PROVE \E h : Sums(h, msg)
<1> DEFINE n == Len(msg)
           F == [i \in 1..n |-> [c \in Bits |-> TakeByte(c, msg[i])]]
<1>1. n \in Nat /\ 0..31 \in Bits /\ \A i \in 1..n : msg[i] \in SUBSET (0..7)
  BY DEF Bits
<1>2. F \in [1..n -> [Bits -> Bits]]
  BY <1>1, TakeByteType
<1>3. PICK h : Recursive(h, n, Bits, 0..31, F)
  <2> HIDE DEF F, n
  <2> QED
    BY <1>1, <1>2, Recursion, Zenon
<1>4. h \in [0..n -> Bits] /\ h[0] = 0..31
  BY <1>3 DEF Recursive
<1>5. ASSUME NEW i \in 1..n PROVE h[i] = TakeByte(h[i - 1], msg[i])
  <2>1. i - 1 \in 0..n
    BY <1>1
  <2> QED
    BY <1>3, <1>4, <2>1 DEF Recursive
<1> DEFINE Follows(f) == f = [k \in 0..n |-> IF k = 0 THEN 0..31 ELSE TakeByte(f[k - 1], msg[k])]
           f == CHOOSE f : Follows(f)
           T == {i \in 0..n : f[i] = h[i]}
<1>6. Crc(msg) = Xor(f[n], 0..31)
  BY DEF Crc
<1> HIDE DEF n
<1>7. Follows(h)
  BY <1>1, <1>4, <1>5
<1>8. Follows(f)
  BY <1>7
<1> HIDE DEF f
<1>9. 0 \in T
  BY <1>1, <1>4, <1>8
<1>10. ASSUME NEW i \in 1..n, i - 1 \in T PROVE i \in T
  <2>1. i \in 0..n /\ i # 0
    BY <1>1
  <2>2. f[i] = TakeByte(f[i - 1], msg[i])
    BY <1>8, <2>1
  <2> QED
    BY <1>5, <1>10, <2>1, <2>2
<1>11. n \in T
  <2> HIDE DEF T
  <2>1. 0..n \subseteq T
    BY <1>1, <1>9, <1>10, Along
  <2> QED
    BY <1>1, <2>1
<1> QED
  BY <1>4, <1>5, <1>6, <1>11 DEF Sums, n

\* How two states differ after a byte, by how they and the bytes differ.
LEMMA TakeByteXor ==
  ASSUME NEW c \in Bits, NEW d \in Bits, NEW a \in SUBSET (0..7), NEW b \in SUBSET (0..7)
  PROVE  Xor(TakeByte(c, a), TakeByte(d, b))
           = Xor(Crc32Tab(Xor(Xor(c, d), Xor(a, b)) \cap 0..7), Shift(Xor(c, d), 8))
<1> DEFINE u == Xor(c, a) \cap 0..7
           v == Xor(d, b) \cap 0..7
           w == Xor(Xor(c, d), Xor(a, b)) \cap 0..7
<1>1. u \in Bits /\ v \in Bits /\ w = Xor(u, v)
  BY DEF Bits, Xor
<1>2. Crc32Tab(w) = Xor(Crc32Tab(u), Crc32Tab(v))
  <2> HIDE DEF u, v, w
  <2> QED
    BY <1>1, TableXor
<1>3. Shift(Xor(c, d), 8) = Xor(Shift(c, 8), Shift(d, 8))
  BY ShiftXor
<1>4. TakeByte(c, a) = Xor(Crc32Tab(u), Shift(c, 8)) /\ TakeByte(d, b) = Xor(Crc32Tab(v), Shift(d, 8))
  BY DEF TakeByte
<1> HIDE DEF u, v, w
<1>5. Xor(Xor(Crc32Tab(u), Shift(c, 8)), Xor(Crc32Tab(v), Shift(d, 8)))
        = Xor(Xor(Crc32Tab(u), Crc32Tab(v)), Xor(Shift(c, 8), Shift(d, 8)))
  BY DEF Xor
<1> QED
  BY <1>2, <1>3, <1>4, <1>5 DEF w

Low(e) == e \cap 0..7

\* Bits of the low r bytes only.
Below(e, r) == \A i \in e : i < 8 * r

\* If the states differ in the low r bytes only, r being at most 3, then before the
\* byte they differed by what the bytes differ in, and in the bytes above up to r.
LEMMA ByteBack ==
  ASSUME NEW c \in Bits, NEW d \in Bits, NEW a \in SUBSET (0..7), NEW b \in SUBSET (0..7),
         NEW r \in 0..3, Below(Xor(TakeByte(c, a), TakeByte(d, b)), r)
  PROVE  /\ Low(Xor(c, d)) = Xor(a, b)
         /\ Below(Xor(c, d), r + 1)
<1> DEFINE e == Xor(c, d)
           w == Xor(e, Xor(a, b)) \cap 0..7
           s == Shift(e, 8)
           t == Crc32Tab(w)
<1>1. e \in Bits /\ e \in SUBSET Nat /\ w \in SUBSET (0..7)
  BY DEF Bits, Xor
<1>2. \A i : i \in s <=> i \in Nat /\ i + 8 \in e
  BY <1>1, ShiftIs
<1>3. \A i \in Xor(t, s) : i < 8 * r
  BY TakeByteXor DEF Below
<1> HIDE DEF s, t
<1>4. \A i \in s : i < 24
  BY <1>1, <1>2 DEF Bits
<1>5. t \cap 24..31 = {}
  <2>1. ASSUME NEW i \in 24..31, i \in t PROVE FALSE
    <3>1. i \notin s
      BY <1>4, <2>1
    <3>2. i \in Xor(t, s)
      BY <2>1, <3>1 DEF Xor
    <3> QED
      BY <1>3, <3>2
  <2> QED
    BY <2>1
<1>6. w = {} /\ t = {}
  BY <1>1, <1>5, TableTop DEF t
<1>7. e \cap 0..7 = Xor(a, b)
  BY <1>1, <1>6 DEF Xor
<1>8. ASSUME NEW i \in e PROVE i < 8 * (r + 1)
  <2>1. CASE i < 8
    <3>1. i \in Nat /\ 8 * (r + 1) >= 8
      BY <1>1
    <3> QED
      BY <2>1, <3>1
  <2>2. CASE i >= 8
    <3>1. i \in Nat /\ i - 8 \in Nat /\ (i - 8) + 8 = i
      BY <1>1, <2>2
    <3>2. i - 8 \in s
      BY <1>2, <3>1
    <3>3. i - 8 \in Xor(t, s)
      BY <1>6, <3>2 DEF Xor
    <3> QED
      BY <1>3, <3>1, <3>3
  <2> QED
    BY <1>1, <2>1, <2>2
<1> QED
  BY <1>7, <1>8 DEF Below, Low

LEMMA XorNone ==
  ASSUME NEW a, NEW b PROVE (Xor(a, b) = {}) <=> (a = b)
BY DEF Xor

\* A burst of up to four bytes changes the checksum.
LEMMA BurstChanges ==
  ASSUME NEW sent \in Seq(SUBSET (0..7)), NEW read \in Seq(SUBSET (0..7)), Len(read) = Len(sent),
         NEW at \in Nat, NEW k \in 0..4, at + k <= Len(sent),
         \A i \in 1..Len(sent) : i <= at \/ i > at + k => read[i] = sent[i],
         Crc(sent) = Crc(read)
  PROVE  sent = read
<1> DEFINE n == Len(sent)
           q == at + k
<1>1. PICK g : Sums(g, sent)
  BY CrcSums
<1>2. PICK h : Sums(h, read)
  BY CrcSums
<1>3. n \in Nat /\ q \in 0..n /\ \A i \in 1..n : sent[i] \in SUBSET (0..7) /\ read[i] \in SUBSET (0..7)
  OBVIOUS
<1>4. g[n] = h[n]
  <2>1. Crc(sent) = Xor(g[n], 0..31) /\ Crc(read) = Xor(h[n], 0..31)
    BY <1>1, <1>2 DEF Sums
  <2> QED
    BY <2>1 DEF Xor
<1>5. g[0] = h[0]
  BY <1>1, <1>2 DEF Sums
<1>6. ASSUME NEW i \in 1..n
      PROVE  /\ i - 1 \in 0..n /\ g[i - 1] \in Bits /\ h[i - 1] \in Bits
             /\ g[i] = TakeByte(g[i - 1], sent[i]) /\ h[i] = TakeByte(h[i - 1], read[i])
  <2>1. i - 1 \in 0..n
    BY <1>3
  <2> QED
    BY <1>1, <1>2, <2>1 DEF Sums
<1> HIDE DEF n
<1>7. ASSUME NEW i \in 1..n, g[i] = h[i], read[i] = sent[i] PROVE g[i - 1] = h[i - 1]
  <2> DEFINE c == g[i - 1]
             d == h[i - 1]
             a == sent[i]
  <2>1. c \in Bits /\ d \in Bits /\ a \in SUBSET (0..7) /\ TakeByte(c, a) = TakeByte(d, a)
    BY <1>3, <1>6, <1>7
  <2> HIDE DEF c, d, a
  <2>2. Xor(TakeByte(c, a), TakeByte(d, a)) = {} /\ Xor(a, a) = {}
    BY <2>1, XorNone
  <2>3. Below(Xor(TakeByte(c, a), TakeByte(d, a)), 0) /\ 0 \in 0..3 /\ 0 + 1 = 1
    BY <2>2 DEF Below
  <2>4. Low(Xor(c, d)) = Xor(a, a) /\ Below(Xor(c, d), 0 + 1)
    BY <2>1, <2>3, ByteBack
  <2>5. Low(Xor(c, d)) = {} /\ Below(Xor(c, d), 1)
    BY <2>2, <2>3, <2>4
  <2>6. Xor(c, d) \subseteq 0..31
    BY <2>1 DEF Bits, Xor
  <2>7. \A j \in Xor(c, d) : j < 8
    BY <2>5 DEF Below
  <2>8. Xor(c, d) = {}
    <3>1. ASSUME NEW j \in Xor(c, d) PROVE FALSE
      <4>1. j \in 0..31 /\ j < 8
        BY <2>6, <2>7
      <4>2. j \in Low(Xor(c, d))
        BY <4>1 DEF Low
      <4> QED
        BY <2>5, <4>2
    <3> QED
      BY <3>1
  <2> QED
    BY <2>8, XorNone DEF c, d
<1>8. g[q] = h[q]
  <2> DEFINE m == n - q
             T == {j \in 0..m : g[n - j] = h[n - j]}
  <2>1. m \in Nat /\ n - m = q /\ 0 \in T
    BY <1>3, <1>4
  <2>2. ASSUME NEW j \in 1..m, j - 1 \in T PROVE j \in T
    <3>1. n - (j - 1) \in 1..n /\ (n - (j - 1)) - 1 = n - j /\ n - (j - 1) > q /\ j \in 0..m
      BY <1>3
    <3>2. read[n - (j - 1)] = sent[n - (j - 1)]
      BY <3>1 DEF n
    <3> QED
      BY <1>7, <2>2, <3>1, <3>2
  <2>3. m \in T
    <3> HIDE DEF T, m
    <3>1. 0..m \subseteq T
      BY <2>1, <2>2, Along
    <3> QED
      BY <2>1, <3>1
  <2> QED
    BY <2>1, <2>3
<1>9. \A j \in 0..k : Below(Xor(g[q - j], h[q - j]), j)
  <2> DEFINE T == {j \in 0..k : Below(Xor(g[q - j], h[q - j]), j)}
  <2>1. 0 \in T
    BY <1>3, <1>8, XorNone DEF Below
  <2>2. ASSUME NEW j \in 1..k, j - 1 \in T PROVE j \in T
    <3> DEFINE p == q - (j - 1)
               r == j - 1
    <3>1. p \in 1..n /\ p - 1 = q - j /\ r \in 0..3 /\ r + 1 = j /\ j \in 0..k
      BY <1>3
    <3>2. g[p] = TakeByte(g[p - 1], sent[p]) /\ h[p] = TakeByte(h[p - 1], read[p])
          /\ g[p - 1] \in Bits /\ h[p - 1] \in Bits
      BY <1>6, <3>1
    <3>3. Below(Xor(TakeByte(g[p - 1], sent[p]), TakeByte(h[p - 1], read[p])), r)
      BY <2>2, <3>2
    <3>4. sent[p] \in SUBSET (0..7) /\ read[p] \in SUBSET (0..7)
      BY <1>3, <3>1
    <3> HIDE DEF p, r
    <3>5. Below(Xor(g[p - 1], h[p - 1]), r + 1)
      BY <3>1, <3>2, <3>3, <3>4, ByteBack
    <3> QED
      BY <3>1, <3>5
  <2>3. 0..k \subseteq T
    <3> HIDE DEF T
    <3> QED
      BY <2>1, <2>2, Along
  <2> QED
    BY <2>3
<1>10. ASSUME NEW i \in 1..n, g[i - 1] = h[i - 1] PROVE g[i] = h[i] /\ sent[i] = read[i]
  <2>1. CASE i <= at \/ i > at + k
    <3>1. read[i] = sent[i]
      BY <2>1 DEF n
    <3> QED
      BY <1>6, <1>10, <3>1
  <2>2. CASE at < i /\ i <= at + k
    <3> DEFINE r == q - i
    <3>1. r \in 0..3 /\ r \in 0..k /\ q - r = i
      BY <2>2
    <3>2. Below(Xor(g[q - r], h[q - r]), r)
      BY <1>9, <3>1
    <3>3. g[i] = TakeByte(g[i - 1], sent[i]) /\ h[i] = TakeByte(h[i - 1], read[i])
          /\ g[i - 1] \in Bits /\ h[i - 1] \in Bits
      BY <1>6
    <3>4. Below(Xor(TakeByte(g[i - 1], sent[i]), TakeByte(h[i - 1], read[i])), r)
      BY <3>1, <3>2, <3>3
    <3>5. sent[i] \in SUBSET (0..7) /\ read[i] \in SUBSET (0..7)
      BY <1>3
    <3> HIDE DEF r
    <3>6. Low(Xor(g[i - 1], h[i - 1])) = Xor(sent[i], read[i])
      <4> DEFINE c == g[i - 1]
                 d == h[i - 1]
                 a == sent[i]
                 b == read[i]
      <4>1. r \in 0..3 /\ c \in Bits /\ d \in Bits /\ a \in SUBSET (0..7) /\ b \in SUBSET (0..7)
        BY <3>1, <3>3, <3>5
      <4>2. Below(Xor(TakeByte(c, a), TakeByte(d, b)), r)
        BY <3>4
      <4> HIDE DEF a, b, c, d
      <4>3. Low(Xor(c, d)) = Xor(a, b)
        BY <4>1, <4>2, ByteBack
      <4> QED
        BY <4>3 DEF a, b, c, d
    <3>7. Xor(g[i - 1], h[i - 1]) = {}
      BY <1>10, XorNone
    <3>8. sent[i] = read[i]
      BY <3>6, <3>7, XorNone DEF Low
    <3> QED
      BY <1>10, <3>3, <3>8
  <2> QED
    BY <1>3, <2>1, <2>2
<1>11. 0..n \subseteq {i \in 0..n : g[i] = h[i]}
  <2> DEFINE T == {i \in 0..n : g[i] = h[i]}
  <2>1. 0 \in T
    BY <1>3, <1>5
  <2>2. ASSUME NEW i \in 1..n, i - 1 \in T PROVE i \in T
    BY <1>3, <1>10, <2>2
  <2> HIDE DEF T
  <2>3. 0..n \subseteq T
    BY <1>3, <2>1, <2>2, Along
  <2> QED
    BY <2>3 DEF T
<1>12. \A i \in 1..n : sent[i] = read[i]
  <2> SUFFICES ASSUME NEW i \in 1..n PROVE sent[i] = read[i]
    OBVIOUS
  <2>1. i - 1 \in 0..n
    BY <1>3
  <2>2. g[i - 1] = h[i - 1]
    BY <1>11, <2>1
  <2> QED
    BY <1>10, <2>2
<1> QED
  BY <1>12 DEF n
-----------------------------------------------------------------------------
(* printk.                                                                 *)

Bases == {2, 10, 16}

\* What emit has left of u after each turn of its loop.
Lefts(f, u, base) ==
  f \in [0..NumSize -> Nat] /\ f[0] = u /\ \A i \in 1..NumSize : f[i] = f[i - 1] \div base

\* A turn of emit at least halves what is left.
LEMMA Parts ==
  ASSUME NEW x \in Nat, NEW base \in Bases
  PROVE  /\ x \div base \in Nat /\ 2 * (x \div base) <= x
         /\ x % base \in 0..(base - 1) /\ x = base * (x \div base) + (x % base)
<1> DEFINE q == x \div base
           r == x % base
<1>1. q \in Nat /\ r \in 0..(base - 1) /\ x = q * base + r
  BY Split DEF Bases
<1> HIDE DEF q, r
<1>2. 2 * q <= x
  BY <1>1 DEF Bases
<1>3. q * base = base * q
  BY <1>1 DEF Bases
<1>4. x = base * q + r
  BY <1>1, <1>3
<1> QED
  BY <1>1, <1>2, <1>4, Zenon DEF q, r

\* The recursive function of Reversed exists.
LEMMA LeftsExist ==
  ASSUME NEW u \in Nat, NEW base \in Bases
  PROVE  Lefts(CHOOSE f : f = [i \in 0..NumSize |-> IF i = 0 THEN u ELSE f[i - 1] \div base], u, base)
<1> DEFINE n == NumSize
           F == [i \in 1..n |-> [x \in Nat |-> x \div base]]
           Follows(f) == f = [i \in 0..n |-> IF i = 0 THEN u ELSE f[i - 1] \div base]
           f == CHOOSE f : Follows(f)
<1>1. n \in Nat
  BY NumAssumption
<1>2. \A x \in Nat : x \div base \in Nat
  BY Parts
<1> SUFFICES Lefts(f, u, base)
  OBVIOUS
<1> HIDE DEF n
<1>3. F \in [1..n -> [Nat -> Nat]]
  BY <1>2
<1>4. PICK h : Recursive(h, n, Nat, u, F)
  <2> HIDE DEF F
  <2> QED
    BY <1>1, <1>3, Recursion, Zenon
<1>5. h \in [0..n -> Nat] /\ h[0] = u
  BY <1>4 DEF Recursive
<1>6. ASSUME NEW i \in 1..n PROVE h[i] = h[i - 1] \div base
  <2>1. i - 1 \in 0..n
    BY <1>1
  <2>2. h[i] = F[i][h[i - 1]] /\ h[i - 1] \in Nat
    BY <1>4, <1>5, <2>1 DEF Recursive
  <2> QED
    BY <2>2
<1>7. Follows(h)
  <2>1. ASSUME NEW i \in 0..n PROVE h[i] = IF i = 0 THEN u ELSE h[i - 1] \div base
    <3>1. CASE i = 0
      BY <1>5, <3>1
    <3>2. CASE i # 0
      <4>1. i \in 1..n
        BY <1>1, <3>2
      <4> QED
        BY <1>6, <3>2, <4>1
    <3> QED
      BY <3>1, <3>2
  <2> QED
    BY <1>5, <2>1
<1>8. Follows(f)
  BY <1>7
<1> HIDE DEF f
<1> DEFINE T == {i \in 0..n : f[i] = h[i]}
<1>9. 0 \in T
  BY <1>1, <1>5, <1>8
<1>10. ASSUME NEW i \in 1..n, i - 1 \in T PROVE i \in T
  <2>1. i \in 0..n /\ i # 0
    BY <1>1
  <2>2. f[i] = f[i - 1] \div base
    BY <1>8, <2>1
  <2> QED
    BY <1>6, <1>10, <2>1, <2>2
<1>11. 0..n \subseteq T
  <2> HIDE DEF T
  <2> QED
    BY <1>1, <1>9, <1>10, Along
<1>12. \A i \in 0..n : f[i] = h[i]
  BY <1>11
<1>13. f = h
  <2>1. f = [i \in 0..n |-> f[i]] /\ h = [i \in 0..n |-> h[i]]
    BY <1>5, <1>8
  <2> QED
    BY <1>12, <2>1
<1> QED
  BY <1>5, <1>6, <1>13 DEF Lefts, n

\* Eight turns take eight bits.
LEMMA EightTurns ==
  ASSUME NEW f, NEW u \in Nat, NEW base \in Bases, Lefts(f, u, base),
         NEW k \in Nat, k + 8 <= NumSize, NEW y \in Nat, f[k] < 256 * y
  PROVE  f[k + 8] < y
<1> NumSize \in Nat
  BY NumAssumption
<1>1. ASSUME NEW i \in 0..7
      PROVE  f[k + i] \in Nat /\ f[k + (i + 1)] \in Nat /\ 2 * f[k + (i + 1)] <= f[k + i]
  <2>1. k + i \in 0..NumSize /\ k + (i + 1) \in 1..NumSize /\ (k + (i + 1)) - 1 = k + i
    OBVIOUS
  <2>2. f[k + i] \in Nat /\ f[k + (i + 1)] = f[k + i] \div base
    BY <2>1 DEF Lefts
  <2> QED
    BY <2>2, Parts
<1>2. f[k] \in Nat /\ f[k + 1] \in Nat /\ 2 * f[k + 1] <= f[k]
  BY <1>1, 0 \in 0..7
<1>3. f[k + 2] \in Nat /\ 2 * f[k + 2] <= f[k + 1]
  BY <1>1, 1 \in 0..7
<1>4. f[k + 3] \in Nat /\ 2 * f[k + 3] <= f[k + 2]
  BY <1>1, 2 \in 0..7
<1>5. f[k + 4] \in Nat /\ 2 * f[k + 4] <= f[k + 3]
  BY <1>1, 3 \in 0..7
<1>6. f[k + 5] \in Nat /\ 2 * f[k + 5] <= f[k + 4]
  BY <1>1, 4 \in 0..7
<1>7. f[k + 6] \in Nat /\ 2 * f[k + 6] <= f[k + 5]
  BY <1>1, 5 \in 0..7
<1>8. f[k + 7] \in Nat /\ 2 * f[k + 7] <= f[k + 6]
  BY <1>1, 6 \in 0..7
<1>9. f[k + 8] \in Nat /\ 2 * f[k + 8] <= f[k + 7]
  BY <1>1, 7 \in 0..7
<1> QED
  BY <1>2, <1>3, <1>4, <1>5, <1>6, <1>7, <1>8, <1>9

\* A word is below 2^32.
LEMMA HalfWords ==
  ASSUME NEW m \in Nat, m \div 65536 < 65536
  PROVE  m < 256 * 16777216
BY SMT

\* 32 turns leave nothing of a word, and nothing stays nothing.
LEMMA NothingLeft ==
  ASSUME NEW f, NEW u \in 0..(WordMod - 1), NEW base \in Bases, Lefts(f, u, base),
         NEW k \in 32..NumSize
  PROVE  f[k] = 0
<1>1. NumSize \in Nat /\ NumSize > 33 /\ u \in Nat /\ WordMod \in Nat
  BY NumAssumption, WordAssumption
<1>2. f[0] < 256 * 16777216
  <2>1. WordMod - 1 < 256 * 16777216
    BY <1>1, NumAssumption, WordAssumption, HalfWords
  <2> QED
    BY <1>1, <2>1 DEF Lefts
<1>3. ASSUME NEW i \in {0, 8, 16, 24}, NEW y \in Nat, f[i] < 256 * y
      PROVE  f[i + 8] < y
  <2>1. i \in Nat /\ i + 8 <= NumSize /\ u \in Nat
    BY <1>1
  <2> QED
    BY <1>3, <2>1, EightTurns
<1>4. f[8] < 16777216
  BY <1>2, <1>3
<1>5. f[16] < 65536
  BY <1>4, <1>3
<1>6. f[24] < 256
  BY <1>5, <1>3
<1>7. f[32] < 1
  BY <1>6, <1>3
<1> DEFINE T == {i \in Nat : i + 32 <= NumSize => f[i + 32] = 0}
<1>8. 0 \in T
  BY <1>1, <1>7 DEF Lefts
<1>9. ASSUME NEW i \in Nat, i \in T PROVE i + 1 \in T
  <2>1. SUFFICES ASSUME (i + 1) + 32 <= NumSize PROVE f[(i + 1) + 32] = 0
    OBVIOUS
  <2>2. f[i + 32] = 0
    BY <1>1, <1>9, <2>1
  <2>3. (i + 1) + 32 \in 1..NumSize /\ ((i + 1) + 32) - 1 = i + 32
    BY <1>1, <2>1
  <2>4. f[(i + 1) + 32] = 0 \div base
    BY <2>2, <2>3 DEF Lefts
  <2> QED
    BY <2>4 DEF Bases
<1>10. Nat \subseteq T
  <2> HIDE DEF T
  <2> QED
    BY <1>8, <1>9, Induct
<1>11. k - 32 \in T /\ (k - 32) + 32 = k
  BY <1>1, <1>10
<1> QED
  BY <1>1, <1>11

\* How many turns emit takes, and the digits it leaves.
Turned(f, u, base, t) ==
  /\ Lefts(f, u, base) /\ t \in 1..32 /\ f[t] = 0 /\ (t > 1 => f[t - 1] # 0)
  /\ Reversed(u, base) = [i \in 1..t |-> Digit[(f[i - 1] % base) + 1]]

\* The loop ends, after at most 32 turns.
LEMMA ReversedIs ==
  ASSUME NEW u \in 0..(WordMod - 1), NEW base \in Bases
  PROVE  \E f, t : Turned(f, u, base, t)
<1> DEFINE f == CHOOSE f : f = [i \in 0..NumSize |-> IF i = 0 THEN u ELSE f[i - 1] \div base]
           Ends(k) == f[k] = 0 /\ (k > 1 => f[k - 1] # 0)
           t == CHOOSE k \in 1..NumSize : Ends(k)
<1>1. NumSize \in Nat /\ NumSize > 33 /\ u \in Nat
  BY NumAssumption, WordAssumption
<1>2. Lefts(f, u, base)
  BY <1>1, LeftsExist
<1>3. Reversed(u, base) = [i \in 1..t |-> Digit[(f[i - 1] % base) + 1]]
  BY DEF Reversed
<1> HIDE DEF f
<1> DEFINE T == {k \in Nat : k + 1 <= NumSize /\ f[k + 1] = 0}
<1>4. 31 \in T /\ T \in SUBSET Nat
  BY <1>1, <1>2, NothingLeft, 32 \in 32..NumSize
<1>5. PICK m \in T : \A k \in T : m <= k
  <2> HIDE DEF T
  <2> QED
    BY <1>4, Least
<1>6. m + 1 \in 1..NumSize /\ f[m + 1] = 0 /\ (m + 1) - 1 = m
  BY <1>1, <1>5
<1>7. ASSUME m > 0 PROVE f[m] # 0
  <2>1. m - 1 \in Nat /\ (m - 1) + 1 = m /\ m <= NumSize /\ m - 1 \notin T
    BY <1>1, <1>5, <1>7
  <2> QED
    BY <2>1
<1>8. Ends(m + 1)
  BY <1>6, <1>7
<1>9. t \in 1..NumSize /\ Ends(t)
  BY <1>6, <1>8
<1> HIDE DEF t
<1>10. t <= 32
  <2>1. SUFFICES ASSUME t > 32 PROVE FALSE
    BY <1>1, <1>9
  <2>2. t - 1 \in 32..NumSize /\ t > 1
    BY <1>1, <1>9, <2>1
  <2>3. f[t - 1] = 0
    BY <1>2, <2>2, NothingLeft
  <2> QED
    BY <1>9, <2>2, <2>3
<1>11. Turned(f, u, base, t)
  BY <1>1, <1>2, <1>3, <1>9, <1>10 DEF Turned
<1> QED
  BY <1>11

LEMMA DigitsDiffer == \A i, j \in 1..16 : Digit[i] = Digit[j] => i = j
BY DEF Digit

LEMMA DigitIs ==
  ASSUME NEW d \in 0..15
  PROVE  DigitValue(Digit[d + 1]) = d
BY DigitsDiffer, d + 1 \in 1..16 DEF DigitValue

\* The digits in the order in which they are shown.
Written(f, u, base, t, digits) ==
  /\ Turned(f, u, base, t)
  /\ digits = [i \in 1..t |-> Digit[(f[t - i] % base) + 1]]

\* They are digits of the base, with no idle 0.
LEMMA DigitsAre ==
  ASSUME NEW u \in 0..(WordMod - 1), NEW base \in Bases, NEW f, NEW t, NEW digits,
         Written(f, u, base, t, digits)
  PROVE  /\ \A i \in 1..t : digits[i] \in {Digit[j] : j \in 1..base}
         /\ digits[1] = "0" => t = 1
<1>1. NumSize \in Nat /\ NumSize > 33 /\ t \in 1..32 /\ base \in Nat /\ base > 1
  BY NumAssumption DEF Bases, Written, Turned
<1>2. ASSUME NEW i \in 1..t
      PROVE  f[t - i] \in Nat /\ f[t - i] % base \in 0..(base - 1) /\ digits[i] = Digit[(f[t - i] % base) + 1]
  <2>1. t - i \in 0..NumSize
    BY <1>1
  <2>2. f[t - i] \in Nat
    BY <2>1 DEF Written, Turned, Lefts
  <2> QED
    BY <2>2, Parts DEF Written
<1>3. ASSUME digits[1] = "0", t > 1 PROVE FALSE
  <2> DEFINE x == f[t - 1]
             r == x % base
  <2>1. x \in Nat /\ r \in 0..(base - 1) /\ digits[1] = Digit[r + 1]
    BY <1>1, <1>2, 1 \in 1..t
  <2>2. x # 0 /\ x \div base = 0
    <3>1. t \in 1..NumSize
      BY <1>1
    <3> QED
      BY <1>3, <3>1 DEF Written, Turned, Lefts
  <2>3. x = base * (x \div base) + r
    BY <2>1, Parts, Zenon
  <2> HIDE DEF r, x
  <2>4. r = x
    <3>1. x = base * 0 + r
      BY <2>2, <2>3, Zenon
    <3> QED
      BY <1>1, <2>1, <3>1
  <2>5. r + 1 \in 1..16 /\ 1 \in 1..16 /\ Digit[1] = "0"
    BY <2>1 DEF Bases, Digit
  <2>6. r + 1 = 1
    BY <1>3, <2>1, <2>5, DigitsDiffer
  <2> QED
    BY <2>1, <2>2, <2>4, <2>6
<1>4. ASSUME NEW i \in 1..t PROVE digits[i] \in {Digit[j] : j \in 1..base}
  <2>1. (f[t - i] % base) + 1 \in 1..base
    BY <1>1, <1>2
  <2> QED
    BY <1>2, <2>1
<1> QED
  BY <1>1, <1>3, <1>4

\* Read back, they are the number.
LEMMA DigitsRead ==
  ASSUME NEW u \in 0..(WordMod - 1), NEW base \in Bases, NEW f, NEW t, NEW digits,
         Written(f, u, base, t, digits)
  PROVE  ReadDigits(digits, base) = u
<1> DEFINE Follows(v) == v = [k \in 0..Len(digits) |-> IF k = 0 THEN 0 ELSE base * v[k - 1] + DigitValue(digits[k])]
           v == CHOOSE v : Follows(v)
           g == [k \in 0..t |-> f[t - k]]
<1>1. NumSize \in Nat /\ NumSize > 33 /\ t \in 1..32 /\ base \in Nat /\ base > 1 /\ Len(digits) = t
  BY NumAssumption DEF Bases, Written, Turned
<1>2. ASSUME NEW k \in 1..t PROVE g[k] = base * g[k - 1] + DigitValue(digits[k])
  <2> DEFINE x == f[t - k]
  <2>1. t - k \in 0..NumSize /\ (t - k) + 1 \in 1..NumSize /\ t - (k - 1) = (t - k) + 1
        /\ ((t - k) + 1) - 1 = t - k
    BY <1>1
  <2>2. x \in Nat /\ f[(t - k) + 1] = x \div base
    BY <2>1 DEF Written, Turned, Lefts
  <2>3. g[k] = x /\ g[k - 1] = x \div base
    <3>1. k \in 0..t /\ k - 1 \in 0..t
      BY <1>1
    <3> QED
      BY <2>1, <2>2, <3>1
  <2>4. DigitValue(digits[k]) = x % base
    <3>1. digits[k] = Digit[(x % base) + 1]
      BY DEF Written
    <3>2. x % base \in 0..15
      BY <2>2, Parts DEF Bases
    <3> HIDE DEF x
    <3> QED
      BY <3>1, <3>2, DigitIs
  <2> HIDE DEF x, g
  <2>5. x = base * (x \div base) + (x % base)
    BY <2>2, Parts
  <2> QED
    BY <2>3, <2>4, <2>5, Zenon
<1>3. g[0] = 0 /\ g[t] = u
  <2>1. g[0] = f[t - 0] /\ g[t] = f[t - t] /\ t - 0 = t /\ t - t = 0
    BY <1>1
  <2>2. f[t] = 0 /\ f[0] = u
    BY DEF Written, Turned, Lefts
  <2> HIDE DEF g
  <2> QED
    BY <2>1, <2>2
<1>4. Follows(g)
  <2>1. ASSUME NEW k \in 0..t PROVE g[k] = IF k = 0 THEN 0 ELSE base * g[k - 1] + DigitValue(digits[k])
    <3>1. CASE k = 0
      BY <1>3, <3>1
    <3>2. CASE k # 0
      <4>1. k \in 1..t
        BY <1>1, <3>2
      <4> HIDE DEF g
      <4> QED
        BY <1>2, <3>2, <4>1
    <3> QED
      BY <3>1, <3>2
  <2> QED
    BY <1>1, <2>1
<1>5. Follows(v)
  BY <1>4
<1>6. ReadDigits(digits, base) = v[t]
  BY <1>1 DEF ReadDigits
<1> HIDE DEF v, g
<1> DEFINE T == {k \in 0..t : v[k] = g[k]}
<1>7. 0 \in T
  BY <1>1, <1>3, <1>5
<1>8. ASSUME NEW k \in 1..t, k - 1 \in T PROVE k \in T
  <2>1. k \in 0..t /\ k # 0
    BY <1>1
  <2>2. v[k] = base * v[k - 1] + DigitValue(digits[k])
    BY <1>1, <1>5, <2>1
  <2> QED
    BY <1>2, <1>8, <2>1, <2>2
<1>9. 0..t \subseteq T
  <2> HIDE DEF T
  <2>1. t \in Nat
    BY <1>1
  <2> QED
    BY <2>1, <1>7, <1>8, Along
<1> QED
  BY <1>1, <1>3, <1>6, <1>9

\* What pad and reverse make of a sequence that fits.
Padded(s, r, n, blanks) ==
  s = [i \in 1..(n + blanks) |-> IF i <= blanks THEN Filler ELSE r[n + blanks + 1 - i]]

LEMMA PaddedIs ==
  ASSUME NEW w \in 0..31, NEW S, NEW r \in Seq(S), NEW n \in 1..33, Len(r) = n,
         NEW blanks, blanks = IF n < w THEN w - n ELSE 0
  PROVE  Padded(Reverse0(Pad(r, w), NumSize), r, n, blanks)
<1> DEFINE p == Pad(r, w)
<1>1. NumSize \in Nat /\ NumSize > 33 /\ blanks \in Nat /\ n + blanks <= 33
  BY NumAssumption
<1>2. p = [i \in 1..(n + blanks) |-> IF i <= n THEN r[i] ELSE Filler]
  <2> DEFINE f == [i \in 1..blanks |-> Filler]
  <2>1. p = r \o f /\ Len(f) = blanks /\ Len(r) = n
    BY <1>1 DEF Pad
  <2>2. f \in Seq(S \cup {Filler}) /\ r \in Seq(S \cup {Filler}) /\ \A i \in 1..blanks : f[i] = Filler
    BY <1>1
  <2> HIDE DEF p, f
  <2>3. p = [i \in 1..(n + blanks) |-> IF i <= n THEN r[i] ELSE f[i - n]]
    <3> DEFINE X == S \cup {Filler}
    <3>1. f \in Seq(X) /\ r \in Seq(X)
      BY <2>2
    <3> HIDE DEF X
    <3>2. p \in Seq(X) /\ Len(p) = n + blanks
      BY <2>1, <3>1, ConcatProperties
    <3>3. ASSUME NEW i \in 1..(n + blanks) PROVE p[i] = IF i <= n THEN r[i] ELSE f[i - n]
      BY <1>1, <2>1, <3>1, ConcatProperties
    <3>4. p = [i \in 1..(n + blanks) |-> p[i]]
      BY <3>2
    <3> QED
      BY <3>3, <3>4
  <2>4. \A i \in 1..(n + blanks) : ~(i <= n) => i - n \in 1..blanks
    BY <1>1
  <2> QED
    BY <2>2, <2>3, <2>4
<1>3. Len(p) = n + blanks
  <2> HIDE DEF p
  <2> QED
    BY <1>1, <1>2
<1>4. Reverse0(p, NumSize) = [i \in 1..(n + blanks) |-> p[n + blanks - i + 1]]
  <2> HIDE DEF p
  <2> QED
    BY <1>1, <1>3 DEF Reverse0, Reverse
<1>5. ASSUME NEW i \in 1..(n + blanks)
      PROVE  p[n + blanks - i + 1] = IF i <= blanks THEN Filler ELSE r[n + blanks + 1 - i]
  <2> HIDE DEF p
  <2>1. n + blanks - i + 1 \in 1..(n + blanks) /\ n + blanks - i + 1 = n + blanks + 1 - i
        /\ (n + blanks - i + 1 <= n <=> ~(i <= blanks))
    BY <1>1
  <2> QED
    BY <1>2, <2>1
<1> HIDE DEF p
<1>6. Reverse0(p, NumSize) = [i \in 1..(n + blanks) |-> IF i <= blanks THEN Filler ELSE r[n + blanks + 1 - i]]
  BY <1>4, <1>5
<1> QED
  BY <1>6 DEF p, Padded

\* A number with its digits, its sign and its blanks is read back.
LEMMA NumberReads ==
  ASSUME NEW u \in 0..(WordMod - 1), NEW base \in Bases, NEW w \in 0..31, NEW sign \in {0, 1},
         NEW s, s = Reverse0(Pad(Reversed(u, base) \o (IF sign = 1 THEN <<"-">> ELSE <<>>), w), NumSize)
  PROVE  s \in Seq(Range(s)) /\ Reads(s, base, w, (IF sign = 1 THEN -1 ELSE 1) * u)
<1>1. PICK f, t : Turned(f, u, base, t)
  BY ReversedIs
<1> DEFINE digits == [i \in 1..t |-> Digit[(f[t - i] % base) + 1]]
           back == Reversed(u, base)
           r == back \o (IF sign = 1 THEN <<"-">> ELSE <<>>)
           n == t + sign
           blanks == IF n < w THEN w - n ELSE 0
<1>0. s = Reverse0(Pad(r, w), NumSize)
  OBVIOUS
<1>2. Written(f, u, base, t, digits)
  BY <1>1 DEF Written
<1>3. t \in 1..32 /\ n \in 1..33 /\ blanks \in Nat /\ (n + blanks >= w) /\ (blanks > 0 => n + blanks = w)
  BY <1>1 DEF Turned
<1>4. back \in Seq({back[i] : i \in 1..t}) /\ Len(back) = t
  <2>1. back = [i \in 1..t |-> Digit[(f[i - 1] % base) + 1]] /\ t \in Nat
    BY <1>1, <1>3 DEF Turned
  <2> HIDE DEF back
  <2>2. back = [i \in 1..t |-> back[i]]
    BY <2>1
  <2> DEFINE X == {back[i] : i \in 1..t}
  <2>3. t \in Nat /\ \A i \in 1..t : back[i] \in X
    BY <2>1
  <2> HIDE DEF X
  <2>4. back \in Seq(X) /\ Len(back) = t
    BY <2>2, <2>3
  <2> QED
    BY <2>4 DEF X
<1>5. \A i \in 1..t : back[t + 1 - i] = digits[i]
  <2>1. ASSUME NEW i \in 1..t PROVE back[t + 1 - i] = digits[i]
    <3>1. t + 1 - i \in 1..t /\ (t + 1 - i) - 1 = t - i
      BY <1>3
    <3> QED
      BY <1>1, <3>1 DEF Turned
  <2> QED
    BY <2>1
<1>6. /\ Len(r) = n /\ r \in Seq({back[i] : i \in 1..t} \cup {"-"})
      /\ \A i \in 1..t : r[i] = back[i]
      /\ sign = 1 => r[t + 1] = "-"
  <2> HIDE DEF back
  <2>1. CASE sign = 1
    BY <1>3, <1>4, <2>1
  <2>2. CASE sign = 0
    BY <1>3, <1>4, <2>2
  <2> QED
    BY <2>1, <2>2
<1> HIDE DEF r
<1>7. s = [i \in 1..(n + blanks) |-> IF i <= blanks THEN Filler ELSE r[n + blanks + 1 - i]]
  <2> DEFINE X == {back[i] : i \in 1..t} \cup {"-"}
  <2>1. blanks = (IF n < w THEN w - n ELSE 0) /\ r \in Seq(X) /\ Len(r) = n
    BY <1>6
  <2> HIDE DEF n, X, blanks
  <2>2. Padded(s, r, n, blanks)
    BY <1>0, <1>3, <2>1, PaddedIs
  <2> QED
    BY <2>2 DEF Padded
<1> HIDE DEF n, blanks, digits, back
<1>8. Len(s) = n + blanks
  BY <1>3, <1>7
<1>9. ASSUME NEW i \in 1..t PROVE s[i + blanks + sign] = digits[i]
  <2>1. i + blanks + sign \in 1..(n + blanks) /\ ~(i + blanks + sign <= blanks)
        /\ n + blanks + 1 - (i + blanks + sign) = t + 1 - i /\ t + 1 - i \in 1..t
    BY <1>3 DEF n
  <2>2. s[i + blanks + sign] = r[t + 1 - i]
    BY <1>7, <2>1
  <2> QED
    BY <1>5, <1>6, <2>1, <2>2
<1>10. SubSeq(s, blanks + sign + 1, Len(s)) = digits
  <2>1. Len(s) = blanks + sign + t
    BY <1>3, <1>8 DEF n
  <2>2. digits = [i \in 1..t |-> digits[i]]
    BY DEF digits
  <2>3. SubSeq(s, blanks + sign + 1, Len(s)) = [i \in 1..t |-> s[i + blanks + sign]]
    BY <1>3, <2>1
  <2> QED
    BY <1>9, <2>2, <2>3
<1>11. Blank(SubSeq(s, 1, blanks))
  <2>1. \A i \in 1..blanks : s[i] = Filler
    BY <1>3, <1>7
  <2>2. \A i \in 1..blanks : SubSeq(s, 1, blanks)[i] = s[i]
    BY <1>3
  <2>3. Len(SubSeq(s, 1, blanks)) = blanks
    BY <1>3
  <2> QED
    BY <2>1, <2>2, <2>3 DEF Blank
<1>12. sign = 1 => s[blanks + 1] = "-"
  <2>1. SUFFICES ASSUME sign = 1 PROVE s[blanks + 1] = "-"
    OBVIOUS
  <2>2. blanks + 1 \in 1..(n + blanks) /\ ~(blanks + 1 <= blanks) /\ n + blanks + 1 - (blanks + 1) = t + 1
    BY <1>3, <2>1 DEF n
  <2> QED
    BY <1>6, <1>7, <2>1, <2>2
<1>13. ReadDigits(digits, base) = u
  BY <1>2, DigitsRead
<1>14. (\A i \in 1..t : digits[i] \in {Digit[j] : j \in 1..base}) /\ (digits[1] = "0" => t = 1)
  BY <1>2, DigitsAre
<1>15. Len(digits) = t /\ blanks \in 0..Len(s) /\ sign \in 0..Len(s) /\ blanks + sign < Len(s)
  BY <1>3, <1>8 DEF digits, n
<1>16. Len(s) >= w /\ (blanks > 0 => Len(s) = w)
  BY <1>3, <1>8
<1>17. Reads(s, base, w, (IF sign = 1 THEN -1 ELSE 1) * u)
  BY <1>10, <1>11, <1>12, <1>13, <1>14, <1>15, <1>16, Zenon DEF Reads
<1>18. s \in Seq(Range(s))
  <2>1. n + blanks \in Nat /\ DOMAIN s = 1..(n + blanks)
    BY <1>3, <1>7
  <2>2. s = [i \in 1..(n + blanks) |-> s[i]]
    BY <1>7
  <2>3. \A i \in 1..(n + blanks) : s[i] \in Range(s)
    BY <2>1 DEF Range
  <2> HIDE DEF Range
  <2> QED
    BY <2>1, <2>2, <2>3
<1> QED
  BY <1>17, <1>18

\* The least int, too, is shown by its size.
LEMMA MagnitudeIs ==
  ASSUME NEW val \in Ints, NEW signed \in BOOLEAN
  PROVE  /\ Magnitude(val, signed) \in 0..(WordMod - 1)
         /\ Magnitude(val, signed) = IF signed THEN (IF val < 0 THEN -val ELSE val) ELSE val % WordMod
<1> DEFINE m == WordMod
<1>1. m \in Nat \ {0} /\ val \in Int /\ val < m /\ -val < m
  BY WordAssumption DEF Ints
<1>2. \A x \in Int : x % m \in 0..(m - 1)
  <2> HIDE DEF m
  <2> QED
    BY <1>1, Z3
<1>3. \A x \in 0..(m - 1) : x % m = x
  <2>1. SUFFICES ASSUME NEW x \in 0..(m - 1) PROVE x % m = x
    OBVIOUS
  <2> HIDE DEF m
  <2>2. (0 * m + x) % m = x
    BY <1>1, QuotientIs
  <2>3. 0 * m + x = x
    BY <1>1
  <2> QED
    BY <2>2, <2>3
<1> HIDE DEF m
<1>4. CASE signed /\ val < 0
  <2>1. -val \in 0..(m - 1) /\ Magnitude(val, signed) = (-val) % m
    BY <1>1, <1>4 DEF Magnitude, m
  <2> QED
    BY <1>3, <1>4, <2>1 DEF m
<1>5. CASE ~(signed /\ val < 0)
  <2>1. Magnitude(val, signed) = val % m /\ (signed => val \in 0..(m - 1))
    BY <1>1, <1>5 DEF Magnitude, m
  <2> QED
    BY <1>1, <1>2, <1>3, <1>5, <2>1 DEF m
<1> QED
  BY <1>4, <1>5

\* A conversion shows its number.
BaseOf(conv) == CASE conv \in {"d", "u"} -> 10 [] conv = "x" -> 16 [] conv = "b" -> 2

\* What emit makes of an int is read back as that int.
LEMMA EmitReads ==
  ASSUME NEW base \in Bases, NEW val \in Ints, NEW width \in 0..31, NEW signed \in BOOLEAN,
         signed => base = 10,
         NEW s, s = EmitNumber(base, NumSize, val, width, signed)
  PROVE  s \in Seq(Range(s)) /\ Reads(s, base, width, IF signed THEN val ELSE val % WordMod)
<1> DEFINE sign == IF val < 0 /\ signed THEN 1 ELSE 0
           u == Magnitude(val, signed)
           v == (IF sign = 1 THEN -1 ELSE 1) * u
<1>1. ~(width > NumSize) /\ val \in Int
  BY NumAssumption, WordAssumption DEF Ints
<1>2. s = Reverse0(Pad(Reversed(u, base) \o (IF sign = 1 THEN <<"-">> ELSE <<>>), width), NumSize)
  <2>1. (base = 10 /\ signed) = signed /\ (base = 10 /\ val < 0 /\ signed <=> sign = 1)
    OBVIOUS
  <2> QED
    BY <1>1, <2>1 DEF EmitNumber
<1>3. u \in 0..(WordMod - 1) /\ u = (IF signed THEN (IF val < 0 THEN -val ELSE val) ELSE val % WordMod)
  BY MagnitudeIs
<1>4. sign \in {0, 1} /\ v = IF signed THEN val ELSE val % WordMod
  <2> HIDE DEF u
  <2>1. u \in Int
    BY <1>3, WordAssumption
  <2>2. CASE val < 0 /\ signed
    <3>1. sign = 1 /\ u = -val /\ v = (-1) * u
      BY <1>3, <2>2
    <3> QED
      BY <1>1, <2>2, <3>1
  <2>3. CASE ~(val < 0 /\ signed)
    <3>1. sign = 0 /\ v = 1 * u /\ u = IF signed THEN val ELSE val % WordMod
      BY <1>1, <1>3, <2>3
    <3> QED
      BY <2>1, <3>1
  <2> QED
    BY <2>2, <2>3
<1>5. s \in Seq(Range(s)) /\ Reads(s, base, width, v)
  <2> HIDE DEF u, sign
  <2> QED
    BY <1>2, <1>3, <1>4, NumberReads
<1> HIDE DEF v
<1> QED
  BY <1>4, <1>5

LEMMA ShownReads ==
  ASSUME NEW conv \in {"d", "u", "x", "b"}, NEW width \in 0..31, NEW val \in Ints
  PROVE  Reads(Shown(Conv(conv, width, val)), BaseOf(conv), width, IF conv = "d" THEN val ELSE val % WordMod)
<1> DEFINE item == Conv(conv, width, val)
           s == Shown(item)
<1>1. item.conv = conv /\ item.width = width /\ item.arg = val
  BY DEF Conv
<1> HIDE DEF item
<1>2. CASE conv = "d"
  <2>1. s = EmitNumber(10, NumSize, val, width, TRUE) /\ BaseOf(conv) = 10
    BY <1>1, <1>2 DEF Shown, BaseOf
  <2> QED
    BY <1>2, <2>1, EmitReads DEF Bases, item
<1>3. CASE conv = "u"
  <2>1. s = EmitNumber(10, NumSize, val, width, FALSE) /\ BaseOf(conv) = 10
    BY <1>1, <1>3 DEF Shown, BaseOf
  <2> QED
    BY <1>3, <2>1, EmitReads DEF Bases, item
<1>4. CASE conv = "x"
  <2>1. s = EmitNumber(16, NumSize, val, width, FALSE) /\ BaseOf(conv) = 16
    BY <1>1, <1>4 DEF Shown, BaseOf
  <2> QED
    BY <1>4, <2>1, EmitReads DEF Bases, item
<1>5. CASE conv = "b"
  <2>1. s = EmitNumber(2, NumSize, val, width, FALSE) /\ BaseOf(conv) = 2
    BY <1>1, <1>5 DEF Shown, BaseOf
  <2> QED
    BY <1>5, <2>1, EmitReads DEF Bases, item
<1> QED
  BY <1>2, <1>3, <1>4, <1>5

\* It is a sequence.
LEMMA PaddedType ==
  ASSUME NEW s, NEW r, NEW n \in Nat, NEW blanks \in Nat, Padded(s, r, n, blanks)
  PROVE  s \in Seq(Range(s)) /\ Len(s) = n + blanks
<1>1. n + blanks \in Nat /\ DOMAIN s = 1..(n + blanks)
  BY DEF Padded
<1>2. s = [i \in 1..(n + blanks) |-> s[i]]
  BY DEF Padded
<1>3. \A i \in 1..(n + blanks) : s[i] \in Range(s)
  BY <1>1 DEF Range
<1> QED
  BY <1>1, <1>2, <1>3

\* What an item shows is a sequence.
LEMMA ShownType ==
  ASSUME NEW item, Printable(item)
  PROVE  Shown(item) \in Seq(Range(Shown(item)))
<1> DEFINE s == Shown(item)
<1>1. CASE item.conv = "char"
  <2>1. s = <<item.arg>>
    BY <1>1 DEF Shown
  <2>2. Range(s) = {item.arg}
    BY <2>1 DEF Range
  <2>3. <<item.arg>> \in Seq({item.arg})
    OBVIOUS
  <2> HIDE DEF s
  <2>4. s \in Seq(Range(s))
    BY <2>1, <2>2, <2>3, Zenon
  <2> QED
    BY <2>4 DEF s
<1>2. CASE item.conv = "s"
  BY <1>2 DEF Shown, Printable
<1>3. CASE item.conv = "c"
  <2> DEFINE w == item.width
             r == <<item.arg>>
             blanks == IF 1 < w THEN w - 1 ELSE 0
  <2>1. w \in 0..31
    BY <1>3 DEF Printable
  <2>2. s = Reverse0(Pad(r, w), NumSize)
    BY <1>3, <2>1, NumAssumption DEF Shown, EmitChar
  <2>3. r \in Seq({item.arg}) /\ 1 \in 1..33 /\ Len(r) = 1 /\ blanks \in Nat
    BY <2>1
  <2> HIDE DEF s, r, w
  <2>4. Padded(s, r, 1, blanks)
    BY <2>1, <2>2, <2>3, PaddedIs
  <2>5. 1 \in Nat
    OBVIOUS
  <2>6. s \in Seq(Range(s))
    BY <2>3, <2>4, <2>5, PaddedType, Zenon
  <2> QED
    BY <2>6 DEF s
<1>4. CASE item.conv \in {"d", "u", "x", "p", "b"}
  <2>1. item.width \in 0..31 /\ item.arg \in Ints
    BY <1>4 DEF Printable
  <2>2. PICK base \in Bases, signed \in BOOLEAN :
          (signed => base = 10) /\ s = EmitNumber(base, NumSize, item.arg, item.width, signed)
    BY <1>4 DEF Shown, Bases
  <2> HIDE DEF s
  <2>3. s \in Seq(Range(s))
    BY <2>1, <2>2, EmitReads, Zenon
  <2> QED
    BY <2>3 DEF s
<1> QED
  BY <1>1, <1>2, <1>3, <1>4 DEF Printable

\* As much of s as m characters have room for.
Cut(s, m) == SubSeq(s, 1, IF Len(s) <= m THEN Len(s) ELSE m)

LEMMA CutIs ==
  ASSUME NEW C, NEW s \in Seq(C), NEW m \in Nat, NEW c, c = Cut(s, m)
  PROVE  /\ c \in Seq(C) /\ Len(c) = IF Len(s) <= m THEN Len(s) ELSE m
         /\ \A i \in 1..Len(c) : c[i] = s[i]
<1> DEFINE n == Len(s)
           k == IF n <= m THEN n ELSE m
<1>1. n \in Nat /\ k \in 0..n
  OBVIOUS
<1>2. c = SubSeq(s, 1, k)
  BY DEF Cut
<1> HIDE DEF k
<1>3. c \in Seq(C) /\ Len(c) = k /\ \A i \in 1..k : c[i] = s[i]
  BY <1>1, <1>2, SubSeqProperties
<1> QED
  BY <1>3 DEF k

LEMMA RoomIs ==
  ASSUME NEW C, NEW b \in Seq(C), NEW n \in Nat \ {0}, NEW x \in Seq(C), Len(x) <= n - 1,
         NEW y, y = Room(n, x, b)
  PROVE  /\ y \in Seq(C) /\ Len(y) = IF Len(b) <= n - 1 - Len(x) THEN Len(b) ELSE n - 1 - Len(x)
         /\ \A i \in 1..Len(y) : y[i] = b[i]
<1> DEFINE m == n - 1 - Len(x)
<1>1. m \in Nat /\ Len(b) \in Nat
  OBVIOUS
<1>2. y = IF Len(b) <= m THEN b ELSE SubSeq(b, 1, m)
  BY DEF Room
<1> HIDE DEF m
<1>3. CASE Len(b) <= m
  BY <1>2, <1>3 DEF m
<1>4. CASE ~(Len(b) <= m)
  <2>1. y = SubSeq(b, 1, m) /\ m < Len(b)
    BY <1>1, <1>2, <1>4
  <2>2. y \in Seq(C) /\ Len(y) = m /\ \A i \in 1..m : y[i] = b[i]
    BY <1>1, <2>1, SubSeqProperties
  <2> QED
    BY <1>4, <2>2 DEF m
<1> QED
  BY <1>3, <1>4

\* What is cut from two texts, one after the other.
LEMMA CutJoin ==
  ASSUME NEW C, NEW a \in Seq(C), NEW b \in Seq(C), NEW n \in Nat \ {0}
  PROVE  Cut(a \o b, n - 1) = Cut(a, n - 1) \o Room(n, Cut(a, n - 1), b)
<1> DEFINE m == n - 1
           whole == a \o b
           x == Cut(a, m)
           y == Room(n, x, b)
           c == Cut(whole, m)
           d == x \o y
<1>1. m \in Nat /\ Len(a) \in Nat /\ Len(b) \in Nat
  OBVIOUS
<1>2. whole \in Seq(C) /\ Len(whole) = Len(a) + Len(b)
      /\ \A i \in 1..(Len(a) + Len(b)) : whole[i] = IF i <= Len(a) THEN a[i] ELSE b[i - Len(a)]
  BY ConcatProperties
<1> HIDE DEF m, whole
<1>3. x \in Seq(C) /\ Len(x) = (IF Len(a) <= m THEN Len(a) ELSE m) /\ \A i \in 1..Len(x) : x[i] = a[i]
  BY <1>1, CutIs
<1>4. c \in Seq(C) /\ Len(c) = (IF Len(whole) <= m THEN Len(whole) ELSE m) /\ \A i \in 1..Len(c) : c[i] = whole[i]
  BY <1>1, <1>2, CutIs
<1> HIDE DEF x, c
<1>5. /\ y \in Seq(C) /\ Len(y) = (IF Len(b) <= m - Len(x) THEN Len(b) ELSE m - Len(x))
      /\ \A i \in 1..Len(y) : y[i] = b[i]
  <2>1. Len(x) <= n - 1 /\ m = n - 1
    BY <1>1, <1>3 DEF m
  <2>2. y = Room(n, x, b)
    OBVIOUS
  <2> HIDE DEF y
  <2>3. /\ y \in Seq(C) /\ Len(y) = (IF Len(b) <= n - 1 - Len(x) THEN Len(b) ELSE n - 1 - Len(x))
        /\ \A i \in 1..Len(y) : y[i] = b[i]
    <3>1. x \in Seq(C) /\ Len(x) <= n - 1
      BY <1>3, <2>1
    <3> QED
      BY <2>2, <3>1, RoomIs, SMTT(60)
  <2> QED
    BY <2>1, <2>3
<1> HIDE DEF y
<1>6. d \in Seq(C) /\ Len(d) = Len(x) + Len(y)
      /\ \A i \in 1..(Len(x) + Len(y)) : d[i] = IF i <= Len(x) THEN x[i] ELSE y[i - Len(x)]
  BY <1>3, <1>5, ConcatProperties
<1> HIDE DEF d
<1>7. Len(d) = Len(c)
  <2>1. Len(x) = (IF Len(a) <= m THEN Len(a) ELSE m)
    BY <1>3
  <2>2. Len(c) = (IF Len(whole) <= m THEN Len(whole) ELSE m) /\ Len(whole) = Len(a) + Len(b)
    BY <1>2, <1>4
  <2>3. Len(d) = Len(x) + Len(y) /\ Len(y) = (IF Len(b) <= m - Len(x) THEN Len(b) ELSE m - Len(x))
    BY <1>5, <1>6
  <2>4. m \in Nat /\ Len(a) \in Nat /\ Len(b) \in Nat
    BY <1>1
  <2>5. CASE Len(a) <= m
    BY <2>1, <2>2, <2>3, <2>4, <2>5
  <2>6. CASE ~(Len(a) <= m)
    BY <2>1, <2>2, <2>3, <2>4, <2>6
  <2> QED
    BY <2>5, <2>6
<1>8. ASSUME NEW i \in 1..Len(c) PROVE c[i] = d[i]
  <2>1. i \in 1..(Len(a) + Len(b)) /\ i \in 1..(Len(x) + Len(y)) /\ i <= m
    BY <1>1, <1>2, <1>4, <1>6, <1>7
  <2>2. CASE i <= Len(x)
    <3>1. i <= Len(a) /\ i \in 1..Len(x)
      BY <1>1, <1>3, <2>1, <2>2
    <3> QED
      BY <1>2, <1>3, <1>4, <1>6, <2>1, <2>2, <3>1
  <2>3. CASE ~(i <= Len(x))
    <3>1. Len(x) = Len(a) /\ ~(i <= Len(a)) /\ i - Len(x) \in 1..Len(y)
      BY <1>1, <1>3, <1>5, <2>1, <2>3
    <3> QED
      BY <1>2, <1>4, <1>5, <1>6, <2>1, <2>3, <3>1
  <2> QED
    BY <2>2, <2>3
<1>9. c = d
  BY <1>4, <1>6, <1>7, <1>8, SeqEqual
<1> QED
  BY <1>9 DEF c, d, x, y, whole, m

\* The whole text, conversion by conversion, in any set of characters.
Joins(g, seqs, n, whole, C) ==
  /\ g \in [0..n -> Seq(C)] /\ g[0] = <<>> /\ whole = g[n]
  /\ \A i \in 1..n : g[i] = g[i - 1] \o seqs[i]

LEMMA WholeIs ==
  ASSUME NEW C, NEW n \in Nat \ {0}, NEW seqs \in [1..n -> Seq(C)]
  PROVE  \E g : Joins(g, seqs, n, FlattenSeq(seqs), C)
<1> DEFINE f == CHOOSE f : Flattened(seqs, n, f)
           g == [i \in 0..n |-> IF i = 0 THEN <<>> ELSE f[i]]
<1>1. \E h : Flattened(seqs, n, h)
  BY FlattenedExists
<1>2. Flattened(seqs, n, f)
  BY <1>1
<1>3. FlattenSeq(seqs) = f[n]
  <2>1. Len(seqs) = n /\ n # 0
    OBVIOUS
  <2> QED
    BY <2>1 DEF FlattenSeq, Flattened
<1> HIDE DEF f
<1>4. ASSUME NEW i \in 1..n PROVE g[i] = g[i - 1] \o seqs[i]
  <2>1. f[i] = IF i = 1 THEN seqs[i] ELSE f[i - 1] \o seqs[i]
    BY <1>2 DEF Flattened
  <2>2. g[i] = f[i] /\ (i # 1 => g[i - 1] = f[i - 1]) /\ (i = 1 => g[i - 1] = <<>>)
    OBVIOUS
  <2>3. <<>> \o seqs[i] = seqs[i]
    BY ConcatEmptySeq
  <2> HIDE DEF g
  <2> QED
    BY <2>1, <2>2, <2>3
<1>5. g[0] = <<>> /\ g[n] = f[n] /\ g = [i \in 0..n |-> g[i]]
  OBVIOUS
<1> HIDE DEF g
<1> DEFINE T == {i \in 0..n : g[i] \in Seq(C)}
<1>6. 0 \in T
  <2>1. 0 \in 0..n /\ <<>> \in Seq(C)
    OBVIOUS
  <2> QED
    BY <1>5, <2>1
<1>7. ASSUME NEW i \in 1..n, i - 1 \in T PROVE i \in T
  <2>1. g[i - 1] \in Seq(C) /\ seqs[i] \in Seq(C) /\ i \in 0..n
    BY <1>7
  <2>2. g[i - 1] \o seqs[i] \in Seq(C)
    BY <2>1, ConcatProperties
  <2> QED
    BY <1>4, <2>1, <2>2
<1>8. 0..n \subseteq T
  <2> HIDE DEF T
  <2> QED
    BY <1>6, <1>7, Along
<1>9. g \in [0..n -> Seq(C)]
  BY <1>5, <1>8
<1> QED
  BY <1>3, <1>4, <1>5, <1>9 DEF Joins

\* A buffer of some size keeps the beginning of the whole text.
LEMMA SnprintkCuts ==
  ASSUME NEW C, NEW n \in Nat \ {0}, NEW fmt, Len(fmt) \in Nat,
         \A i \in 1..Len(fmt) : Shown(fmt[i]) \in Seq(C)
  PROVE  LET whole == FlattenSeq([i \in 1..Len(fmt) |-> Shown(fmt[i])]) IN
         /\ VaPrintk(n, fmt).text = Cut(whole, n - 1)
         /\ VaPrintk(n, fmt).ret = (IF Len(whole) <= n - 1 THEN Len(whole) ELSE n - 1) + 1
         /\ whole \in Seq(C)
<1> DEFINE k == Len(fmt)
           seqs == [i \in 1..k |-> Shown(fmt[i])]
           whole == FlattenSeq(seqs)
           Follows(out) == out = [i \in 0..k |-> IF i = 0 THEN <<>> ELSE out[i - 1] \o Room(n, out[i - 1], Shown(fmt[i]))]
           out == CHOOSE out : Follows(out)
           text == out[k]
<1>1. VaPrintk(n, fmt) = [text |-> text, ret |-> Len(text) + 1]
  BY DEF VaPrintk
<1>2. k \in Nat /\ seqs \in [1..k -> Seq(C)] /\ \A i \in 1..k : seqs[i] = Shown(fmt[i])
  OBVIOUS
<1>3. \E g : Joins(g, seqs, k, whole, C)
  <2>1. CASE k = 0
    <3> DEFINE g == [i \in 0..0 |-> <<>>]
    <3>1. Len(seqs) = 0 /\ seqs = <<>>
      BY <2>1
    <3>2. whole = <<>>
      BY <3>1 DEF FlattenSeq
    <3>3. g \in [0..k -> Seq(C)] /\ g[0] = <<>> /\ g[k] = <<>> /\ 1..k = {}
      BY <2>1
    <3> HIDE DEF g, whole, seqs
    <3>4. Joins(g, seqs, k, whole, C)
      BY <3>2, <3>3 DEF Joins
    <3> QED
      BY <3>4
  <2>2. CASE k # 0
    <3> HIDE DEF k, seqs
    <3>1. k \in Nat \ {0} /\ seqs \in [1..k -> Seq(C)]
      BY <1>2, <2>2
    <3> QED
      BY <3>1, WholeIs
  <2> QED
    BY <2>1, <2>2
<1> HIDE DEF whole, seqs, k
<1>4. PICK g : /\ g \in [0..k -> Seq(C)] /\ g[0] = <<>> /\ whole = g[k]
               /\ \A i \in 1..k : g[i] = g[i - 1] \o seqs[i]
  BY <1>3 DEF Joins
<1> DEFINE h == [i \in 0..k |-> Cut(g[i], n - 1)]
<1>5. n - 1 \in Nat
  OBVIOUS
<1>6. ASSUME NEW i \in 1..k PROVE h[i] = h[i - 1] \o Room(n, h[i - 1], Shown(fmt[i]))
  <2>1. i \in 0..k /\ i - 1 \in 0..k
    BY <1>2
  <2>2. g[i - 1] \in Seq(C) /\ seqs[i] \in Seq(C) /\ g[i] = g[i - 1] \o seqs[i]
    BY <1>2, <1>4, <2>1
  <2>3. Cut(g[i], n - 1) = Cut(g[i - 1], n - 1) \o Room(n, Cut(g[i - 1], n - 1), seqs[i])
    <3> DEFINE a == g[i - 1]
               b == seqs[i]
    <3>1. a \in Seq(C) /\ b \in Seq(C) /\ g[i] = a \o b
      BY <2>2
    <3> HIDE DEF a, b
    <3>2. Cut(a \o b, n - 1) = Cut(a, n - 1) \o Room(n, Cut(a, n - 1), b)
      BY <3>1, CutJoin, Zenon
    <3> QED
      BY <3>1, <3>2, Zenon DEF a, b
  <2>4. h[i] = Cut(g[i], n - 1) /\ h[i - 1] = Cut(g[i - 1], n - 1) /\ seqs[i] = Shown(fmt[i])
    BY <1>2, <2>1
  <2> HIDE DEF h
  <2> QED
    BY <2>3, <2>4
<1>7. h[0] = <<>> /\ h[k] = Cut(whole, n - 1)
  <2>1. Cut(<<>>, n - 1) = <<>>
    <3> DEFINE c == Cut(<<>>, n - 1)
    <3>1. <<>> \in Seq(C) /\ Len(<<>>) = 0
      OBVIOUS
    <3>2. \A s \in Seq(C) : Cut(s, n - 1) \in Seq(C) /\ (Len(s) = 0 => Len(Cut(s, n - 1)) = 0)
      BY <1>5, CutIs
    <3>3. c \in Seq(C) /\ Len(c) = 0
      BY <3>1, <3>2
    <3> HIDE DEF c
    <3>4. c = <<>>
      BY <3>3, EmptySeq
    <3> QED
      BY <3>4 DEF c
  <2>2. 0 \in 0..k /\ k \in 0..k
    BY <1>2
  <2> QED
    BY <1>4, <2>1, <2>2
<1>8. Follows(h)
  <2>1. ASSUME NEW i \in 0..k
        PROVE  h[i] = IF i = 0 THEN <<>> ELSE h[i - 1] \o Room(n, h[i - 1], Shown(fmt[i]))
    <3>1. CASE i = 0
      BY <1>7, <3>1
    <3>2. CASE i # 0
      <4>1. i \in 1..k
        BY <1>2, <3>2
      <4> HIDE DEF h
      <4> QED
        BY <1>6, <3>2, <4>1
    <3> QED
      BY <3>1, <3>2
  <2>2. h = [i \in 0..k |-> h[i]]
    OBVIOUS
  <2> HIDE DEF h
  <2> QED
    BY <2>1, <2>2
<1> HIDE DEF h
<1>9. Follows(out)
  BY <1>8
<1> HIDE DEF out
<1> DEFINE T == {i \in 0..k : out[i] = h[i]}
<1>10. 0 \in T
  BY <1>2, <1>7, <1>9
<1>11. ASSUME NEW i \in 1..k, i - 1 \in T PROVE i \in T
  <2>1. i \in 0..k /\ i # 0
    BY <1>2
  <2>2. out[i] = out[i - 1] \o Room(n, out[i - 1], Shown(fmt[i]))
    BY <1>9, <2>1
  <2> QED
    BY <1>6, <1>11, <2>1, <2>2
<1>12. 0..k \subseteq T
  <2> HIDE DEF T
  <2> QED
    BY <1>2, <1>10, <1>11, Along
<1>13. text = Cut(whole, n - 1)
  BY <1>2, <1>7, <1>12
<1>14. whole \in Seq(C)
  BY <1>2, <1>4
<1>15. Len(text) = IF Len(whole) <= n - 1 THEN Len(whole) ELSE n - 1
  BY <1>5, <1>13, <1>14, CutIs
<1> HIDE DEF text
<1>16. VaPrintk(n, fmt).text = text /\ VaPrintk(n, fmt).ret = Len(text) + 1
  BY <1>1
<1> QED
  BY <1>13, <1>14, <1>15, <1>16 DEF whole, seqs, k

\* One of none keeps nothing.
LEMMA SnprintkNone ==
  ASSUME NEW C, NEW n \in Int, n <= 0, NEW fmt, Len(fmt) \in Nat,
         \A i \in 1..Len(fmt) : Shown(fmt[i]) \in Seq(C)
  PROVE  VaPrintk(n, fmt).text = <<>> /\ VaPrintk(n, fmt).ret = 1
<1> DEFINE k == Len(fmt)
           Follows(out) == out = [i \in 0..k |-> IF i = 0 THEN <<>> ELSE out[i - 1] \o Room(n, out[i - 1], Shown(fmt[i]))]
           out == CHOOSE out : Follows(out)
           none == [i \in 0..k |-> <<>>]
           text == out[k]
<1>1. VaPrintk(n, fmt) = [text |-> text, ret |-> Len(text) + 1]
  BY DEF VaPrintk
<1>2. ASSUME NEW i \in 1..k PROVE <<>> \o Room(n, <<>>, Shown(fmt[i])) = <<>>
  <2> DEFINE s == Shown(fmt[i])
  <2>1. s \in Seq(C) /\ Len(s) \in Nat /\ Len(<<>>) = 0
    OBVIOUS
  <2> HIDE DEF s
  <2>2. ~(Len(s) <= n - 1 - Len(<<>>))
    BY <2>1
  <2>3. Room(n, <<>>, s) = SubSeq(s, 1, n - 1)
    BY <2>1, <2>2 DEF Room
  <2>4. SubSeq(s, 1, n - 1) = <<>>
    BY <2>1
  <2>5. <<>> \o <<>> = <<>>
    OBVIOUS
  <2> QED
    BY <2>3, <2>4, <2>5 DEF s
<1>3. Follows(none)
  <2>1. \A i \in 0..k : none[i] = <<>> /\ (i # 0 => i \in 1..k /\ none[i - 1] = <<>>)
    OBVIOUS
  <2>2. \A i \in 0..k : none[i] = IF i = 0 THEN <<>> ELSE none[i - 1] \o Room(n, none[i - 1], Shown(fmt[i]))
    BY <1>2, <2>1
  <2>3. none = [i \in 0..k |-> none[i]]
    OBVIOUS
  <2> HIDE DEF none
  <2> QED
    BY <2>2, <2>3
<1> HIDE DEF none
<1>4. Follows(out)
  BY <1>3
<1> HIDE DEF out
<1> DEFINE T == {i \in 0..k : out[i] = <<>>}
<1>5. 0 \in T
  BY <1>4
<1>6. ASSUME NEW i \in 1..k, i - 1 \in T PROVE i \in T
  <2>1. i \in 0..k /\ i # 0
    OBVIOUS
  <2>2. out[i] = out[i - 1] \o Room(n, out[i - 1], Shown(fmt[i]))
    BY <1>4, <2>1
  <2> QED
    BY <1>2, <1>6, <2>1, <2>2
<1>7. 0..k \subseteq T
  <2> HIDE DEF T
  <2> QED
    BY <1>5, <1>6, Along
<1>8. text = <<>>
  BY <1>7
<1> HIDE DEF text
<1>9. VaPrintk(n, fmt).text = text /\ VaPrintk(n, fmt).ret = Len(text) + 1 /\ Len(<<>>) + 1 = 1
  BY <1>1
<1> QED
  BY <1>8, <1>9

LEMMA SmallerIs ==
  ASSUME NEW a \in Int, NEW b \in Int
  PROVE  Min({a, b}) = IF a <= b THEN a ELSE b
BY DEF Min

LEMMA LargerIs ==
  ASSUME NEW a \in Int, NEW b \in Int
  PROVE  Max({a, b}) = IF a >= b THEN a ELSE b
BY DEF Max

LEMMA AsIntIs == ASSUME NEW n \in 0..(WordMod - 1) PROVE AsInt(n) \in Int
BY WordAssumption DEF AsInt

\* snprintk, for a format of any length.
LEMMA SnprintkIs ==
  ASSUME NEW n \in 0..(WordMod - 1), NEW fmt, fmt \in Seq(Range(fmt)), \A item \in Range(fmt) : Printable(item)
  PROVE  LET whole == FlattenSeq([i \in 1..Len(fmt) |-> Shown(fmt[i])]) IN
         /\ Snprintk(n, fmt).text = SubSeq(whole, 1, Min({Len(whole), AsInt(n) - 1}))
         /\ Snprintk(n, fmt).ret = Min({Len(whole) + 1, Max({AsInt(n), 1})})
<1> DEFINE whole == FlattenSeq([i \in 1..Len(fmt) |-> Shown(fmt[i])])
           C == UNION {Range(Shown(fmt[i])) : i \in 1..Len(fmt)}
           size == AsInt(n)
<1>1. Len(fmt) \in Nat
  OBVIOUS
<1>2. ASSUME NEW i \in 1..Len(fmt) PROVE Shown(fmt[i]) \in Seq(C)
  <2>1. fmt[i] \in Range(fmt)
    OBVIOUS
  <2>2. Shown(fmt[i]) \in Seq(Range(Shown(fmt[i]))) /\ Range(Shown(fmt[i])) \subseteq C
    BY <2>1, ShownType
  <2> HIDE DEF C
  <2> QED
    BY <2>2, SeqMonotonic
<1>3. size \in Int /\ Snprintk(n, fmt) = VaPrintk(size, fmt)
  BY AsIntIs DEF Snprintk
<1> HIDE DEF C, size
<1>4. whole \in Seq(C)
  <2>1. 1 \in Nat \ {0}
    OBVIOUS
  <2> QED
    BY <1>1, <1>2, <2>1, SnprintkCuts
<1> HIDE DEF whole
<1>5. Len(whole) \in Nat
  BY <1>4
<1>6. /\ Min({Len(whole), size - 1}) = IF Len(whole) <= size - 1 THEN Len(whole) ELSE size - 1
      /\ Max({size, 1}) = IF size >= 1 THEN size ELSE 1
      /\ \A m \in Int : Min({Len(whole) + 1, m}) = IF Len(whole) + 1 <= m THEN Len(whole) + 1 ELSE m
  <2>1. Len(whole) \in Int /\ Len(whole) + 1 \in Int /\ size - 1 \in Int /\ 1 \in Int
    BY <1>3, <1>5
  <2> QED
    BY <1>3, <2>1, SmallerIs, LargerIs
<1>7. CASE size >= 1
  <2>1. size \in Nat \ {0}
    BY <1>3, <1>7
  <2>2. /\ VaPrintk(size, fmt).text = Cut(whole, size - 1)
        /\ VaPrintk(size, fmt).ret = (IF Len(whole) <= size - 1 THEN Len(whole) ELSE size - 1) + 1
    BY <1>1, <1>2, <2>1, SnprintkCuts DEF whole
  <2>3. Cut(whole, size - 1) = SubSeq(whole, 1, Min({Len(whole), size - 1}))
    BY <1>6 DEF Cut
  <2>4. (IF Len(whole) <= size - 1 THEN Len(whole) ELSE size - 1) + 1 = Min({Len(whole) + 1, Max({size, 1})})
    <3> DEFINE a == Len(whole)
    <3>1. Max({size, 1}) = size /\ Min({a + 1, size}) = IF a + 1 <= size THEN a + 1 ELSE size
      BY <1>3, <1>6, <1>7
    <3>2. a \in Nat
      BY <1>5
    <3> HIDE DEF a
    <3>3. (IF a <= size - 1 THEN a ELSE size - 1) + 1 = IF a + 1 <= size THEN a + 1 ELSE size
      BY <1>3, <3>2
    <3> QED
      BY <3>1, <3>3 DEF a
  <2> QED
    BY <1>3, <2>2, <2>3, <2>4 DEF whole, size
<1>8. CASE size < 1
  <2>1. size <= 0
    BY <1>3, <1>8
  <2>2. VaPrintk(size, fmt).text = <<>> /\ VaPrintk(size, fmt).ret = 1
    BY <1>1, <1>2, <1>3, <2>1, SnprintkNone
  <2>3. Min({Len(whole), size - 1}) = size - 1 /\ size - 1 < 1
    BY <1>3, <1>5, <1>6, <2>1
  <2>4. SubSeq(whole, 1, size - 1) = <<>>
    BY <1>3, <1>4, <2>1
  <2>5. Min({Len(whole) + 1, Max({size, 1})}) = 1
    <3> DEFINE a == Len(whole)
    <3>1. Max({size, 1}) = 1
      BY <1>3, <1>6, <1>8
    <3>2. Min({a + 1, 1}) = IF a + 1 <= 1 THEN a + 1 ELSE 1
      BY <1>6
    <3>3. a \in Nat
      BY <1>5
    <3> HIDE DEF a
    <3>4. Min({a + 1, 1}) = 1
      BY <3>2, <3>3
    <3> QED
      BY <3>1, <3>4 DEF a
  <2> QED
    BY <1>3, <2>2, <2>3, <2>4, <2>5 DEF whole, size
<1>9. size >= 1 \/ size < 1
  BY <1>3
<1> QED
  BY <1>7, <1>8, <1>9 DEF whole, size
-----------------------------------------------------------------------------
(* The program that uses them.                                             *)

LEMMA UsesHeap == Spec => HeapSpec
<1>1. [Next]_vars => [HeapNext]_heapVars
  BY DEF Next, vars, Call, Return, UseHeap, UsePins, UseShell, heapVars
<1> QED
  BY <1>1, PTL DEF Spec, Init, HeapSpec

LEMMA UsesPins == Spec => GpioSpec
<1>1. [Next]_vars => [GpioNext]_gpioVars
  BY DEF Next, vars, Call, Return, UseHeap, UsePins, UseShell, gpioVars
<1> QED
  BY <1>1, PTL DEF Spec, Init, GpioSpec

\* A program that calls the helpers in any order finds its blocks of the heap apart
\* and its pins its own.
THEOREM HelpersKeepApart == Spec => []BlocksApart /\ []BlocksKeep /\ PinsApart
BY UsesHeap, UsesPins, HeapApart, HeapKeeps, PinsAreApart, PTL

\* Between its call and its return a function has been given what its part gives it,
\* and what came of it is what it makes of that.
PwmAsked == \E n \in Lengths : \E on \in 0..n : call = [on |-> on, n |-> n, choices |-> PwmCompute(on, n)]
MemcpyAsked ==
  \E dst, src \in DOMAIN Memory : \E n \in 0..Cardinality(DOMAIN Memory) :
    /\ {dst + n - 1, src + n - 1} \subseteq DOMAIN Memory
    /\ call = [dst |-> dst, src |-> src, n |-> n, mem |-> Memcpy(Memory, dst, src, n)]
StrncmpAsked ==
  \E line \in Lines, name \in Names, behind \in Stale :
    call = [line |-> line, name |-> name,
            res |-> Strncmp(line \o <<0>> \o behind, name \o <<0>>, Len(name))]
TtyAsked ==
  \E copies \in {1, ROBUST_ITER}, tenths \in 1..10 : call = [tenths |-> tenths, vtime |-> VTime(tenths, copies)]

CrcAsked ==
  \E msg \in Messages, burst \in Bursts : \E at \in 0..(Len(msg) - Len(burst)) :
    LET flawed == [i \in 1..Len(msg) |->
                     IF i - at \in 1..Len(burst) THEN Xor(msg[i], burst[i - at]) ELSE msg[i]]
    IN call = [sent |-> msg, read |-> flawed, ck |-> Crc(msg), new |-> Crc(flawed)]

WatchAsked ==
  \E text \in Texts : \E cuts \in SUBSET (1..(Len(text) - 1)) :
    call = [text |-> text, ends |-> cuts \cup {Len(text)}, piece |-> SeenBy(text, cuts \cup {Len(text)}),
            until |-> EchoUntil(Exit, text)]

NumberAsked ==
  \E conv \in {"d", "u", "x", "b"}, width \in Widths, val \in Ints :
    call = [conv |-> conv, width |-> width, val |-> val, out |-> Shown(Conv(conv, width, val))]
SnprintkAsked == \E n \in Buffers, fmt \in Formats : call = [n |-> n, fmt |-> fmt, out |-> Snprintk(n, fmt)]

Asked ==
  /\ Called("number") => NumberAsked
  /\ Called("snprintk") => SnprintkAsked
  /\ Called("pwm") => PwmAsked
  /\ Called("memcpy") => MemcpyAsked
  /\ Called("strncmp") => StrncmpAsked
  /\ Called("tty") => TtyAsked
  /\ Called("crc") => CrcAsked
  /\ Called("watch") => WatchAsked

LEMMA AskedStarts == Init => Asked
BY DEF Init, Asked, Called

LEMMA AskedStep == Asked /\ [Next]_vars => Asked'
<1> SUFFICES ASSUME Asked, [Next]_vars PROVE Asked'
  OBVIOUS
<1>1. CASE Call
  <2>1. part' = part
    BY <1>1 DEF Call
  <2>2. ASSUME part = "pwm" PROVE PwmAsked'
    BY <1>1, <2>2 DEF Call, PwmCall, PwmAsked
  <2>3. ASSUME part = "memcpy" PROVE MemcpyAsked'
    BY <1>1, <2>3 DEF Call, MemcpyCall, MemcpyAsked
  <2>4. ASSUME part = "strncmp" PROVE StrncmpAsked'
    BY <1>1, <2>4 DEF Call, StrncmpCall, StrncmpAsked
  <2>5. ASSUME part = "tty" PROVE TtyAsked'
    BY <1>1, <2>5 DEF Call, TtyCall, TtyAsked
  <2>6. ASSUME part = "crc" PROVE CrcAsked'
    BY <1>1, <2>6 DEF Call, CrcCall, CrcAsked
  <2>7. ASSUME part = "watch" PROVE WatchAsked'
    BY <1>1, <2>7 DEF Call, WatchCall, WatchAsked
  <2>8. ASSUME part = "number" PROVE NumberAsked'
    BY <1>1, <2>8 DEF Call, NumberCall, NumberAsked
  <2>9. ASSUME part = "snprintk" PROVE SnprintkAsked'
    BY <1>1, <2>9 DEF Call, SnprintkCall, SnprintkAsked
  <2> QED
    BY <2>1, <2>2, <2>3, <2>4, <2>5, <2>6, <2>7, <2>8, <2>9 DEF Asked, Called
<1>2. CASE Return
  <2>1. phase' # "called"
    BY <1>2 DEF Return
  <2> QED
    BY <2>1 DEF Asked, Called
<1>3. CASE UNCHANGED <<part, calls>>
  <2>1. part' = part /\ phase' = phase /\ call' = call
    BY <1>3 DEF calls
  <2>2. Called("pwm") => PwmAsked'
    BY <2>1 DEF Asked, PwmAsked
  <2>3. Called("memcpy") => MemcpyAsked'
    BY <2>1 DEF Asked, MemcpyAsked
  <2>4. Called("strncmp") => StrncmpAsked'
    BY <2>1 DEF Asked, StrncmpAsked
  <2>5. Called("tty") => TtyAsked'
    BY <2>1 DEF Asked, TtyAsked
  <2>6. Called("crc") => CrcAsked'
    BY <2>1 DEF Asked, CrcAsked
  <2>7. Called("watch") => WatchAsked'
    BY <2>1 DEF Asked, WatchAsked
  <2>8. Called("number") => NumberAsked'
    BY <2>1 DEF Asked, NumberAsked
  <2>9. Called("snprintk") => SnprintkAsked'
    BY <2>1 DEF Asked, SnprintkAsked
  <2> QED
    BY <2>1, <2>2, <2>3, <2>4, <2>5, <2>6, <2>7, <2>8, <2>9 DEF Asked, Called
<1> QED
  BY <1>1, <1>2, <1>3 DEF Next, vars, UseHeap, UsePins, UseShell

LEMMA AskedComputes == Asked => FunctionsCompute
<1> SUFFICES ASSUME Asked PROVE FunctionsCompute
  OBVIOUS
<1>1. ASSUME Called("pwm")
      PROVE  /\ Len(call.choices) = call.n /\ Ones(call.choices, call.n) = call.on
             /\ \A i \in 1..call.n :
                  LET apart == call.n * Ones(call.choices, i) - call.on * i
                  IN -call.n < apart /\ apart < call.n
  <2>1. PICK n \in Lengths : \E on \in 0..n : call = [on |-> on, n |-> n, choices |-> PwmCompute(on, n)]
    BY <1>1 DEF Asked, PwmAsked
  <2>2. PICK on \in 0..n : call = [on |-> on, n |-> n, choices |-> PwmCompute(on, n)]
    BY <2>1
  <2>3. n \in Nat
    BY HelpersAssumption
  <2>4. call.n = n /\ call.on = on /\ call.choices = PwmCompute(on, n)
    BY <2>2
  <2> QED
    BY <2>3, <2>4, PwmIs
<1>2. ASSUME Called("memcpy"), call.dst <= call.src \/ call.src + call.n <= call.dst
      PROVE  call.mem = Move(Memory, call.dst, call.src, call.n)
  <2>1. PICK dst \in DOMAIN Memory, src \in DOMAIN Memory, n \in 0..Cardinality(DOMAIN Memory) :
          /\ {dst + n - 1, src + n - 1} \subseteq DOMAIN Memory
          /\ call = [dst |-> dst, src |-> src, n |-> n, mem |-> Memcpy(Memory, dst, src, n)]
    BY <1>2 DEF Asked, MemcpyAsked
  <2> DEFINE top == Cardinality(DOMAIN Memory) - 1
  <2>2. top \in Nat /\ Memory \in [0..top -> Int]
    <3>1. top \in Int /\ Memory \in [0..top -> Int]
      BY MemoryAssumption, FS_CardinalityType
    <3> QED
      BY <2>1, <3>1
  <2> HIDE DEF top
  <2>3. DOMAIN Memory = 0..top /\ Memory = [a \in DOMAIN Memory |-> Memory[a]]
    BY <2>2
  <2>4. n \in Nat /\ dst + n - 1 <= top /\ src + n - 1 <= top
    BY <2>1, <2>3
  <2>5. call.n = n /\ call.dst = dst /\ call.src = src /\ call.mem = Memcpy(Memory, dst, src, n)
    BY <2>1
  <2>6. dst \in 0..top /\ src \in 0..top
    BY <2>1, <2>3
  <2>7. dst <= src \/ src + n <= dst
    BY <1>2, <2>5
  <2>8. Memcpy(Memory, dst, src, n) = Move(Memory, dst, src, n)
    BY <2>2, <2>4, <2>6, <2>7, MemcpyMoves
  <2> QED
    BY <2>5, <2>8
<1>3. ASSUME Called("strncmp")
      PROVE  (call.res = 0) = IsPrefix(call.name, call.line)
  <2>1. PICK line \in Lines, name \in Names, behind \in Stale :
          call = [line |-> line, name |-> name,
                  res |-> Strncmp(line \o <<0>> \o behind, name \o <<0>>, Len(name))]
    BY <1>3 DEF Asked, StrncmpAsked
  <2>2. line \in Seq(Int \ {0}) /\ name \in Seq(Int \ {0}) /\ behind \in Seq(Int)
    BY StringAssumption
  <2>3. (Strncmp(line \o <<0>> \o behind, name \o <<0>>, Len(name)) = 0) <=> IsPrefix(name, line)
    BY <2>2, StrncmpFinds
  <2>4. IsPrefix(name, line) \in BOOLEAN
    BY DEF IsPrefix
  <2>5. call.res = Strncmp(line \o <<0>> \o behind, name \o <<0>>, Len(name)) /\ call.name = name /\ call.line = line
    BY <2>1
  <2> QED
    BY <2>3, <2>4, <2>5
<1>4. ASSUME Called("tty")
      PROVE  IF call.tenths = 10 THEN call.tenths <= call.vtime ELSE call.vtime = 0
  <2>1. PICK copies \in {1, ROBUST_ITER}, tenths \in 1..10 :
          call = [tenths |-> tenths, vtime |-> VTime(tenths, copies)]
    BY <1>4 DEF Asked, TtyAsked
  <2>2. copies \in 1..8
    BY CopiesAssumption
  <2>3. call.tenths = tenths /\ call.vtime = VTime(tenths, copies)
    BY <2>1
  <2>4. 10 <= VTime(10, copies) /\ \A t \in 1..9 : VTime(t, copies) = 0
    BY <2>2, TimeoutIs
  <2>5. tenths = 10 \/ tenths \in 1..9
    OBVIOUS
  <2> QED
    BY <2>3, <2>4, <2>5
<1> QED
  BY <1>1, <1>2, <1>3, <1>4 DEF FunctionsCompute

LEMMA AskedShows == Asked => BurstsShow
<1> SUFFICES ASSUME Asked, Called("crc"), call.ck = call.new
             PROVE  call.sent = call.read
  BY DEF BurstsShow
<1>1. CrcAsked
  BY DEF Asked
<1>2. PICK msg \in Messages, burst \in Bursts : \E at \in 0..(Len(msg) - Len(burst)) :
        LET flawed == [i \in 1..Len(msg) |->
                         IF i - at \in 1..Len(burst) THEN Xor(msg[i], burst[i - at]) ELSE msg[i]]
        IN call = [sent |-> msg, read |-> flawed, ck |-> Crc(msg), new |-> Crc(flawed)]
  BY <1>1 DEF CrcAsked
<1>3. PICK at \in 0..(Len(msg) - Len(burst)) :
        LET flawed == [i \in 1..Len(msg) |->
                         IF i - at \in 1..Len(burst) THEN Xor(msg[i], burst[i - at]) ELSE msg[i]]
        IN call = [sent |-> msg, read |-> flawed, ck |-> Crc(msg), new |-> Crc(flawed)]
  BY <1>2
<1> DEFINE flawed == [i \in 1..Len(msg) |->
                        IF i - at \in 1..Len(burst) THEN Xor(msg[i], burst[i - at]) ELSE msg[i]]
<1>4. call.sent = msg /\ call.read = flawed /\ Crc(msg) = Crc(flawed)
  BY <1>3
<1>5. msg \in Seq(SUBSET (0..7)) /\ burst \in Seq(SUBSET (0..7)) /\ Len(burst) <= 4
  BY BurstAssumption
<1>6. Len(burst) \in 0..4 /\ at \in Nat /\ at + Len(burst) <= Len(msg)
  <2> DEFINE b == Len(burst)
             m == Len(msg)
  <2>1. b \in Nat /\ m \in Nat /\ b <= 4 /\ at \in 0..(m - b)
    BY <1>5
  <2> HIDE DEF b, m
  <2>2. b \in 0..4 /\ at \in Nat /\ at + b <= m
    BY <2>1
  <2> QED
    BY <2>2 DEF b, m
<1>7. ASSUME NEW i \in 1..Len(msg) PROVE flawed[i] \in SUBSET (0..7)
  <2>1. msg[i] \in SUBSET (0..7)
    BY <1>5
  <2>2. i - at \in 1..Len(burst) => burst[i - at] \in SUBSET (0..7)
    BY <1>5
  <2> QED
    BY <2>1, <2>2 DEF Xor
<1>8. flawed \in Seq(SUBSET (0..7)) /\ Len(flawed) = Len(msg)
  <2>1. Len(msg) \in Nat /\ flawed = [i \in 1..Len(msg) |-> flawed[i]]
    BY <1>5
  <2> HIDE DEF flawed
  <2>2. flawed \in [1..Len(msg) -> SUBSET (0..7)]
    BY <1>7, <2>1
  <2> QED
    BY <2>1, <2>2
<1>9. \A i \in 1..Len(msg) : i <= at \/ i > at + Len(burst) => flawed[i] = msg[i]
  BY <1>6
<1> HIDE DEF flawed
<1>10. msg = flawed
  BY <1>4, <1>5, <1>6, <1>8, <1>9, BurstChanges
<1> QED
  BY <1>4, <1>10

LEMMA AskedWatches == Asked => ExitWatched
<1> SUFFICES ASSUME Asked, Called("watch") PROVE ExitWatched
  BY DEF ExitWatched
<1>1. PICK text \in Texts : \E cuts \in SUBSET (1..(Len(text) - 1)) :
        call = [text |-> text, ends |-> cuts \cup {Len(text)}, piece |-> SeenBy(text, cuts \cup {Len(text)}),
                until |-> EchoUntil(Exit, text)]
  BY DEF Asked, WatchAsked
<1>2. PICK cuts \in SUBSET (1..(Len(text) - 1)) :
        call = [text |-> text, ends |-> cuts \cup {Len(text)}, piece |-> SeenBy(text, cuts \cup {Len(text)}),
                until |-> EchoUntil(Exit, text)]
  BY <1>1
<1>3. text \in Seq(Range(text)) /\ NUL \notin Range(text)
  BY WatchAssumption
<1>4. call.text = text /\ call.ends = cuts \cup {Len(text)} /\ call.until = EchoUntil(Exit, call.text)
      /\ call.piece = SeenBy(call.text, call.ends)
  BY <1>2
<1>5. call.ends \in SUBSET (0..Len(call.text)) /\ Len(call.text) \in call.ends
  <2> DEFINE b == Len(text)
  <2>1. b \in Nat
    BY <1>3
  <2>2. call.text = text /\ call.ends = cuts \cup {b} /\ cuts \subseteq 1..(b - 1)
    BY <1>4
  <2>3. Len(call.text) = b
    BY <2>2
  <2> HIDE DEF b
  <2> QED
    BY <2>1, <2>2, <2>3
<1> DEFINE u == call.until
           p == call.piece
           x == call.text
           e == call.ends
<1>6. x \in Seq(Range(x)) /\ NUL \notin Range(x) /\ e \in SUBSET (0..Len(x)) /\ Len(x) \in e
      /\ u = EchoUntil(Exit, x) /\ p = SeenBy(x, e)
  BY <1>3, <1>4, <1>5
<1> HIDE DEF u, p, x, e
<1>7. Watched(x, e, u, p)
  <2> DEFINE C == Range(x)
  <2>1. x \in Seq(C) /\ NUL \notin C
    BY <1>6
  <2> HIDE DEF C
  <2> QED
    BY <1>6, <2>1, WatchFinds
<1> QED
  BY <1>7 DEF Watched, ExitWatched, u, p, x, e

LEMMA AskedPrints == Asked => PrintkShows
<1> SUFFICES ASSUME Asked PROVE PrintkShows
  OBVIOUS
<1> DEFINE whole == FlattenSeq([i \in 1..Len(call.fmt) |-> Shown(call.fmt[i])])
<1>1. ASSUME Called("number")
      PROVE  Reads(call.out, BaseOf(call.conv), call.width,
                   IF call.conv = "d" THEN call.val ELSE call.val % WordMod)
  <2>1. PICK conv \in {"d", "u", "x", "b"}, width \in Widths, val \in Ints :
          call = [conv |-> conv, width |-> width, val |-> val, out |-> Shown(Conv(conv, width, val))]
    BY <1>1 DEF Asked, NumberAsked
  <2>2. width \in 0..31
    BY HelpersAssumption
  <2>3. Reads(Shown(Conv(conv, width, val)), BaseOf(conv), width, IF conv = "d" THEN val ELSE val % WordMod)
    BY <2>2, ShownReads
  <2>4. /\ call.conv = conv /\ call.width = width /\ call.val = val
        /\ call.out = Shown(Conv(conv, width, val))
    BY <2>1
  <2> QED
    BY <2>3, <2>4
<1>2. ASSUME Called("snprintk")
      PROVE  /\ call.out.text = SubSeq(whole, 1, Min({Len(whole), AsInt(call.n) - 1}))
             /\ call.out.ret = Min({Len(whole) + 1, Max({AsInt(call.n), 1})})
  <2>1. PICK n \in Buffers, fmt \in Formats : call = [n |-> n, fmt |-> fmt, out |-> Snprintk(n, fmt)]
    BY <1>2 DEF Asked, SnprintkAsked
  <2>2. n \in 0..(WordMod - 1) /\ fmt \in Seq(Range(fmt)) /\ \A item \in Range(fmt) : Printable(item)
    BY HelpersAssumption, FormatAssumption
  <2>3. call.n = n /\ call.fmt = fmt /\ call.out = Snprintk(n, fmt)
    BY <2>1
  <2>4. call.n \in 0..(WordMod - 1) /\ call.fmt \in Seq(Range(call.fmt)) /\ \A item \in Range(call.fmt) : Printable(item)
    BY <2>2, <2>3
  <2>5. /\ Snprintk(call.n, call.fmt).text = SubSeq(whole, 1, Min({Len(whole), AsInt(call.n) - 1}))
        /\ Snprintk(call.n, call.fmt).ret = Min({Len(whole) + 1, Max({AsInt(call.n), 1})})
    BY <2>4, SnprintkIs
  <2> QED
    BY <2>3, <2>5
<1> QED
  BY <1>1, <1>2 DEF PrintkShows, BaseOf

LEMMA AlwaysAsked == Spec => []Asked
BY AskedStarts, AskedStep, PTL DEF Spec

\* For pulses of every length, a memory of every size, strings of every length and
\* up to eight copies of a byte: pwm_compute makes what it is asked for and spreads
\* it evenly, memcpy moves its bytes and no others, strncmp finds what begins with a
\* name, and the read timeout of a second lasts one, while a shorter one is none.
THEOREM HelpersCompute == Spec => []FunctionsCompute
BY AlwaysAsked, AskedComputes, PTL

\* For ints of up to 32 bits, every number, width and format, and every size that size_t
\* can hold, 0 among them: the numbers that printk shows are read back as what they were;
\* snprintk keeps the beginning of the whole text, as much as the size it takes for an int
\* allows, and returns what it has written, the \0 with it: a byte even for a size of 0.
THEOREM PrintkAlwaysShows == Spec => []PrintkShows
BY AlwaysAsked, AskedPrints, PTL

\* Whatever a message is and however long, a change of up to four of its bytes that
\* stand next to each other changes its crc32.
THEOREM BurstsNoticed == Spec => []BurstsShow
BY AlwaysAsked, AskedShows, PTL

\* Whatever the text is and however reads cut it, echo_until and my-install stop at the
\* same exit string, which is there, and miss none that is a line of its own.
THEOREM ExitSeen == Spec => []ExitWatched
BY AlwaysAsked, AskedWatches, PTL

LEMMA UsesLine == Spec => LineInit /\ [][LineNext]_lineVars
<1>1. [Next]_vars => [LineNext]_lineVars
  BY DEF Next, vars, Call, Return, UseHeap, UsePins, UseShell, lineVars
<1> QED
  BY <1>1, PTL DEF Spec, Init

\* For every size of the buffer, every bound on the words and every sequence of lines,
\* the shell runs the words of the line it has read.
THEOREM ShellRunsTheLine == Spec => []ArgvIsTheLine
<1>1. LineInv => ArgvIsTheLine
  BY DEF LineInv
<1> QED
  BY <1>1, LineStarts, LineStep, UsesLine, PTL
=============================================================================
