---------------------------- MODULE SwUart_proofs ----------------------------
(***************************************************************************)
(* readline reads what the adapter sends, and the adapter hears what         *)
(* send_data sends, for every DELAY, every clock of the adapter and every   *)
(* lag of the waits that MarginAssumption allows, whenever the frames come  *)
(* and wherever the counter wraps.                                         *)
(***************************************************************************)
EXTENDS SwUart, TLAPS

-----------------------------------------------------------------------------
(* Arithmetic.                                                             *)

LEMMA QuotRem ==
  ASSUME NEW M \in Nat \ {0}, NEW q \in Int, NEW r \in 0..(M - 1)
  PROVE  (q * M + r) % M = r /\ (q * M + r) \div M = q
BY Z3

LEMMA RemRange ==
  ASSUME NEW M \in Nat \ {0}, NEW x \in Int
  PROVE  /\ x % M \in 0..(M - 1) /\ x \div M \in Int
         /\ x = (x \div M) * M + (x % M)
BY Z3

LEMMA Quotient ==
  ASSUME NEW b \in Nat \ {0}, NEW x \in Int, NEW q \in Int, q * b <= x, x < q * b + b
  PROVE  x \div b = q
BY Z3

\* The unsigned difference of two readings of a counter that wraps.
LEMMA Difference ==
  ASSUME NEW M \in Nat \ {0}, NEW a \in Nat, NEW d \in 0..(M - 1)
  PROVE  (((a + d) % M) - (a % M)) % M = d
<1> DEFINE q == a \div M
           r == a % M
<1>1. q \in Int /\ r \in 0..(M - 1) /\ a = q * M + r
  BY RemRange
<1> HIDE DEF q, r
<1>2. CASE r + d < M
  <2> DEFINE y == r + d
  <2>1. y \in 0..(M - 1) /\ a + d = q * M + y
    BY <1>1, <1>2
  <2>2. (a + d) % M = y
    <3> HIDE DEF y
    <3> QED
      BY <2>1, <1>1, QuotRem
  <2>3. ((a + d) % M) - r = 0 * M + d
    BY <2>2, <1>1
  <2> QED
    BY <2>3, QuotRem DEF r
<1>3. CASE r + d >= M
  <2> DEFINE y == r + d - M
             p == q + 1
  <2>1. y \in 0..(M - 1) /\ p \in Int /\ a + d = p * M + y
    BY <1>1, <1>3, Z3
  <2>2. (a + d) % M = y
    <3> HIDE DEF y, p
    <3> QED
      BY <2>1, QuotRem
  <2>3. ((a + d) % M) - r = (-1) * M + d
    BY <2>2, <1>1
  <2> QED
    BY <2>3, QuotRem DEF r
<1> QED
  BY <1>1, <1>2, <1>3

LEMMA ByteOf ==
  ASSUME NEW S, NEW d \in Seq(S), NEW i \in 1..Len(d)
  PROVE  d[i] \in S
OBVIOUS

\* One bit more of a byte.
LEMMA NextBit ==
  ASSUME NEW x \in 0..255, NEW i \in 0..7
  PROVE  x % 2^(i + 1) = (x % 2^i) + BitOf(x, i) * 2^i
<1>1. CASE i = 0 BY <1>1 DEF BitOf
<1>2. CASE i = 1 BY <1>2 DEF BitOf
<1>3. CASE i = 2 BY <1>3 DEF BitOf
<1>4. CASE i = 3 BY <1>4 DEF BitOf
<1>5. CASE i = 4 BY <1>5 DEF BitOf
<1>6. CASE i = 5 BY <1>6 DEF BitOf
<1>7. CASE i = 6 BY <1>7 DEF BitOf
<1>8. CASE i = 7 BY <1>8 DEF BitOf
<1> QED
  BY <1>1, <1>2, <1>3, <1>4, <1>5, <1>6, <1>7, <1>8

LEMMA LowBits ==
  ASSUME NEW x \in 0..255
  PROVE  x % 2^0 = 0 /\ x % 2^8 = x
OBVIOUS

LEMMA BitIs ==
  ASSUME NEW x \in 0..255, NEW i \in 0..7
  PROVE  BitOf(x, i) \in {0, 1}
<1>1. CASE i = 0 BY <1>1 DEF BitOf
<1>2. CASE i = 1 BY <1>2 DEF BitOf
<1>3. CASE i = 2 BY <1>3 DEF BitOf
<1>4. CASE i = 3 BY <1>4 DEF BitOf
<1>5. CASE i = 4 BY <1>5 DEF BitOf
<1>6. CASE i = 5 BY <1>6 DEF BitOf
<1>7. CASE i = 6 BY <1>7 DEF BitOf
<1>8. CASE i = 7 BY <1>8 DEF BitOf
<1> QED
  BY <1>1, <1>2, <1>3, <1>4, <1>5, <1>6, <1>7, <1>8
-----------------------------------------------------------------------------
(* delay_us.                                                               *)

\* It waits as long as it is told to, wherever the counter stands.
LEMMA WaitIs ==
  ASSUME timer \in Nat, NEW t \in Nat, NEW us \in 0..(TimerMod - 1)
  PROVE  Wait(t, us) = us
<1> DEFINE P(d) == Expired(t, us, d) /\ (d > 0 => ~Expired(t, us, d - 1))
<1>1. TimerMod \in Nat \ {0}
  BY DelayAssumption
<1>2. ASSUME NEW d \in 0..(TimerMod - 1)
      PROVE  Expired(t, us, d) <=> d >= us
  <2>1. timer + t \in Nat /\ timer + (t + d) = (timer + t) + d
    BY <1>2
  <2>2. (((timer + (t + d)) % TimerMod) - ((timer + t) % TimerMod)) % TimerMod = d
    BY <2>1, <1>1, <1>2, Difference
  <2> QED
    BY <2>2 DEF Expired, Time
<1>3. ASSUME NEW d \in 0..(TimerMod - 1)
      PROVE  P(d) <=> d = us
  <2>1. CASE d = 0
    BY <2>1, <1>2
  <2>2. CASE d > 0
    <3>1. d - 1 \in 0..(TimerMod - 1)
      BY <2>2, <1>1
    <3>2. Expired(t, us, d - 1) <=> d - 1 >= us
      BY <3>1, <1>2
    <3> QED
      BY <3>2, <1>2, <2>2
  <2> QED
    BY <2>1, <2>2
<1> HIDE DEF P
<1>4. (CHOOSE d \in 0..(TimerMod - 1) : P(d)) = us
  BY <1>3
<1> QED
  BY <1>4 DEF Wait, P

LEMMA DelayIs ==
  ASSUME timer \in Nat, now \in Nat, NEW us \in 0..(TimerMod - 1), Delay(us)
  PROVE  \E over \in Overs : over \in Nat /\ now' = now + us + over
BY WaitIs, DelayAssumption DEF Delay
-----------------------------------------------------------------------------
(* The level on RX.                                                        *)

\* The frames do not overlap.
Frames ==
  /\ bit \in Bits /\ data \in Data /\ starts \in [1..Len(data) -> Nat]
  /\ \A f, g \in 1..Len(data) : f < g => starts[f] + 10 * bit <= starts[g]

LEMMA FramesType ==
  ASSUME Frames
  PROVE  bit \in Nat \ {0} /\ data \in Seq(0..255) /\ Len(data) \in Nat /\ DOMAIN starts = 1..Len(data)
BY InputAssumption DEF Frames

\* Bit i of frame f, the start bit being bit 0 and the stop bit bit 9.
LEMMA Sampled ==
  ASSUME Frames, NEW f \in 1..Len(data), NEW i \in 0..9, NEW t \in Nat,
         starts[f] + i * bit <= t, t < starts[f] + i * bit + bit
  PROVE  RX(t) = IF i = 0 THEN 0 ELSE IF i = 9 THEN 1 ELSE BitOf(data[f], i - 1)
<1>1. /\ bit \in Nat \ {0} /\ Len(data) \in Nat /\ DOMAIN starts = 1..Len(data)
      /\ starts[f] \in Nat
  BY FramesType DEF Frames
<1>2. i * bit \in Nat /\ i * bit + bit <= 10 * bit
  BY <1>1
<1>3. InFrame(f, t)
  BY <1>1, <1>2 DEF InFrame
<1>4. ASSUME NEW g \in 1..Len(data), InFrame(g, t)
      PROVE  g = f
  <2>1. starts[g] \in Nat /\ starts[g] <= t /\ t < starts[g] + 10 * bit
    BY <1>4 DEF InFrame, Frames
  <2>2. starts[f] <= t /\ t < starts[f] + 10 * bit
    BY <1>3 DEF InFrame
  <2>3. ~(g < f)
    BY <2>1, <2>2, <1>1 DEF Frames
  <2>4. ~(f < g)
    BY <2>1, <2>2, <1>1 DEF Frames
  <2> QED
    BY <2>3, <2>4
<1>5. (CHOOSE g \in DOMAIN starts : InFrame(g, t)) = f
  BY <1>1, <1>3, <1>4
<1>6. RX(t) = Level(f, t)
  BY <1>1, <1>3, <1>5 DEF RX
<1>7. (t - starts[f]) \div bit = i
  <2> DEFINE x == t - starts[f]
  <2>1. x \in Int /\ i \in Int /\ i * bit <= x /\ x < i * bit + bit
    BY <1>1, <1>2
  <2> HIDE DEF x
  <2>2. x \div bit = i
    BY <2>1, <1>1, Quotient
  <2> QED
    BY <2>2 DEF x
<1> QED
  BY <1>6, <1>7 DEF Level, FrameBit

LEMMA Quiet ==
  ASSUME Frames, NEW t \in Nat, \A f \in 1..Len(data) : ~InFrame(f, t)
  PROVE  RX(t) = 1
BY FramesType DEF RX
-----------------------------------------------------------------------------
(* The margin.                                                             *)

\* How late the Pi may be at most, after it has looked for a start bit and waited
\* for n bits: each of its waits takes no more than `over` too long.
Late(over, n) == (DELAY \div 2) + over + n * (DELAY + over)

LEMMA LateGrows ==
  ASSUME NEW a \in Overs, NEW b \in Overs, NEW n \in 0..9
  PROVE  \E m \in Overs : Late(a, n) <= Late(m, n) /\ Late(a, n) + DELAY + b <= Late(m, n + 1)
<1>1. a \in Nat /\ b \in Nat /\ DELAY \in Nat /\ DELAY \div 2 \in Nat
  BY DelayAssumption
<1>2. CASE a <= b
  <2>1. n * (DELAY + a) <= n * (DELAY + b) /\ (n + 1) * (DELAY + b) = n * (DELAY + b) + DELAY + b
    BY <1>1, <1>2, Z3
  <2>2. n * (DELAY + a) \in Nat /\ n * (DELAY + b) \in Nat
    BY <1>1
  <2> QED
    BY <2>1, <2>2, <1>1, <1>2 DEF Late
<1>3. CASE b <= a
  <2>1. (n + 1) * (DELAY + a) = n * (DELAY + a) + DELAY + a /\ n * (DELAY + a) \in Nat
    BY <1>1, Z3
  <2> QED
    BY <2>1, <1>1, <1>3 DEF Late
<1> QED
  BY <1>1, <1>2, <1>3

\* That is within bit n of the adapter, which is over neither before nor after.
LEMMA InTime ==
  ASSUME NEW b \in Bits, NEW over \in Overs, NEW n \in 0..9
  PROVE  b <= DELAY + over /\ Late(over, n) < n * b + b
<1>1. /\ over \in Nat /\ DELAY \in Nat /\ DELAY \div 2 \in Nat /\ b \in Nat
      /\ b <= DELAY + over
      /\ (DELAY \div 2) + over + 9 * (DELAY + over - b) < b
  BY DelayAssumption, InputAssumption, MarginAssumption
<1> DEFINE e == DELAY + over - b
<1>2. e \in Nat
  BY <1>1
<1>3. n * (DELAY + over) = n * b + n * e /\ n * b \in Nat /\ n * e \in Nat
  BY <1>1, <1>2
<1> HIDE DEF e
<1>4. n * e <= 9 * e
  BY <1>2
<1> QED
  BY <1>1, <1>3, <1>4 DEF Late, e

LEMMA LateNat ==
  ASSUME NEW over \in Overs, NEW n \in 0..9
  PROVE  over \in Nat /\ Late(over, n) \in Nat
<1>1. over \in Nat /\ DELAY \div 2 \in Nat /\ DELAY + over \in Nat
  BY DelayAssumption
<1>2. n * (DELAY + over) \in Nat
  BY <1>1
<1> QED
  BY <1>1, <1>2 DEF Late

\* One more wait: t is in time for bit n, u for the next.
LEMMA NextWait ==
  ASSUME NEW s \in Nat, NEW t \in Nat, NEW u \in Int, NEW b \in Bits, NEW n \in 0..8,
         NEW late \in Overs, NEW over \in Overs,
         s + n * b <= t, t <= s + Late(late, n), u = t + DELAY + over
  PROVE  u \in Nat /\ s + (n + 1) * b <= u /\ \E m \in Overs : u <= s + Late(m, n + 1)
<1>1. b \in Nat /\ over \in Nat /\ DELAY \in Nat /\ b <= DELAY + over /\ n \in 0..9 /\ n + 1 \in 0..9
  <2>1. b \in Nat /\ over \in Nat /\ DELAY \in Nat
    BY DelayAssumption, InputAssumption
  <2>2. 0 \in 0..9
    OBVIOUS
  <2>3. b <= DELAY + over
    BY <2>2, InTime
  <2> QED
    BY <2>1, <2>3
<1>2. n * b \in Nat /\ (n + 1) * b = n * b + b
  BY <1>1
<1>3. PICK m \in Overs : Late(late, n) + DELAY + over <= Late(m, n + 1)
  BY <1>1, LateGrows
<1>4. Late(late, n) \in Nat /\ Late(m, n + 1) \in Nat
  BY <1>1, LateNat
<1>5. u <= s + Late(m, n + 1)
  BY <1>1, <1>3, <1>4
<1> QED
  BY <1>1, <1>2, <1>5
-----------------------------------------------------------------------------
(* The invariant.                                                          *)

\* The bytes read are those that were sent, and no newline is among them while
\* readline goes on.
Right ==
  /\ buf \in Seq(0..255) /\ Len(buf) <= Len(data)
  /\ \A i \in 1..Len(buf) : buf[i] = data[i]
Going ==
  /\ ret = {} /\ Len(buf) < Size
  /\ \A i \in 1..Len(buf) : data[i] # 10

\* Polling: the last byte's stop bit has been reached, and the start bit of the next
\* one has not been passed.
Polling ==
  /\ Len(buf) > 0 => starts[Len(buf)] + 9 * bit <= now
  /\ Len(buf) < Len(data) =>
       \/ now <= starts[Len(buf) + 1]
       \/ \E over \in Overs : now <= starts[Len(buf) + 1] + Late(over, 0)

\* Latching: k bits have been read of the byte, and it is time for the next.
Latching ==
  /\ Len(buf) < Len(data)
  /\ starts[Len(buf) + 1] + (k + 1) * bit <= now
  /\ \E over \in Overs : now <= starts[Len(buf) + 1] + Late(over, k + 1)
  /\ c = data[Len(buf) + 1] % 2^k

Returned ==
  \A n \in ret :
    IF n = -1 THEN Len(buf) = Size /\ \A i \in 1..Size : data[i] # 10
              ELSE n + 1 = Len(buf) /\ data[n + 1] = 10 /\ \A i \in 1..n : data[i] # 10

ReadInv ==
  /\ Frames /\ Right /\ Returned
  /\ timer \in Nat /\ now \in Nat /\ k \in 0..8
  /\ pc \in {"poll", "latch", "done"}
  /\ pc \in {"poll", "latch"} => Going
  /\ pc = "poll" => Polling
  /\ pc = "latch" => Latching

Inv == way = "readline" => ReadInv

LEMMA Apart ==
  ASSUME NEW b \in Nat, NEW f \in Nat, NEW g \in Nat, f < g
  PROVE  10 * b * f + 10 * b <= 10 * b * g /\ 10 * b * f \in Nat
<1>1. b * f \in Nat /\ b * g \in Nat /\ b * f + b <= b * g
  BY Z3
<1>2. 10 * b * f = 10 * (b * f) /\ 10 * b * g = 10 * (b * g)
  OBVIOUS
<1> QED
  BY <1>1, <1>2

LEMMA Starts == Init => Inv
<1> SUFFICES ASSUME Init, way = "readline"
             PROVE  ReadInv
  BY DEF Inv
<1>1. bit \in Bits /\ data \in Data /\ bit \in Nat \ {0} /\ data \in Seq(0..255) /\ Len(data) \in Nat
  BY InputAssumption DEF Init
<1>2. PICK first \in Gaps, late \in 2..Len(data), then \in Gaps :
        starts = [f \in 1..Len(data) |-> 10 * bit * (f - 1) + (IF f < late THEN first ELSE first + then)]
  BY DEF Init
<1>3. first \in Nat /\ then \in Nat
  BY DelayAssumption
<1>4. ASSUME NEW f \in 1..Len(data)
      PROVE  10 * bit * (f - 1) \in Nat
  BY <1>1
<1>5. starts \in [1..Len(data) -> Nat]
  <2>1. ASSUME NEW f \in 1..Len(data)
        PROVE  10 * bit * (f - 1) + (IF f < late THEN first ELSE first + then) \in Nat
    <3>1. 10 * bit * (f - 1) \in Nat
      BY <1>4
    <3> QED
      BY <1>3, <3>1
  <2> QED
    BY <1>2, <2>1
<1>6. ASSUME NEW f \in 1..Len(data), NEW g \in 1..Len(data), f < g
      PROVE  starts[f] + 10 * bit <= starts[g]
  <2>1. f - 1 \in Nat /\ g - 1 \in Nat /\ f - 1 < g - 1
    BY <1>6
  <2>2. 10 * bit * (f - 1) + 10 * bit <= 10 * bit * (g - 1)
    BY <2>1, <1>1, Apart
  <2> DEFINE before(h) == 10 * bit * (h - 1)
             idle(h) == IF h < late THEN first ELSE first + then
  <2>3. starts[f] = before(f) + idle(f) /\ starts[g] = before(g) + idle(g)
    BY <1>2
  <2>4. before(f) \in Nat /\ before(g) \in Nat /\ before(f) + 10 * bit <= before(g)
    BY <2>2, <1>4
  <2>5. idle(f) \in Nat /\ idle(g) \in Nat /\ idle(f) <= idle(g)
    BY <1>3, <1>6
  <2>6. 10 * bit \in Nat
    BY <1>1
  <2> HIDE DEF before, idle
  <2> QED
    BY <2>3, <2>4, <2>5, <2>6
<1>7. Frames
  BY <1>1, <1>5, <1>6 DEF Frames
<1>8. /\ timer \in Nat /\ now = 0 /\ pc = "poll" /\ k = 0 /\ buf = <<>> /\ ret = {}
  BY DelayAssumption DEF Init
<1>9. Right /\ Returned /\ Going
  BY <1>1, <1>8, InputAssumption DEF Right, Returned, Going
<1>10. Polling
  BY <1>1, <1>5, <1>8 DEF Polling
<1> QED
  BY <1>7, <1>8, <1>9, <1>10 DEF ReadInv

\* A level of 0 while the Pi polls is the start bit of the next byte, and before it
\* there is none.
LEMMA Found ==
  ASSUME Frames, buf \in Seq(0..255), Len(buf) <= Len(data), now \in Nat, Polling, RX(now) = 0
  PROVE  /\ Len(buf) < Len(data) /\ starts[Len(buf) + 1] <= now
         /\ \/ now = starts[Len(buf) + 1]
            \/ \E over \in Overs : now <= starts[Len(buf) + 1] + Late(over, 0)
<1> DEFINE n == Len(buf)
<1>1. /\ bit \in Nat \ {0} /\ Len(data) \in Nat /\ n \in Nat /\ n <= Len(data) /\ bit \in Bits
      /\ \A f \in 1..Len(data) : starts[f] \in Nat
      /\ \A f, g \in 1..Len(data) : f < g => starts[f] + 10 * bit <= starts[g]
  <2>1. bit \in Nat \ {0} /\ Len(data) \in Nat
    BY FramesType
  <2>2. n \in Nat /\ n <= Len(data)
    OBVIOUS
  <2>3. bit \in Bits /\ starts \in [1..Len(data) -> Nat]
    BY DEF Frames
  <2>4. \A f, g \in 1..Len(data) : f < g => starts[f] + 10 * bit <= starts[g]
    BY DEF Frames
  <2> QED
    BY <2>1, <2>2, <2>3, <2>4
<1>2. PICK f \in 1..Len(data) : InFrame(f, now)
  BY Quiet
<1>3. starts[f] <= now /\ now < starts[f] + 10 * bit /\ starts[f] \in Nat
  BY <1>1, <1>2 DEF InFrame
<1>4. n > 0 => n \in 1..Len(data) /\ starts[n] + 9 * bit <= now /\ starts[n] \in Nat
  BY <1>1 DEF Polling
<1> HIDE DEF n
<1>5. f > n
  <2>1. ~(f < n)
    BY <1>1, <1>2, <1>3, <1>4
  <2>2. ~(f = n)
    <3>1. SUFFICES ASSUME f = n PROVE FALSE
      OBVIOUS
    <3>2. starts[f] + 9 * bit <= now /\ now < starts[f] + 9 * bit + bit
      BY <3>1, <1>3, <1>4, <1>1
    <3>3. RX(now) = 1
      BY <3>2, Sampled
    <3> QED
      BY <3>3
  <2> QED
    BY <2>1, <2>2, <1>1
<1>6. n < Len(data) /\ n + 1 \in 1..Len(data) /\ starts[n + 1] \in Nat
  BY <1>1, <1>5
<1>7. starts[n + 1] <= starts[f]
  <2>1. CASE f = n + 1
    BY <2>1, <1>6
  <2>2. CASE n + 1 < f
    BY <2>2, <1>1, <1>6, <1>3
  <2> QED
    BY <2>1, <2>2, <1>5, <1>1
<1>8. \/ now <= starts[n + 1]
      \/ \E over \in Overs : now <= starts[n + 1] + Late(over, 0)
  BY <1>6 DEF Polling, n
<1> QED
  BY <1>3, <1>6, <1>7, <1>8 DEF n

\* A level of 1 means that no byte has begun that is not read.
LEMMA NotYet ==
  ASSUME Frames, buf \in Seq(0..255), Len(buf) < Len(data), now \in Nat, Polling, RX(now) = 1
  PROVE  now < starts[Len(buf) + 1]
<1> DEFINE n == Len(buf)
<1>1. /\ bit \in Nat \ {0} /\ n + 1 \in 1..Len(data) /\ bit \in Bits /\ starts[n + 1] \in Nat
  BY FramesType DEF Frames
<1>2. \/ now <= starts[n + 1]
      \/ \E over \in Overs : now <= starts[n + 1] + Late(over, 0)
  BY DEF Polling
<1> HIDE DEF n
<1>3. now < starts[n + 1] + bit
  <2>1. ASSUME NEW over \in Overs
        PROVE  Late(over, 0) < bit /\ Late(over, 0) \in Nat
    BY <1>1, InTime, DelayAssumption DEF Late
  <2> QED
    BY <1>1, <1>2, <2>1
<1>4. SUFFICES ASSUME starts[n + 1] <= now PROVE FALSE
  BY <1>1 DEF n
<1>5. starts[n + 1] + 0 * bit <= now /\ now < starts[n + 1] + 0 * bit + bit
  BY <1>3, <1>4, <1>1
<1>6. RX(now) = 0
  BY <1>5, <1>1, Sampled
<1> QED
  BY <1>6
-----------------------------------------------------------------------------
(* Steps.                                                                  *)

LEMMA Facts ==
  ASSUME ReadInv
  PROVE  /\ bit \in Nat \ {0} /\ bit \in Bits /\ data \in Seq(0..255) /\ Len(data) \in Nat
         /\ Len(buf) \in Nat /\ Len(buf) <= Len(data) /\ now \in Nat /\ timer \in Nat
         /\ starts \in [1..Len(data) -> Nat]
BY FramesType DEF ReadInv, Frames, Right

LEMMA PollKeeps == ReadInv /\ Poll => ReadInv'
<1> SUFFICES ASSUME ReadInv, Poll PROVE ReadInv'
  OBVIOUS
<1> DEFINE n == Len(buf)
<1>1. /\ bit \in Nat \ {0} /\ n \in Nat /\ n <= Len(data) /\ Len(data) \in Nat
      /\ now \in Nat /\ timer \in Nat
      /\ starts \in [1..Len(data) -> Nat]
  BY Facts
<1>2. /\ Frames /\ Right /\ Returned /\ Going /\ Polling
      /\ UNCHANGED <<bit, data, starts, timer, buf, ret>> /\ k' = 0 /\ c' = 0
  BY DEF ReadInv, Poll, adapter, line
<1>3. Frames' /\ Right' /\ Returned' /\ Going' /\ timer' \in Nat
  BY <1>2, <1>1 DEF Frames, Right, Returned, Going
<1>4. CASE RX(now) = 1 /\ Delay(DELAY \div 2) /\ UNCHANGED pc
  <2>1. DELAY \div 2 \in 0..(TimerMod - 1) /\ DELAY \div 2 \in Nat
    BY DelayAssumption
  <2>2. PICK over \in Overs : over \in Nat /\ now' = now + (DELAY \div 2) + over
    BY <1>1, <1>4, <2>1, DelayIs
  <2>3. now' \in Nat /\ now <= now' /\ now' = now + Late(over, 0)
    BY <1>1, <2>1, <2>2, DelayAssumption DEF Late
  <2>4. n > 0 => starts[n] + 9 * bit <= now'
    <3>1. n > 0 => starts[n] \in Nat /\ starts[n] + 9 * bit <= now
      BY <1>1, <1>2 DEF Polling
    <3> QED
      BY <3>1, <2>3, <1>1
  <2>5. n < Len(data) => now' <= starts[n + 1] + Late(over, 0)
    <3>1. SUFFICES ASSUME n < Len(data) PROVE now' <= starts[n + 1] + Late(over, 0)
      OBVIOUS
    <3>2. now < starts[n + 1] /\ starts[n + 1] \in Nat
      BY <3>1, <1>1, <1>2, <1>4, NotYet DEF Right
    <3>3. Late(over, 0) \in Nat
      BY <2>2, DelayAssumption DEF Late
    <3> QED
      BY <3>2, <3>3, <2>3, <1>1
  <2>6. Polling'
    BY <2>4, <2>5, <1>2 DEF Polling, Late
  <2> QED
    BY <1>2, <1>3, <1>4, <2>3, <2>6 DEF ReadInv, Poll
<1>5. CASE RX(now) = 0 /\ Delay(DELAY) /\ pc' = "latch"
  <2>1. DELAY \in 0..(TimerMod - 1) /\ DELAY \in Nat
    BY DelayAssumption
  <2>2. PICK over \in Overs : over \in Nat /\ now' = now + DELAY + over
    BY <1>1, <1>5, <2>1, DelayIs
  <2>3. /\ n < Len(data) /\ starts[n + 1] <= now
        /\ \/ now = starts[n + 1]
           \/ \E late \in Overs : now <= starts[n + 1] + Late(late, 0)
    BY <1>1, <1>2, <1>5, Found DEF Right
  <2>4. n + 1 \in 1..Len(data) /\ starts[n + 1] \in Nat /\ data[n + 1] \in 0..255
    <3>1. n + 1 \in 1..Len(data)
      BY <1>1, <2>3
    <3>2. data \in Seq(0..255)
      BY Facts
    <3>3. data[n + 1] \in 0..255
      BY <3>1, <3>2, ByteOf
    <3> QED
      BY <1>1, <3>1, <3>3
  <2>5. PICK late \in Overs : now <= starts[n + 1] + Late(late, 0)
    <3>1. Late(over, 0) \in Nat /\ 0 \in 0..9
      BY LateNat
    <3>2. CASE now = starts[n + 1]
      <4>1. now <= starts[n + 1] + Late(over, 0)
        BY <3>1, <3>2, <2>4
      <4> QED
        BY <4>1
    <3> QED
      BY <2>3, <3>2
  <2>6. starts[n + 1] + 0 * bit <= now /\ now + DELAY + over \in Int
    BY <2>1, <2>2, <2>3, <2>4, <1>1
  <2>7. bit \in Bits /\ 0 \in 0..8 /\ 0 + 1 = 1
    BY <1>2 DEF Frames
  <2>8. now' \in Nat /\ starts[n + 1] + 1 * bit <= now' /\ \E m \in Overs : now' <= starts[n + 1] + Late(m, 1)
    <3> DEFINE u == now + DELAY + over
    <3>1. u \in Nat /\ starts[n + 1] + (0 + 1) * bit <= u /\ \E m \in Overs : u <= starts[n + 1] + Late(m, 0 + 1)
      BY <1>1, <2>4, <2>5, <2>6, <2>7, NextWait
    <3> QED
      BY <3>1, <2>7, <2>2
  <2>9. c' = data[n + 1] % 2^0
    BY <2>4, <1>2, LowBits
  <2>10. Latching'
    BY <2>3, <2>8, <2>9, <1>2 DEF Latching, Late
  <2> QED
    BY <1>2, <1>3, <1>5, <2>8, <2>10 DEF ReadInv
<1> QED
  BY <1>4, <1>5 DEF Poll

\* A sample falls into the bit it is meant for.
LEMMA SampleOf ==
  ASSUME ReadInv, pc = "latch"
  PROVE  /\ starts[Len(buf) + 1] + (k + 1) * bit <= now
         /\ now < starts[Len(buf) + 1] + (k + 1) * bit + bit
         /\ k < 8 => RX(now) = BitOf(data[Len(buf) + 1], k)
<1> DEFINE n == Len(buf)
<1>1. /\ bit \in Nat \ {0} /\ bit \in Bits /\ now \in Nat /\ k \in 0..8
      /\ n + 1 \in 1..Len(data) /\ starts[n + 1] \in Nat /\ Latching /\ Frames
  BY Facts DEF ReadInv, Latching
<1>2. PICK over \in Overs : now <= starts[n + 1] + Late(over, k + 1)
  BY <1>1 DEF Latching
<1>3. k + 1 \in 0..9 /\ (k + 1) * bit \in Nat
  BY <1>1
<1>4. Late(over, k + 1) < (k + 1) * bit + bit
  BY <1>1, <1>3, InTime
<1>5. Late(over, k + 1) \in Nat
  <2>1. DELAY + over \in Nat /\ DELAY \div 2 \in Nat /\ over \in Nat
    BY DelayAssumption
  <2> QED
    BY <2>1, <1>3 DEF Late
<1>6. starts[n + 1] + (k + 1) * bit <= now
  BY <1>1 DEF Latching
<1>7. now < starts[n + 1] + (k + 1) * bit + bit
  BY <1>1, <1>2, <1>3, <1>4, <1>5
<1>8. ASSUME k < 8 PROVE RX(now) = BitOf(data[n + 1], k)
  <2>1. RX(now) = IF k + 1 = 0 THEN 0 ELSE IF k + 1 = 9 THEN 1 ELSE BitOf(data[n + 1], (k + 1) - 1)
    BY <1>1, <1>3, <1>6, <1>7, Sampled
  <2>2. k + 1 # 0 /\ k + 1 # 9 /\ (k + 1) - 1 = k
    BY <1>8, <1>1
  <2> QED
    BY <2>1, <2>2
<1> QED
  BY <1>6, <1>7, <1>8

LEMMA LatchKeeps == ReadInv /\ Latch => ReadInv'
<1> SUFFICES ASSUME ReadInv, Latch PROVE ReadInv'
  OBVIOUS
<1> DEFINE n == Len(buf)
           s == starts[n + 1]
<1>1. /\ bit \in Nat \ {0} /\ bit \in Bits /\ now \in Nat /\ timer \in Nat /\ k \in 0..7 /\ n \in Nat
      /\ n + 1 \in 1..Len(data) /\ s \in Nat /\ Latching /\ pc = "latch"
      /\ data[n + 1] \in 0..255
  BY Facts DEF ReadInv, Latching, Latch
<1>2. /\ Frames /\ Right /\ Returned /\ Going
      /\ UNCHANGED <<bit, data, starts, timer, buf, ret, pc>> /\ k' = k + 1
      /\ c' = c + RX(now) * 2^k
  BY <1>1 DEF ReadInv, Latch, adapter, line
<1>3. Frames' /\ Right' /\ Returned' /\ Going' /\ timer' \in Nat
  BY <1>1, <1>2 DEF Frames, Right, Returned, Going
<1>4. DELAY \in 0..(TimerMod - 1) /\ DELAY \in Nat
  BY DelayAssumption
<1>5. PICK over \in Overs : over \in Nat /\ now' = now + DELAY + over
  BY <1>1, <1>4, DelayIs DEF Latch
<1>6. PICK late \in Overs : now <= s + Late(late, k + 1)
  BY <1>1 DEF Latching
<1>7. k + 1 \in 0..8 /\ (k + 1) + 1 = k + 2 /\ k' = k + 1 /\ k' \in 0..8 /\ now + DELAY + over \in Int
  BY <1>1, <1>2, <1>4, <1>5
<1>8. s + (k + 1) * bit <= now
  BY <1>1 DEF Latching
<1>9. now' \in Nat /\ s + (k + 2) * bit <= now' /\ \E m \in Overs : now' <= s + Late(m, k + 2)
  <2> HIDE DEF s
  <2> DEFINE u == now + DELAY + over
  <2>1. u \in Nat /\ s + ((k + 1) + 1) * bit <= u /\ \E m \in Overs : u <= s + Late(m, (k + 1) + 1)
    BY <1>1, <1>6, <1>7, <1>8, NextWait
  <2> QED
    BY <2>1, <1>5, <1>7
<1>10. c' = data[n + 1] % 2^(k + 1)
  <2>1. c = data[n + 1] % 2^k /\ RX(now) = BitOf(data[n + 1], k)
    BY <1>1, SampleOf, SMTT(30) DEF Latching
  <2>2. data[n + 1] % 2^(k + 1) = (data[n + 1] % 2^k) + BitOf(data[n + 1], k) * 2^k
    BY <1>1, NextBit
  <2> QED
    BY <2>1, <2>2, <1>2
<1>11. Latching'
  <2>1. n' = n /\ s' = s /\ (k + 1)' = k + 2 /\ bit' = bit /\ data' = data
    BY <1>2, <1>7
  <2>2. starts'[Len(buf') + 1] + (k' + 1) * bit' <= now'
    BY <2>1, <1>2, <1>7, <1>9
  <2>3. \E m \in Overs : now' <= starts'[Len(buf') + 1] + Late(m, k' + 1)
    BY <2>1, <1>2, <1>7, <1>9
  <2>4. c' = data'[Len(buf') + 1] % 2^k'
    BY <1>2, <1>10
  <2>5. Len(buf') < Len(data')
    BY <1>1, <1>2
  <2> QED
    BY <2>2, <2>3, <2>4, <2>5 DEF Latching, Late
<1> QED
  BY <1>1, <1>2, <1>3, <1>7, <1>9, <1>11 DEF ReadInv

\* getc returns the byte that was sent, and the stop bit has begun.
LEMMA GotKeeps == ReadInv /\ Got => ReadInv'
<1> SUFFICES ASSUME ReadInv, Got PROVE ReadInv'
  OBVIOUS
<1> DEFINE n == Len(buf)
<1>1. /\ bit \in Nat \ {0} /\ bit \in Bits /\ now \in Nat /\ timer \in Nat /\ k = 8 /\ n \in Nat
      /\ n + 1 \in 1..Len(data) /\ starts[n + 1] \in Nat /\ Latching /\ pc = "latch"
      /\ data \in Seq(0..255) /\ Len(data) \in Nat
  BY Facts DEF ReadInv, Latching, Got
<1>2. /\ Frames /\ Right /\ Returned /\ Going
      /\ UNCHANGED <<bit, data, starts, timer, now>> /\ k' = 0
      /\ buf' = Append(buf, c) /\ pc' = IF c = 10 \/ Len(buf') = Size THEN "done" ELSE "poll"
      /\ ret' = IF pc' = "poll" THEN {} ELSE IF c = 10 THEN {Len(buf)} ELSE {-1}
  BY <1>1 DEF ReadInv, Got, adapter
<1>3. c = data[n + 1] /\ c \in 0..255
  <2>1. data[n + 1] \in 0..255
    BY <1>1, ByteOf
  <2>2. c = data[n + 1] % 2^8
    BY <1>1 DEF Latching
  <2> QED
    BY <2>1, <2>2, LowBits
<1>4. buf \in Seq(0..255) /\ (\A i \in 1..n : buf[i] = data[i]) /\ (\A i \in 1..n : data[i] # 10)
      /\ ret = {} /\ n < Size /\ Size \in Nat
  BY <1>2, InputAssumption DEF Right, Going
<1>5. /\ buf' \in Seq(0..255) /\ Len(buf') = n + 1 /\ buf'[n + 1] = data[n + 1]
      /\ \A i \in 1..n : buf'[i] = buf[i]
  BY <1>2, <1>3, <1>4
<1>6. Right'
  <2>1. Len(buf') <= Len(data')
    BY <1>1, <1>2, <1>5
  <2>2. \A i \in 1..Len(buf') : buf'[i] = data'[i]
    BY <1>1, <1>2, <1>4, <1>5
  <2> QED
    BY <2>1, <2>2, <1>5 DEF Right
<1>7. Frames' /\ timer' \in Nat /\ now' \in Nat /\ k' \in 0..8
  BY <1>1, <1>2 DEF Frames
<1>8. CASE c # 10 /\ Len(buf') # Size
  <2>1. pc' = "poll" /\ ret' = {}
    BY <1>2, <1>8
  <2>2. Going'
    <3>1. Len(buf') < Size
      BY <1>4, <1>5, <1>8, <1>1
    <3>2. \A i \in 1..Len(buf') : data'[i] # 10
      BY <1>1, <1>2, <1>3, <1>4, <1>5, <1>8
    <3> QED
      BY <3>1, <3>2, <2>1 DEF Going
  <2>3. Returned'
    BY <2>1 DEF Returned
  <2>4. Polling'
    <3>1. (k + 1) * bit = 9 * bit /\ (k + 1) * bit + bit = 10 * bit
      BY <1>1
    <3>2. starts[n + 1] + 9 * bit <= now /\ now < starts[n + 1] + 10 * bit
      BY <1>1, <3>1, SampleOf
    <3>3. starts'[Len(buf')] + 9 * bit' <= now'
      BY <3>2, <1>2, <1>5
    <3>4. Len(buf') < Len(data') => now' <= starts'[Len(buf') + 1]
      <4>1. SUFFICES ASSUME n + 1 < Len(data)
                     PROVE  now <= starts[n + 2]
        BY <1>1, <1>2, <1>5
      <4>2. n + 2 \in 1..Len(data) /\ n + 1 < n + 2
        BY <4>1, <1>1
      <4>3. starts[n + 1] + 10 * bit <= starts[n + 2] /\ starts[n + 2] \in Nat
        BY <4>2, <1>1, <1>2 DEF Frames
      <4> QED
        BY <4>3, <3>2, <1>1
    <3> QED
      BY <3>3, <3>4 DEF Polling
  <2> QED
    BY <1>6, <1>7, <2>1, <2>2, <2>3, <2>4 DEF ReadInv
<1>9. CASE c = 10 \/ Len(buf') = Size
  <2>1. pc' = "done" /\ ret' = IF c = 10 THEN {n} ELSE {-1}
    BY <1>2, <1>9
  <2>2. CASE c = 10
    <3>1. ret' = {n} /\ n # -1
      BY <2>1, <2>2, <1>1
    <3>2. n + 1 = Len(buf') /\ data'[n + 1] = 10 /\ \A i \in 1..n : data'[i] # 10
      BY <1>2, <1>3, <1>4, <1>5, <2>2
    <3>3. Returned'
      <4> HIDE DEF n
      <4> QED
        BY <3>1, <3>2 DEF Returned
    <3> QED
      BY <3>3, <1>6, <1>7, <2>1 DEF ReadInv
  <2>3. CASE c # 10
    <3>1. Len(buf') = Size /\ n + 1 = Size /\ ret' = {-1}
      BY <2>1, <2>3, <1>9, <1>5
    <3>2. \A i \in 1..Size : data'[i] # 10
      BY <3>1, <1>1, <1>2, <1>3, <1>4, <2>3
    <3>3. Returned'
      BY <3>1, <3>2 DEF Returned
    <3> QED
      BY <3>3, <1>6, <1>7, <2>1 DEF ReadInv
  <2> QED
    BY <2>2, <2>3
<1> QED
  BY <1>8, <1>9

LEMMA StutterKeeps == ReadInv /\ UNCHANGED vars => ReadInv'
<1> SUFFICES ASSUME ReadInv, UNCHANGED vars PROVE ReadInv'
  OBVIOUS
<1>1. UNCHANGED <<way, bit, data, starts, timer, now, pc, k, c, buf, ret>>
  BY DEF vars, adapter, line
<1>2. Frames' /\ Right' /\ Returned'
  BY <1>1 DEF ReadInv, Frames, Right, Returned
<1>3. (Going => Going') /\ (Polling => Polling') /\ (Latching => Latching')
  BY <1>1 DEF Going, Polling, Latching, Late
<1> QED
  BY <1>1, <1>2, <1>3 DEF ReadInv

\* Whoever is in readline never comes to the steps of send_data.
LEMMA StepKeeps == Inv /\ [Next]_vars => Inv'
<1> SUFFICES ASSUME Inv, [Next]_vars, way' = "readline"
             PROVE  ReadInv'
  BY DEF Inv
<1>1. way = "readline"
  BY DEF vars, Next, Poll, Latch, Got, SetOutput, WriteHigh, Put, PutNext, PutAll
<1>2. ReadInv /\ pc \in {"poll", "latch", "done"}
  BY <1>1 DEF Inv, ReadInv
<1>3. CASE Poll
  BY <1>2, <1>3, PollKeeps
<1>4. CASE Latch
  BY <1>2, <1>4, LatchKeeps
<1>5. CASE Got
  BY <1>2, <1>5, GotKeeps
<1>6. CASE SetOutput \/ WriteHigh \/ Put \/ PutNext \/ PutAll
  BY <1>2, <1>6 DEF SetOutput, WriteHigh, Put, PutNext, PutAll
<1>7. CASE UNCHANGED vars
  BY <1>2, <1>7, StutterKeeps
<1> QED
  BY <1>3, <1>4, <1>5, <1>6, <1>7 DEF Next

LEMMA InvAlways == Spec => []Inv
<1>1. Init => Inv
  BY Starts
<1>2. Inv /\ [Next]_vars => Inv'
  BY StepKeeps
<1> QED
  BY <1>1, <1>2, PTL DEF Spec
-----------------------------------------------------------------------------
(* Theorems.                                                               *)

\* readline reads the bytes that were sent, all of them and in their order, and
\* returns at the first newline or when the buffer is full, for every pair of
\* clocks and every lag of delay_us that the margin allows.
THEOREM ReadsRight == Spec => []ReadsWhatIsSent
<1>1. Inv => ReadsWhatIsSent
  <2> SUFFICES ASSUME Inv, way = "readline"
               PROVE  Right /\ Returned
    BY DEF ReadsWhatIsSent, Right, Returned
  <2> QED
    BY DEF Inv, ReadInv
<1> QED
  BY <1>1, InvAlways, PTL

LEMMA Prompt == ReadInv /\ pc \in {"poll", "latch"} =>
  \A f \in 1..Len(data) : starts[f] + 10 * bit + DELAY <= now => Len(buf) >= f
<1> SUFFICES ASSUME ReadInv, pc \in {"poll", "latch"}, NEW f \in 1..Len(data),
                    starts[f] + 10 * bit + DELAY <= now, Len(buf) < f
             PROVE  FALSE
  BY Facts
<1> DEFINE n == Len(buf)
<1>1. /\ bit \in Nat \ {0} /\ bit \in Bits /\ now \in Nat /\ n \in Nat /\ k \in 0..8
      /\ n < Len(data) /\ Len(data) \in Nat
      /\ starts \in [1..Len(data) -> Nat]
      /\ \A g, h \in 1..Len(data) : g < h => starts[g] + 10 * bit <= starts[h]
  BY Facts DEF ReadInv, Frames
<1>2. n + 1 \in 1..Len(data) /\ n + 1 <= f
  BY <1>1
<1>3. starts[n + 1] \in Nat /\ starts[f] \in Nat /\ starts[n + 1] <= starts[f]
  BY <1>1, <1>2
<1>4. DELAY \in Nat
  BY DelayAssumption
<1>5. starts[n + 1] + 10 * bit <= now
  BY <1>1, <1>3, <1>4
<1>6. CASE pc = "poll"
  <2>1. \/ now <= starts[n + 1]
        \/ \E over \in Overs : now <= starts[n + 1] + Late(over, 0)
    BY <1>6, <1>1 DEF ReadInv, Polling
  <2>2. ASSUME NEW over \in Overs PROVE Late(over, 0) < bit /\ Late(over, 0) \in Nat
    <3>1. 0 \in 0..9 /\ 0 * bit + bit = bit
      BY <1>1
    <3> QED
      BY <3>1, <1>1, InTime, LateNat
  <2> QED
    BY <2>1, <2>2, <1>1, <1>3, <1>5
<1>7. CASE pc = "latch"
  <2>1. now < starts[n + 1] + (k + 1) * bit + bit
    BY <1>7, SampleOf
  <2>2. (k + 1) * bit \in Nat /\ (k + 1) * bit <= 9 * bit
    BY <1>1, Z3
  <2> QED
    BY <2>1, <2>2, <1>1, <1>3, <1>5
<1> QED
  BY <1>6, <1>7

\* While readline goes on, no frame is over for longer than DELAY without its byte
\* having been read, for the same clocks and lags.
THEOREM KeepsUpAlways == Spec => []KeepsUp
<1>1. Inv => KeepsUp
  <2> SUFFICES ASSUME Inv, way = "readline", pc # "done"
               PROVE  \A f \in DOMAIN starts : starts[f] + 10 * bit + DELAY <= now => Len(buf) >= f
    BY DEF KeepsUp
  <2>1. ReadInv /\ pc \in {"poll", "latch"}
    BY DEF Inv, ReadInv
  <2>2. DOMAIN starts = 1..Len(data)
    BY <2>1, Facts
  <2> QED
    BY <2>1, <2>2, Prompt
<1> QED
  BY <1>1, InvAlways, PTL
-----------------------------------------------------------------------------
(* Sending.                                                                *)

\* How long n waits may take, each of them no more than `over` too long.
Waits(over, n) == n * (DELAY + over)

LEMMA WaitsGrow ==
  ASSUME NEW a \in Overs, NEW b \in Overs, NEW n \in 0..9
  PROVE  \E m \in Overs : Waits(a, n) <= Waits(m, n) /\ Waits(a, n) + DELAY + b <= Waits(m, n + 1)
<1>1. a \in Nat /\ b \in Nat /\ DELAY \in Nat
  BY DelayAssumption
<1>2. CASE a <= b
  <2>1. n * (DELAY + a) <= n * (DELAY + b) /\ (n + 1) * (DELAY + b) = n * (DELAY + b) + DELAY + b
    BY <1>1, <1>2, Z3
  <2>2. n * (DELAY + a) \in Nat /\ n * (DELAY + b) \in Nat
    BY <1>1
  <2> QED
    BY <2>1, <2>2, <1>1, <1>2 DEF Waits
<1>3. CASE b <= a
  <2>1. (n + 1) * (DELAY + a) = n * (DELAY + a) + DELAY + a /\ n * (DELAY + a) \in Nat
    BY <1>1, Z3
  <2> QED
    BY <2>1, <1>1, <1>3 DEF Waits
<1> QED
  BY <1>1, <1>2, <1>3

LEMMA WaitsNat ==
  ASSUME NEW over \in Overs, NEW n \in 0..10
  PROVE  over \in Nat /\ DELAY + over \in Nat /\ Waits(over, n) \in Nat
<1>1. over \in Nat /\ DELAY + over \in Nat
  BY DelayAssumption
<1>2. n * (DELAY + over) \in Nat
  BY <1>1
<1> QED
  BY <1>1, <1>2 DEF Waits

\* The middle of bit n of the adapter has not passed when the Pi begins its bit n.
LEMMA BeforeMiddle ==
  ASSUME NEW b \in Bits, NEW over \in Overs, NEW n \in 0..9
  PROVE  Waits(over, n) <= n * b + (b \div 2)
<1>1. /\ over \in Nat /\ DELAY \in Nat /\ DELAY \div 2 \in Nat /\ b \in Nat
      /\ b <= DELAY + over
      /\ (DELAY \div 2) + over + 9 * (DELAY + over - b) < b
  BY DelayAssumption, InputAssumption, MarginAssumption
<1> DEFINE e == DELAY + over - b
<1>2. e \in Nat
  BY <1>1
<1>3. n * (DELAY + over) = n * b + n * e /\ n * b \in Nat /\ n * e \in Nat
  BY <1>1, <1>2
<1> HIDE DEF e
<1>4. n * e <= 9 * e
  BY <1>2
<1>5. 9 * e <= b \div 2
  <2>1. DELAY <= 2 * (DELAY \div 2) + 1 /\ b <= 2 * (b \div 2) + 1 /\ b \div 2 \in Nat
    BY <1>1
  <2>2. (DELAY \div 2) + over + 9 * e < b
    BY <1>1 DEF e
  <2> QED
    BY <1>1, <1>2, <2>1, <2>2
<1>6. b \div 2 \in Nat
  BY <1>1
<1> QED
  BY <1>3, <1>4, <1>5, <1>6, <1>2 DEF Waits

\* The bytes up to n, as the adapter hears them.
Told(n) == [i \in 1..n |-> Ones(data[i])]

\* Set up, and nothing sent: what the adapter took for a start bit is over before it
\* looks at it.
SetLow == /\ buf = <<>> /\ tx = 0 /\ since \in Nat
          /\ frame = [fall |-> since, ones |-> {}, bytes |-> <<>>]
          /\ \E g \in Glitches : now = since + g
SetHigh == /\ buf = <<>> /\ tx = 1 /\ frame.fall \in Nat
           /\ frame = [fall |-> frame.fall, ones |-> {}, bytes |-> <<>>]
           /\ \E g \in Glitches, s \in Settles : since = frame.fall + g /\ now = since + s

\* The first j bits of byte n have been written, the last of them for a wait; the
\* adapter has seen the ones before it, and this one will have been there at the
\* middle of its time.
Written(n, j) ==
  /\ n \in 1..Len(data) /\ frame.fall \in Nat
  /\ frame = [fall |-> frame.fall, ones |-> {i \in Ones(data[n]) : i < j - 1}, bytes |-> Told(n - 1)]
  /\ tx = FrameBit(data[n], j - 1)
  /\ since \in Nat
  /\ frame.fall + (j - 1) * bit <= since
  /\ \E over \in Overs : since <= frame.fall + Waits(over, j - 1)
  /\ frame.fall + j * bit <= now
  /\ \E over \in Overs : now <= frame.fall + Waits(over, j)

SendInv ==
  /\ bit \in Bits /\ data \in Data /\ timer \in Nat /\ now \in Nat
  /\ k \in 0..10 /\ ret = {} /\ c = 0 /\ buf \in Seq(0..255) /\ Len(buf) <= Len(data)
  /\ pc \in {"init", "high", "put", "done"}
  /\ pc = "init" => buf = <<>> /\ tx = 1 /\ frame = [fall |-> -1, ones |-> {}, bytes |-> <<>>]
  /\ pc = "high" => SetLow
  /\ pc = "put" /\ k = 0 => IF Len(buf) = 0 THEN SetHigh ELSE Written(Len(buf), 10)
  /\ pc = "put" /\ k > 0 => Written(Len(buf) + 1, k)
  /\ pc = "done" => frame.bytes = Told(Len(data))

SInv == way = "send_data" => SendInv

LEMMA SendFacts ==
  ASSUME SendInv
  PROVE  /\ bit \in Nat \ {0} /\ bit \div 2 \in Nat /\ bit \div 2 < bit
         /\ data \in Seq(0..255) /\ Len(data) \in Nat /\ Len(buf) \in Nat
<1>1. bit \in Nat \ {0} /\ data \in Seq(0..255)
  BY InputAssumption DEF SendInv
<1> QED
  BY <1>1 DEF SendInv

LEMMA FrameBitIs ==
  ASSUME NEW x \in 0..255, NEW i \in 0..9
  PROVE  /\ FrameBit(x, i) \in {0, 1} /\ FrameBit(x, 0) = 0 /\ FrameBit(x, 9) = 1
         /\ i \in 1..8 => (FrameBit(x, i) = 1 <=> i \in Ones(x))
<1>1. FrameBit(x, 0) = 0 /\ FrameBit(x, 9) = 1
  BY DEF FrameBit
<1>2. i \in 1..8 => FrameBit(x, i) = BitOf(x, i - 1) /\ BitOf(x, i - 1) \in {0, 1}
  <2>1. SUFFICES ASSUME i \in 1..8 PROVE FrameBit(x, i) = BitOf(x, i - 1) /\ BitOf(x, i - 1) \in {0, 1}
    OBVIOUS
  <2>2. i - 1 \in 0..7 /\ i # 0 /\ i # 9
    BY <2>1
  <2> QED
    BY <2>2, BitIs DEF FrameBit
<1>3. i = 0 \/ i = 9 \/ i \in 1..8
  OBVIOUS
<1> QED
  BY <1>1, <1>2, <1>3 DEF Ones

\* The set of its ones tells one byte from another.
LEMMA OnesTell ==
  ASSUME NEW x \in 0..255, NEW y \in 0..255, Ones(x) = Ones(y)
  PROVE  x = y
<1>1. ASSUME NEW i \in 0..7 PROVE BitOf(x, i) = BitOf(y, i)
  <2>1. i + 1 \in 1..8 /\ (i + 1) - 1 = i
    OBVIOUS
  <2>2. BitOf(x, i) \in {0, 1} /\ BitOf(y, i) \in {0, 1}
    BY BitIs
  <2>3. BitOf(x, i) = 1 <=> BitOf(y, i) = 1
    BY <2>1 DEF Ones
  <2> QED
    BY <2>2, <2>3
<1>2. ASSUME NEW i \in 0..7, x % 2^i = y % 2^i PROVE x % 2^(i + 1) = y % 2^(i + 1)
  BY <1>1, <1>2, NextBit
<1>3. x % 2^0 = y % 2^0
  BY LowBits
<1>4. x % 2^1 = y % 2^1
  BY <1>2, <1>3
<1>5. x % 2^2 = y % 2^2
  BY <1>2, <1>4
<1>6. x % 2^3 = y % 2^3
  BY <1>2, <1>5
<1>7. x % 2^4 = y % 2^4
  BY <1>2, <1>6
<1>8. x % 2^5 = y % 2^5
  BY <1>2, <1>7
<1>9. x % 2^6 = y % 2^6
  BY <1>2, <1>8
<1>10. x % 2^7 = y % 2^7
  BY <1>2, <1>9
<1>11. x % 2^8 = y % 2^8
  BY <1>2, <1>10
<1> QED
  BY <1>11, LowBits

\* Of a frame the Pi is sending, the adapter looks at each bit while it is there.
LEMMA SeenIs ==
  ASSUME SendInv, NEW n, NEW j \in 1..10, Written(n, j)
  PROVE  Seen = {j - 1}
<1>1. /\ bit \in Nat \ {0} /\ bit \in Bits /\ bit \div 2 \in Nat /\ bit \div 2 < bit
      /\ now \in Nat /\ since \in Nat /\ frame.fall \in Nat
  BY SendFacts DEF SendInv, Written
<1>2. PICK a \in Overs : since <= frame.fall + Waits(a, j - 1)
  BY DEF Written
<1>3. PICK b \in Overs : now <= frame.fall + Waits(b, j)
  BY DEF Written
<1>4. frame.fall + (j - 1) * bit <= since /\ frame.fall + j * bit <= now
  BY DEF Written
<1>5. j - 1 \in 0..9 /\ j \in 0..10
  OBVIOUS
<1>6. Waits(a, j - 1) \in Nat /\ Waits(a, j - 1) <= (j - 1) * bit + (bit \div 2)
  BY <1>1, <1>2, <1>5, WaitsNat, BeforeMiddle
<1>7. Waits(b, j) \in Nat /\ (j < 10 => Waits(b, j) <= j * bit + (bit \div 2))
  <2>1. j < 10 => j \in 0..9
    OBVIOUS
  <2> QED
    BY <1>1, <1>3, <1>5, <2>1, WaitsNat, BeforeMiddle
<1> DEFINE h == bit \div 2
<1> HIDE DEF h
<1>8. h \in Nat /\ h < bit /\ bit \div 2 = h
  BY <1>1 DEF h
<1>9. ASSUME NEW i \in 0..9
      PROVE  (since <= frame.fall + i * bit + (bit \div 2) /\ frame.fall + i * bit + (bit \div 2) < now) <=> i = j - 1
  <2>1. i * bit \in Nat /\ (j - 1) * bit \in Nat /\ j * bit = (j - 1) * bit + bit
    BY <1>1
  <2>2. CASE i = j - 1
    <3> DEFINE p == (j - 1) * bit
    <3>1. i * bit = p /\ p \in Nat /\ j * bit = p + bit
      BY <2>1, <2>2
    <3>2. since <= frame.fall + (p + h)
      BY <1>1, <1>2, <1>6, <1>8, <3>1
    <3>3. frame.fall + (p + bit) <= now
      BY <1>4, <3>1
    <3> HIDE DEF p
    <3> QED
      BY <1>1, <1>8, <2>2, <3>1, <3>2, <3>3
  <2>3. CASE i < j - 1
    <3>1. i * bit + bit <= (j - 1) * bit
      BY <1>1, <2>3, Z3
    <3> QED
      BY <1>1, <1>4, <1>8, <2>1, <2>3, <3>1
  <2>4. CASE i > j - 1
    <3>1. j * bit <= i * bit /\ j < 10 /\ j * bit \in Nat
      BY <1>1, <2>4, Z3
    <3> QED
      BY <1>1, <1>3, <1>7, <1>8, <2>1, <2>4, <3>1
  <2> QED
    BY <2>2, <2>3, <2>4
<1>10. Seen = {i \in 0..9 : since <= frame.fall + i * bit + (bit \div 2) /\ frame.fall + i * bit + (bit \div 2) < now}
  BY DEF Seen
<1>11. ASSUME NEW i PROVE i \in Seen <=> i = j - 1
  BY <1>5, <1>9, <1>10
<1> QED
  BY <1>11

LEMMA HeardIs ==
  ASSUME SendInv, NEW n, NEW j \in 1..10, Written(n, j)
  PROVE  IF j = 10 THEN Heard = Idle(Told(n))
         ELSE Heard = [fall |-> frame.fall, ones |-> {i \in Ones(data[n]) : i < j}, bytes |-> Told(n - 1)]
<1> DEFINE x == data[n]
           old == {i \in Ones(x) : i < j - 1}
           ones == IF tx = 1 THEN frame.ones \cup (Seen \cap 1..8) ELSE frame.ones
<1>1. n \in 1..Len(data) /\ x \in 0..255 /\ j - 1 \in 0..9 /\ Len(data) \in Nat
  <2>1. n \in 1..Len(data) /\ data \in Seq(0..255) /\ Len(data) \in Nat
    BY SendFacts DEF Written
  <2> QED
    BY <2>1, ByteOf
<1>2. Seen = {j - 1}
  BY SeenIs
<1>3. /\ frame.fall \in Nat /\ frame.ones = old /\ frame.bytes = Told(n - 1)
      /\ tx = FrameBit(x, j - 1)
  <2>1. frame = [fall |-> frame.fall, ones |-> old, bytes |-> Told(n - 1)]
    BY DEF Written
  <2> QED
    BY <2>1 DEF Written
<1>4. ones = {i \in Ones(x) : i < j}
  <2>1. j - 1 \in 1..8 => (tx = 1 <=> j - 1 \in Ones(x))
    BY <1>1, <1>3, FrameBitIs
  <2>2. Ones(x) \subseteq 1..8
    BY DEF Ones
  <2>3. ASSUME NEW i \in 1..8 PROVE i < j <=> i < j - 1 \/ i = j - 1
    OBVIOUS
  <2>4. ASSUME NEW i PROVE i \in ones <=> i \in Ones(x) /\ i < j
    <3>1. i \in ones <=> i \in old \/ (tx = 1 /\ i = j - 1 /\ i \in 1..8)
      BY <1>2, <1>3
    <3>2. i \in old <=> i \in Ones(x) /\ i < j - 1
      OBVIOUS
    <3>3. i = j - 1 /\ i \in 1..8 => (tx = 1 <=> i \in Ones(x)) /\ i < j
      BY <2>1
    <3>4. i \in Ones(x) => i \in 1..8 /\ (i < j <=> i < j - 1 \/ i = j - 1)
      BY <2>2, <2>3
    <3> HIDE DEF old, ones, x
    <3> QED
      BY <3>1, <3>2, <3>3, <3>4
  <2> QED
    BY <2>4
<1>5. ~(frame.fall < 0)
  BY <1>3
<1>6. ~((0 \in Seen /\ tx = 1) \/ (9 \in Seen /\ tx = 0))
  <2>1. ASSUME j - 1 = 0 PROVE tx = 0
    <3>1. tx = FrameBit(x, 0)
      BY <1>3, <2>1
    <3> HIDE DEF x
    <3> QED
      BY <1>1, <3>1, FrameBitIs
  <2>2. ASSUME j - 1 = 9 PROVE tx = 1
    <3>1. tx = FrameBit(x, 9)
      BY <1>3, <2>2
    <3> HIDE DEF x
    <3> QED
      BY <1>1, <3>1, FrameBitIs
  <2> QED
    BY <1>2, <2>1, <2>2
<1>7. Heard = IF 9 \in Seen THEN Idle(Append(frame.bytes, ones))
              ELSE [fall |-> frame.fall, ones |-> ones, bytes |-> frame.bytes]
  BY <1>5, <1>6 DEF Heard
<1> HIDE DEF ones, x
<1>8. CASE j = 10
  <2>1. {i \in Ones(x) : i < j} = Ones(x)
    BY <1>8 DEF Ones
  <2>2. Heard = Idle(Append(Told(n - 1), Ones(x)))
    BY <1>2, <1>3, <1>4, <1>7, <1>8, <2>1
  <2>3. Append(Told(n - 1), Ones(x)) = Told(n)
    BY <1>1 DEF Told, x
  <2> QED
    BY <1>8, <2>2, <2>3
<1>9. CASE j # 10
  <2>1. 9 \notin Seen
    BY <1>2, <1>9
  <2> QED
    BY <1>3, <1>4, <1>7, <1>9, <2>1 DEF x
<1> QED
  BY <1>8, <1>9

\* When the Pi begins a byte, the adapter waits for a start bit, all bytes before
\* this one have been heard, and the line is high.
LEMMA LineFree ==
  ASSUME SendInv, pc = "put", k = 0
  PROVE  tx = 1 /\ Heard = Idle(Told(Len(buf)))
<1>1. /\ bit \in Nat \ {0} /\ bit \in Bits /\ bit \div 2 \in Nat /\ bit \div 2 < bit
      /\ data \in Seq(0..255) /\ Len(buf) \in Nat
  BY SendFacts DEF SendInv
<1>2. CASE Len(buf) = 0
  <2>1. SetHigh
    BY <1>2 DEF SendInv
  <2>2. /\ tx = 1 /\ frame.fall \in Nat /\ frame.bytes = <<>>
    BY <2>1 DEF SetHigh
  <2>3. PICK g \in Glitches, s \in Settles : since = frame.fall + g /\ now = since + s
    BY <2>1 DEF SetHigh
  <2>4. g \in Nat /\ s \in Nat /\ g <= bit \div 2 /\ bit \div 2 < g + s
    BY <1>1, DelayAssumption, SetUpAssumption
  <2>5. 0 \in Seen
    <3>1. since <= frame.fall + 0 * bit + (bit \div 2) /\ frame.fall + 0 * bit + (bit \div 2) < now
      BY <1>1, <2>2, <2>3, <2>4
    <3> QED
      BY <3>1 DEF Seen
  <2>6. Heard = Idle(frame.bytes)
    BY <2>2, <2>5 DEF Heard
  <2>7. Told(Len(buf)) = <<>>
    BY <1>2 DEF Told
  <2> QED
    BY <2>2, <2>6, <2>7
<1>3. CASE Len(buf) # 0
  <2>1. Written(Len(buf), 10)
    BY <1>3 DEF SendInv
  <2>2. Heard = Idle(Told(Len(buf)))
    BY <2>1, HeardIs
  <2>3. Len(buf) \in 1..Len(data) /\ tx = FrameBit(data[Len(buf)], 10 - 1)
    BY <2>1 DEF Written
  <2>4. tx = FrameBit(data[Len(buf)], 9)
    BY <2>3
  <2>5. tx = 1
    BY <2>4 DEF FrameBit
  <2> QED
    BY <2>2, <2>5
<1> QED
  BY <1>2, <1>3

\* One bit more: it begins now, and the wait takes it past its end.
LEMMA PutKeeps == SendInv /\ Put => SendInv'
<1> SUFFICES ASSUME SendInv, Put PROVE SendInv'
  OBVIOUS
<1> DEFINE n == Len(buf) + 1
           x == data[n]
           F == IF k = 0 THEN now ELSE frame.fall
<1>1. /\ bit \in Nat \ {0} /\ bit \in Bits /\ now \in Nat /\ timer \in Nat /\ k \in 0..9
      /\ n \in 1..Len(data) /\ Len(data) \in Nat /\ data \in Seq(0..255) /\ pc = "put"
      /\ data \in Data /\ ret = {} /\ c = 0 /\ buf \in Seq(0..255) /\ Len(buf) <= Len(data)
      /\ Len(buf) \in Nat
  BY SendFacts DEF SendInv, Put
<1>2. /\ UNCHANGED <<bit, data, starts, timer, pc, c, buf, ret>> /\ k' = k + 1
      /\ Drive(FrameBit(x, k)) /\ Delay(DELAY)
  BY DEF Put, adapter, line
<1>3. tx' = FrameBit(x, k) /\ since' = now
  BY <1>2 DEF Drive
<1>4. x \in 0..255 /\ FrameBit(x, 0) = 0
  <2>1. x \in 0..255
    BY <1>1, ByteOf
  <2>2. FrameBit(x, 0) = 0
    BY DEF FrameBit
  <2> QED
    BY <2>1, <2>2
<1>5. /\ F \in Nat /\ F + k * bit <= now /\ \E over \in Overs : now <= F + Waits(over, k)
      /\ frame' = [fall |-> F, ones |-> {i \in Ones(x) : i < k}, bytes |-> Told(n - 1)]
  <2>1. CASE k = 0
    <3>1. tx = 1 /\ Heard = Idle(Told(Len(buf)))
      BY <1>1, <2>1, LineFree
    <3>2. Heard.fall < 0 /\ Heard.bytes = Told(Len(buf))
      BY <3>1 DEF Idle
    <3>3. frame' = [fall |-> now, ones |-> {}, bytes |-> Told(Len(buf))]
      BY <1>2, <1>4, <2>1, <3>1, <3>2 DEF Drive
    <3>4. {i \in Ones(x) : i < k} = {} /\ n - 1 = Len(buf)
      BY <1>1, <2>1 DEF Ones
    <3>5. PICK over \in Overs : TRUE
      BY <1>2 DEF Delay
    <3>6. Waits(over, k) = 0 /\ k * bit = 0
      <4>1. DELAY + over \in Nat
        BY DelayAssumption
      <4> QED
        BY <1>1, <2>1, <4>1 DEF Waits
    <3>7. F = now /\ now \in Nat
      BY <1>1, <2>1
    <3>8. now <= F + Waits(over, k) /\ F + k * bit <= now
      BY <3>6, <3>7
    <3> HIDE DEF F, n, x
    <3>9. frame' = [fall |-> F, ones |-> {i \in Ones(x) : i < k}, bytes |-> Told(n - 1)]
      BY <3>3, <3>4, <3>7
    <3> QED
      BY <3>7, <3>8, <3>9
  <2>2. CASE k # 0
    <3>1. Written(n, k) /\ k \in 1..10 /\ k # 10
      BY <1>1, <2>2 DEF SendInv
    <3>2. Heard = [fall |-> frame.fall, ones |-> {i \in Ones(x) : i < k}, bytes |-> Told(n - 1)]
      BY <3>1, HeardIs
    <3>3. F = frame.fall /\ frame.fall \in Nat
      BY <2>2, <3>1 DEF Written
    <3>4. ~(Heard.fall < 0)
      BY <3>2, <3>3
    <3>5. frame' = Heard
      BY <1>2, <3>4 DEF Drive
    <3> QED
      BY <3>1, <3>2, <3>3, <3>5 DEF Written
  <2> QED
    BY <2>1, <2>2
<1> HIDE DEF F
<1>6. DELAY \in 0..(TimerMod - 1) /\ DELAY \in Nat
  BY DelayAssumption
<1>7. PICK over \in Overs : over \in Nat /\ now' = now + DELAY + over
  BY <1>1, <1>2, <1>6, DelayIs
<1>8. now' \in Nat /\ F + (k + 1) * bit <= now'
  <2>1. bit <= DELAY + over
    <3>1. 0 \in 0..9
      OBVIOUS
    <3> QED
      BY <1>1, <3>1, InTime
  <2>2. (k + 1) * bit = k * bit + bit /\ k * bit \in Nat
    BY <1>1
  <2> QED
    BY <1>1, <1>5, <1>6, <1>7, <2>1, <2>2
<1>9. \E m \in Overs : now' <= F + Waits(m, k + 1)
  <2>1. PICK a \in Overs : now <= F + Waits(a, k)
    BY <1>5
  <2>2. PICK m \in Overs : Waits(a, k) + DELAY + over <= Waits(m, k + 1)
    BY <1>1, WaitsGrow
  <2>3. Waits(a, k) \in Nat /\ Waits(m, k + 1) \in Nat
    <3>1. k \in 0..10 /\ k + 1 \in 0..10
      BY <1>1
    <3> QED
      BY <3>1, WaitsNat
  <2>4. now + DELAY + over <= F + Waits(m, k + 1)
    <3> HIDE DEF n, x
    <3>1. now \in Nat /\ F \in Nat /\ over \in Nat
      BY <1>1, <1>5, <1>7
    <3> QED
      BY <3>1, <1>6, <2>1, <2>2, <2>3
  <2> QED
    BY <1>7, <2>4
<1>10. k + 1 \in 1..10 /\ (k + 1) - 1 = k
  BY <1>1
<1>11. frame'.fall = F /\ Told(n - 1)' = Told(n - 1)
  BY <1>2, <1>5 DEF Told
<1>12. Written(Len(buf) + 1, k)'
  <2>1. Len(buf') + 1 \in 1..Len(data') /\ frame'.fall \in Nat /\ since' \in Nat
    BY <1>1, <1>2, <1>3, <1>5, <1>11
  <2>2. frame' = [fall |-> frame'.fall, ones |-> {i \in Ones(data'[Len(buf') + 1]) : i < k' - 1},
                  bytes |-> Told((Len(buf) + 1) - 1)']
    BY <1>2, <1>5, <1>10, <1>11
  <2>3. tx' = FrameBit(data'[Len(buf') + 1], k' - 1)
    BY <1>2, <1>3, <1>10
  <2>4. /\ frame'.fall + (k' - 1) * bit' <= since'
        /\ \E m \in Overs : since' <= frame'.fall + Waits(m, k' - 1)
    BY <1>2, <1>3, <1>5, <1>10, <1>11
  <2>5. /\ frame'.fall + k' * bit' <= now'
        /\ \E m \in Overs : now' <= frame'.fall + Waits(m, k')
    BY <1>2, <1>8, <1>9, <1>11
  <2> QED
    BY <2>1, <2>2, <2>3, <2>4, <2>5 DEF Written, Waits
<1> QED
  BY <1>1, <1>2, <1>8, <1>10, <1>12 DEF SendInv

\* The pin becomes an output, and with it low.
LEMMA SetOutputKeeps == SendInv /\ SetOutput => SendInv'
<1> SUFFICES ASSUME SendInv, SetOutput PROVE SendInv'
  OBVIOUS
<1>1. /\ bit \in Bits /\ data \in Data /\ timer \in Nat /\ now \in Nat /\ k \in 0..10
      /\ ret = {} /\ c = 0 /\ buf = <<>> /\ tx = 1 /\ Len(buf) <= Len(data)
      /\ frame = [fall |-> -1, ones |-> {}, bytes |-> <<>>]
  BY DEF SendInv, SetOutput
<1>2. /\ UNCHANGED <<bit, data, timer, k, c, buf, ret>> /\ pc' = "high" /\ Drive(0)
      /\ \E g \in Glitches : now' = now + g
  BY DEF SetOutput, adapter, line
<1>3. now' \in Nat
  BY <1>1, <1>2, DelayAssumption
<1>4. Heard = frame /\ Heard.fall < 0 /\ Heard.bytes = <<>>
  BY <1>1 DEF Heard
<1>5. tx' = 0 /\ since' = now /\ frame' = [fall |-> now, ones |-> {}, bytes |-> <<>>]
  BY <1>1, <1>2, <1>4 DEF Drive
<1>6. SetLow'
  BY <1>1, <1>2, <1>5 DEF SetLow
<1> QED
  BY <1>1, <1>2, <1>3, <1>6 DEF SendInv

\* It is written high before the adapter has looked at it.
LEMMA WriteHighKeeps == SendInv /\ WriteHigh => SendInv'
<1> SUFFICES ASSUME SendInv, WriteHigh PROVE SendInv'
  OBVIOUS
<1>1. /\ bit \in Nat \ {0} /\ bit \in Bits /\ data \in Data /\ timer \in Nat /\ now \in Nat
      /\ ret = {} /\ c = 0 /\ SetLow /\ bit \div 2 \in Nat /\ Len(buf) <= Len(data)
  BY SendFacts DEF SendInv, WriteHigh
<1>2. /\ UNCHANGED <<bit, data, timer, c, buf, ret>> /\ pc' = "put" /\ k' = 0 /\ Drive(1)
      /\ \E s \in Settles : now' = now + s
  BY DEF WriteHigh, adapter, line
<1>3. /\ buf = <<>> /\ tx = 0 /\ since \in Nat
      /\ frame = [fall |-> since, ones |-> {}, bytes |-> <<>>]
  BY <1>1 DEF SetLow
<1>4. PICK g \in Glitches : now = since + g
  BY <1>1 DEF SetLow
<1>5. g \in Nat /\ g <= bit \div 2
  <2>1. PICK s \in Settles : TRUE
    BY <1>2
  <2> QED
    BY <1>1, <2>1, DelayAssumption, SetUpAssumption
<1>6. Seen = {}
  <2>1. ASSUME NEW i \in 0..9
        PROVE  ~(frame.fall + i * bit + (bit \div 2) < now)
    <3>1. i * bit \in Nat
      BY <1>1
    <3> QED
      BY <1>1, <1>3, <1>4, <1>5, <3>1
  <2> QED
    BY <2>1 DEF Seen
<1>7. Heard = frame /\ ~(Heard.fall < 0)
  BY <1>3, <1>6 DEF Heard
<1>8. tx' = 1 /\ since' = now /\ frame' = frame
  BY <1>2, <1>7 DEF Drive
<1>9. PICK s \in Settles : now' = now + s
  BY <1>2
<1>10. now' \in Nat
  BY <1>1, <1>9, DelayAssumption
<1>11. SetHigh'
  <2>1. since' = frame'.fall + g /\ now' = since' + s
    BY <1>3, <1>4, <1>8, <1>9
  <2>2. frame'.fall \in Nat /\ frame' = [fall |-> frame'.fall, ones |-> {}, bytes |-> <<>>]
    BY <1>3, <1>8
  <2> QED
    BY <1>2, <1>3, <1>8, <2>1, <2>2 DEF SetHigh
<1> QED
  BY <1>1, <1>2, <1>3, <1>10, <1>11 DEF SendInv

LEMMA PutNextKeeps == SendInv /\ PutNext => SendInv'
<1> SUFFICES ASSUME SendInv, PutNext PROVE SendInv'
  OBVIOUS
<1> DEFINE n == Len(buf) + 1
<1>1. /\ bit \in Bits /\ data \in Data /\ timer \in Nat /\ now \in Nat /\ k = 10 /\ pc = "put"
      /\ ret = {} /\ c = 0 /\ buf \in Seq(0..255) /\ Len(buf) < Len(data) /\ Len(buf) \in Nat
      /\ data \in Seq(0..255) /\ Len(data) \in Nat
  BY SendFacts DEF SendInv, PutNext
<1>2. /\ UNCHANGED <<bit, data, timer, now, pc, c, ret, tx, since, frame>> /\ k' = 0
      /\ buf' = Append(buf, data[n])
  BY DEF PutNext, adapter, out
<1>3. data[n] \in 0..255
  <2>1. n \in 1..Len(data)
    BY <1>1
  <2> QED
    BY <1>1, <2>1, ByteOf
<1>4. buf' \in Seq(0..255) /\ Len(buf') = n /\ n # 0 /\ n <= Len(data)
  BY <1>1, <1>2, <1>3
<1>5. Written(n, 10)
  BY <1>1 DEF SendInv
<1>6. Written(Len(buf), 10)'
  <2> HIDE DEF n
  <2> QED
    BY <1>2, <1>4, <1>5 DEF Written, Told
<1> QED
  BY <1>1, <1>2, <1>4, <1>6 DEF SendInv

LEMMA PutAllKeeps == SendInv /\ PutAll => SendInv'
<1> SUFFICES ASSUME SendInv, PutAll PROVE SendInv'
  OBVIOUS
<1>1. /\ bit \in Bits /\ data \in Data /\ timer \in Nat /\ now \in Nat /\ k \in 0..10 /\ pc = "put"
      /\ ret = {} /\ c = 0 /\ buf \in Seq(0..255) /\ Len(buf) = Len(data)
  BY DEF SendInv, PutAll
<1>2. UNCHANGED <<bit, data, timer, now, k, c, buf, ret>> /\ pc' = "done" /\ frame' = Heard
  BY DEF PutAll, adapter, line
<1>3. k = 0
  <2>1. SUFFICES ASSUME k > 0 PROVE FALSE
    BY <1>1
  <2>2. Len(buf) + 1 \in 1..Len(data) /\ Len(data) \in Nat
    BY <1>1, <2>1, SendFacts DEF SendInv, Written
  <2> QED
    BY <1>1, <2>2
<1>4. frame'.bytes = Told(Len(data))
  BY <1>1, <1>2, <1>3, LineFree DEF Idle
<1>5. Told(Len(data))' = Told(Len(data))
  BY <1>2 DEF Told
<1> QED
  BY <1>1, <1>2, <1>4, <1>5 DEF SendInv

LEMMA SendStutters == SendInv /\ UNCHANGED vars => SendInv'
<1> SUFFICES ASSUME SendInv, UNCHANGED vars PROVE SendInv'
  OBVIOUS
<1>1. UNCHANGED <<bit, data, timer, now, pc, k, c, buf, ret, tx, since, frame>>
  BY DEF vars, adapter, line, out
<1>2. (SetLow => SetLow') /\ (SetHigh => SetHigh')
  BY <1>1 DEF SetLow, SetHigh
<1>3. Told(Len(data))' = Told(Len(data))
  BY <1>1 DEF Told
<1>4. /\ Written(Len(buf), 10) => Written(Len(buf), 10)'
      /\ Written(Len(buf) + 1, k) => Written(Len(buf) + 1, k)'
  BY <1>1 DEF Written, Told
<1> QED
  BY <1>1, <1>2, <1>3, <1>4 DEF SendInv

LEMMA SendStarts == Init => SInv
<1> SUFFICES ASSUME Init, way = "send_data" PROVE SendInv
  BY DEF SInv
<1>1. data \in Seq(0..255) /\ timer \in Nat
  BY InputAssumption, DelayAssumption DEF Init
<1> QED
  BY <1>1 DEF Init, SendInv

\* Whoever is in send_data never comes to the steps of readline.
LEMMA SendStep == SInv /\ [Next]_vars => SInv'
<1> SUFFICES ASSUME SInv, [Next]_vars, way' = "send_data"
             PROVE  SendInv'
  BY DEF SInv
<1>1. way = "send_data"
  BY DEF vars, Next, Poll, Latch, Got, SetOutput, WriteHigh, Put, PutNext, PutAll
<1>2. SendInv /\ pc \in {"init", "high", "put", "done"}
  BY <1>1 DEF SInv, SendInv
<1>3. CASE SetOutput
  BY <1>2, <1>3, SetOutputKeeps
<1>4. CASE WriteHigh
  BY <1>2, <1>4, WriteHighKeeps
<1>5. CASE Put
  BY <1>2, <1>5, PutKeeps
<1>6. CASE PutNext
  BY <1>2, <1>6, PutNextKeeps
<1>7. CASE PutAll
  BY <1>2, <1>7, PutAllKeeps
<1>8. CASE Poll \/ Latch \/ Got
  BY <1>2, <1>8 DEF Poll, Latch, Got
<1>9. CASE UNCHANGED vars
  BY <1>2, <1>9, SendStutters
<1> QED
  BY <1>3, <1>4, <1>5, <1>6, <1>7, <1>8, <1>9 DEF Next

LEMMA SendAlways == Spec => []SInv
<1>1. Init => SInv
  BY SendStarts
<1>2. SInv /\ [Next]_vars => SInv'
  BY SendStep
<1> QED
  BY <1>1, <1>2, PTL DEF Spec

\* What the adapter hears on TX are the bytes that were put, all of them and nothing
\* else, for every pair of clocks and every lag of delay_us that the margin allows.
THEOREM SendsRight == Spec => []SendsWhatIsPut
<1>1. SInv => SendsWhatIsPut
  BY DEF SInv, SendInv, SendsWhatIsPut, Told
<1> QED
  BY <1>1, SendAlways, PTL
-----------------------------------------------------------------------------
(* Types.                                                                  *)

LEMMA PartOfByte ==
  ASSUME NEW x \in 0..255, NEW i \in 0..8
  PROVE  x % 2^i \in 0..255
<1>1. CASE i = 0 BY <1>1
<1>2. CASE i = 1 BY <1>2
<1>3. CASE i = 2 BY <1>3
<1>4. CASE i = 3 BY <1>4
<1>5. CASE i = 4 BY <1>5
<1>6. CASE i = 5 BY <1>6
<1>7. CASE i = 6 BY <1>7
<1>8. CASE i = 7 BY <1>8
<1>9. CASE i = 8 BY <1>9
<1> QED
  BY <1>1, <1>2, <1>3, <1>4, <1>5, <1>6, <1>7, <1>8, <1>9

\* What neither invariant says.
Rest ==
  /\ way \in {"readline", "send_data"} /\ timer \in Boots /\ c \in 0..255
  /\ ret \subseteq -1..(Size - 1)

LEMMA RestStarts == Init => Rest
  BY DEF Init, Rest

LEMMA RestStep == Rest /\ Inv /\ Inv' /\ SInv /\ [Next]_vars => Rest'
<1> SUFFICES ASSUME Rest, Inv, Inv', SInv, [Next]_vars PROVE Rest'
  OBVIOUS
<1>1. UNCHANGED <<way, timer>>
  BY DEF vars, Next, Poll, Latch, Got, SetOutput, WriteHigh, Put, PutNext, PutAll
<1>2. CASE Poll
  BY <1>1, <1>2 DEF Rest, Poll, line
<1>3. pc = "latch" => way = "readline"
  BY DEF SInv, SendInv, Rest
<1>4. CASE Latch
  <2>1. pc' = "latch" /\ ret' = ret /\ way' = "readline"
    BY <1>1, <1>3, <1>4 DEF Latch, line
  <2>2. k' \in 0..8 /\ Latching' /\ Frames' /\ Right'
    BY <2>1 DEF Inv, ReadInv
  <2>3. data' \in Seq(0..255) /\ buf' \in Seq(0..255)
    BY <2>2, InputAssumption DEF Frames, Right
  <2>4. Len(buf') + 1 \in 1..Len(data') /\ c' = data'[Len(buf') + 1] % 2^k'
    BY <2>2, <2>3 DEF Latching
  <2>5. data'[Len(buf') + 1] \in 0..255
    BY <2>3, <2>4, ByteOf
  <2>6. c' \in 0..255
    BY <2>2, <2>4, <2>5, PartOfByte
  <2> QED
    BY <1>1, <2>1, <2>6 DEF Rest
<1>5. CASE Got
  <2>1. ReadInv /\ pc = "latch"
    BY <1>3, <1>5 DEF Inv, Got
  <2>2. Len(buf) \in Nat /\ Len(buf) < Size /\ Size \in Nat
    BY <2>1, InputAssumption DEF ReadInv, Right, Going
  <2>3. ret' = {} \/ ret' = {Len(buf)} \/ ret' = {-1}
    BY <1>5 DEF Got
  <2>4. ret' \subseteq -1..(Size - 1)
    BY <2>2, <2>3
  <2> QED
    BY <1>1, <1>5, <2>4 DEF Rest, Got
<1>6. CASE SetOutput \/ WriteHigh \/ Put \/ PutNext \/ PutAll
  BY <1>1, <1>6 DEF Rest, SetOutput, WriteHigh, Put, PutNext, PutAll, line
<1>7. CASE UNCHANGED vars
  BY <1>7 DEF Rest, vars, line
<1> QED
  BY <1>2, <1>4, <1>5, <1>6, <1>7 DEF Next

\* The clock, the bit counter, the byte being latched and what readline returns keep
\* their ranges: no byte beyond 255, no length outside the buffer.
THEOREM SwUartTypes == Spec => []TypeOK
<1>1. Rest /\ Inv /\ SInv => TypeOK
  <2> SUFFICES ASSUME Rest, Inv, SInv PROVE TypeOK
    OBVIOUS
  <2>1. CASE way = "readline"
    BY <2>1 DEF Rest, Inv, ReadInv, Right, TypeOK
  <2>2. CASE way = "send_data"
    BY <2>2 DEF Rest, SInv, SendInv, TypeOK
  <2> QED
    BY <2>1, <2>2 DEF Rest
<1>2. Init => Rest
  BY RestStarts
<1>3. Rest /\ Inv /\ Inv' /\ SInv /\ [Next]_vars => Rest'
  BY RestStep
<1> QED
  BY <1>1, <1>2, <1>3, InvAlways, SendAlways, PTL DEF Spec
=============================================================================
