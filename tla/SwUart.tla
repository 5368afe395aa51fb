------------------------------- MODULE SwUart -------------------------------
(***************************************************************************)
(* The software UART of the Pi, bit by bit and in time: getc polls for a    *)
(* start bit and latches eight bits by waiting DELAY between them, putc     *)
(* drives the pin the same way.  Nothing but delay_us keeps it in step with *)
(* the USB adapter at the other end, whose bit is a little longer or        *)
(* shorter.                                                                *)
(*                                                                         *)
(*   sw-uart/sw-uart.c   sw_uart_init, _getc, _putc, _readline, _send_data *)
(*   cs140e-timer.c      timer_get_time, delay_us                          *)
(*                                                                         *)
(* Time is in microseconds and passes only in delay_us: each of its waits  *)
(* takes some microseconds more, which stand for the code around it.  The   *)
(* adapter is external: it sends frames of its own at given times, and      *)
(* looks at the middle of each bit of ours.                                *)
(***************************************************************************)
EXTENDS Integers, Sequences

CONSTANTS
  DELAY,      \* microseconds between two bits (104)
  TimerMod,   \* the microsecond counter wraps here (2^32)
  Boots,      \* values the counter may have at the start
  Overs,      \* microseconds a wait may take too long
  Bits,       \* microseconds a bit of the adapter may take
  Data,       \* sequences of bytes to send
  Gaps,       \* how long the adapter may wait before its first frame, and a later one
  Glitches,   \* how long TX may be low between its set-up and the first write
  Settles,    \* how long after that the Pi first sends
  Size        \* the sz of readline

ASSUME DelayAssumption ==
  /\ DELAY \in Nat \ {0} /\ TimerMod \in Nat /\ DELAY < TimerMod
  /\ Boots \subseteq Nat /\ Overs \subseteq Nat /\ Gaps \subseteq Nat
  /\ Glitches \subseteq Nat /\ Settles \subseteq Nat
ASSUME InputAssumption ==
  Bits \subseteq Nat \ {0} /\ Size \in Nat \ {0} /\ \A d \in Data : d \in Seq(0..255)

\* What the code relies on.  No wait is shorter than a bit of the adapter, and
\* none so long that half a bit of lag and nine waits reach the end of a bit.
ASSUME MarginAssumption ==
  \A bit \in Bits, over \in Overs :
    /\ bit <= DELAY + over
    /\ (DELAY \div 2) + over + 9 * (DELAY + over - bit) < bit

\* Setting up the pin takes less than half a bit, and half a bit after its beginning
\* nothing has been sent yet.
ASSUME SetUpAssumption ==
  \A bit \in Bits, glitch \in Glitches, settle \in Settles :
    glitch <= bit \div 2 /\ bit \div 2 < glitch + settle

VARIABLES
  way,      \* whether the Pi is in readline or in send_data
  bit,      \* the adapter's bit
  data,     \* the bytes the adapter sends, or the Pi
  starts,   \* when the adapter begins each of its frames
  timer,    \* the counter when now was 0
  now,      \* microseconds since then
  pc, k,    \* where the Pi is, and which bit it is at
  c, buf,   \* the byte being latched; the bytes readline has read, or send_data put
  ret,      \* what readline has returned
  tx, since, \* the level of TX, and when it was written last
  frame     \* the adapter's: when a start bit fell, the bits read as 1 since, the bytes

adapter == <<bit, data, starts>>
line == <<buf, ret>>
out == <<tx, since, frame>>
vars == <<way, adapter, timer, now, pc, k, c, line, out>>

BitOf(byte, i) == (byte \div 2^i) % 2

\* The bits of a frame: 0 is the start bit, 9 the stop bit.
FrameBit(byte, i) == IF i = 0 THEN 0 ELSE IF i = 9 THEN 1 ELSE BitOf(byte, i - 1)
Ones(byte) == {i \in 1..8 : BitOf(byte, i - 1) = 1}

\* The level on RX at time t.
InFrame(f, t) == starts[f] <= t /\ t < starts[f] + 10 * bit
Level(f, t) == FrameBit(data[f], (t - starts[f]) \div bit)
RX(t) == IF \E f \in DOMAIN starts : InFrame(f, t)
         THEN Level(CHOOSE f \in DOMAIN starts : InFrame(f, t), t)
         ELSE 1

Init ==
  /\ way \in {"readline", "send_data"} /\ bit \in Bits /\ data \in Data
  /\ starts \in IF way = "send_data" THEN {<<>>} ELSE
       {[f \in 1..Len(data) |-> 10 * bit * (f - 1) + (IF f < late THEN first ELSE first + then)] :
          first \in Gaps, late \in 2..Len(data), then \in Gaps}
  /\ timer \in Boots /\ now = 0
  /\ pc = IF way = "readline" THEN "poll" ELSE "init"
  /\ k = 0 /\ c = 0 /\ buf = <<>> /\ ret = {}
  /\ tx = 1 /\ since = 0 /\ frame = [fall |-> -1, ones |-> {}, bytes |-> <<>>]
-----------------------------------------------------------------------------
(* delay_us.                                                               *)

\* timer_get_time
Time(t) == (timer + t) % TimerMod

\* Mutant of Expired: the deadline is compared, not the difference.
ExpiredAtDeadline(t, us, d) == Time(t + d) >= (Time(t) + us) % TimerMod

\* (ra - rb) >= us, in unsigned arithmetic.
Expired(t, us, d) == (Time(t + d) - Time(t)) % TimerMod >= us

\* delay_us returns at the first reading of the counter that is late enough.
Wait(t, us) == CHOOSE d \in 0..(TimerMod - 1) :
                 Expired(t, us, d) /\ (d > 0 => ~Expired(t, us, d - 1))
Delay(us) == \E over \in Overs : now' = now + Wait(now, us) + over
-----------------------------------------------------------------------------
(* sw_uart_readline, and in it sw_uart_getc and sw_uart_getc_ll.           *)

\* Mutant of Poll: the line is looked at once a bit.
PollSlowly ==
  /\ pc = "poll" /\ Delay(DELAY)
  /\ pc' = IF RX(now) = 0 THEN "latch" ELSE "poll"
  /\ k' = 0 /\ c' = 0
  /\ UNCHANGED <<way, adapter, timer, line, out>>

\* The line is looked at every half bit; on a start bit, getc_ll waits for one.
Poll ==
  /\ pc = "poll"
  /\ \/ RX(now) = 1 /\ Delay(DELAY \div 2) /\ UNCHANGED pc
     \/ RX(now) = 0 /\ Delay(DELAY) /\ pc' = "latch"
  /\ k' = 0 /\ c' = 0
  /\ UNCHANGED <<way, adapter, timer, line, out>>

\* Mutant of Latch: the stop bit is latched as well.
LatchNine ==
  /\ pc = "latch" /\ k < 9
  /\ c' = c + RX(now) * 2^k /\ k' = k + 1 /\ Delay(DELAY)
  /\ UNCHANGED <<way, adapter, timer, pc, line, out>>

Latch ==
  /\ pc = "latch" /\ k < 8
  /\ c' = c + RX(now) * 2^k /\ k' = k + 1 /\ Delay(DELAY)
  /\ UNCHANGED <<way, adapter, timer, pc, line, out>>

\* getc returns without a wait for the stop bit.  readline keeps the byte, and
\* ends at a newline, over which it writes a \0, or when buf is full.
Got ==
  /\ pc = "latch" /\ k = 8 /\ k' = 0
  /\ buf' = Append(buf, c) /\ pc' = IF c = 10 \/ Len(buf') = Size THEN "done" ELSE "poll"
  /\ ret' = IF pc' = "poll" THEN {} ELSE IF c = 10 THEN {Len(buf)} ELSE {-1}
  /\ UNCHANGED <<way, adapter, timer, now, c, out>>
-----------------------------------------------------------------------------
(* sw_uart_init, then sw_uart_send_data and in it sw_uart_putc.            *)

\* External: what the adapter has made of TX by now.  It looks at the middle of the
\* start bit, of the eight bits and of the stop bit; a start or stop bit of the
\* wrong level is no frame.
Seen == {i \in 0..9 : LET t == frame.fall + i * bit + (bit \div 2) IN since <= t /\ t < now}
Idle(bytes) == [fall |-> -1, ones |-> {}, bytes |-> bytes]
Heard ==
  LET ones == IF tx = 1 THEN frame.ones \cup (Seen \cap 1..8) ELSE frame.ones
  IN IF frame.fall < 0 THEN frame
     ELSE IF (0 \in Seen /\ tx = 1) \/ (9 \in Seen /\ tx = 0) THEN Idle(frame.bytes)
     ELSE IF 9 \in Seen THEN Idle(Append(frame.bytes, ones))
     ELSE [fall |-> frame.fall, ones |-> ones, bytes |-> frame.bytes]

\* gpio_write of TX; a fall begins a frame unless the adapter is in one.
Drive(level) ==
  /\ tx' = level /\ since' = now
  /\ frame' = IF Heard.fall < 0 /\ tx = 1 /\ level = 0
                THEN [fall |-> now, ones |-> {}, bytes |-> Heard.bytes] ELSE Heard

\* TX becomes an output, which drives it low, before it is first written.
SetOutput ==
  /\ pc = "init" /\ pc' = "high" /\ Drive(0)
  /\ \E g \in Glitches : now' = now + g
  /\ UNCHANGED <<way, adapter, timer, k, c, line>>
WriteHigh ==
  /\ pc = "high" /\ pc' = "put" /\ Drive(1) /\ k' = 0
  /\ \E s \in Settles : now' = now + s
  /\ UNCHANGED <<way, adapter, timer, c, line>>

\* Mutant of Put: the stop bit is as short as the pin can make it.
PutNoStop ==
  /\ pc = "put" /\ Len(buf) < Len(data) /\ k < 10 /\ k' = k + 1
  /\ Drive(FrameBit(data[Len(buf) + 1], k))
  /\ (IF k = 9 THEN Delay(1) ELSE Delay(DELAY))
  /\ UNCHANGED <<way, adapter, timer, pc, c, line>>

\* putc_ll: start bit, eight bits from the lowest, stop bit, a wait after each.
Put ==
  /\ pc = "put" /\ Len(buf) < Len(data) /\ k < 10 /\ k' = k + 1
  /\ Drive(FrameBit(data[Len(buf) + 1], k))
  /\ Delay(DELAY)
  /\ UNCHANGED <<way, adapter, timer, pc, c, line>>

PutNext ==
  /\ pc = "put" /\ Len(buf) < Len(data) /\ k = 10 /\ k' = 0
  /\ buf' = Append(buf, data[Len(buf) + 1])
  /\ UNCHANGED <<way, adapter, timer, now, pc, c, ret, out>>

PutAll ==
  /\ pc = "put" /\ Len(buf) = Len(data) /\ pc' = "done" /\ frame' = Heard
  /\ UNCHANGED <<way, adapter, timer, now, k, c, line, tx, since>>
-----------------------------------------------------------------------------
Busy == pc # "poll" \/ \E f \in DOMAIN starts : now < starts[f] + 10 * bit
Next ==
  \/ (Busy /\ Poll) \/ Latch \/ Got
  \/ SetOutput \/ WriteHigh \/ Put \/ PutNext \/ PutAll
Spec == Init /\ [][Next]_vars
-----------------------------------------------------------------------------
(* Properties.                                                             *)

TypeOK ==
  /\ way \in {"readline", "send_data"} /\ timer \in Boots /\ now \in Nat
  /\ pc \in {"poll", "latch", "init", "high", "put", "done"}
  /\ k \in 0..10 /\ c \in 0..255 /\ Len(buf) <= Len(data)
  /\ ret \subseteq -1..(Size - 1)

\* readline reads the bytes that were sent, all of them and in their order: no bit
\* is latched before or after its time however the waits add up, no data bit is
\* taken for a start bit, none is missed while the stop bit passes, and the
\* counter may wrap in any wait.  It returns at the first newline, with the length
\* of the line, and -1 when the buffer is full before one.
ReadsWhatIsSent ==
  way = "readline" =>
    /\ Len(buf) <= Len(data) /\ \A i \in 1..Len(buf) : buf[i] = data[i]
    /\ \A n \in ret : IF n = -1 THEN Len(buf) = Size /\ \A i \in 1..Size : data[i] # 10
                      ELSE n + 1 = Len(buf) /\ data[n + 1] = 10 /\ \A i \in 1..n : data[i] # 10

\* The Pi keeps up with frames that follow each other without a gap.
KeepsUp ==
  way = "readline" /\ pc # "done" =>
    \A f \in DOMAIN starts : starts[f] + 10 * bit + DELAY <= now => Len(buf) >= f

\* The other end reads from TX what was put and nothing else, also when frames
\* follow each other at once, and the set-up of the pin is no byte.
SendsWhatIsPut ==
  way = "send_data" /\ pc = "done" => frame.bytes = [i \in 1..Len(data) |-> Ones(data[i])]
=============================================================================
