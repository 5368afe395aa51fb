------------------------------ MODULE Helpers ------------------------------
(***************************************************************************)
(* The helper functions under both sides, which a program calls again and   *)
(* again.  A behaviour is a program that uses one part of them: those with  *)
(* a state of their own (heap, pins, line buffer) through sequences of      *)
(* calls, the others through one call at a time, with what it was given     *)
(* and what came of it.                                                    *)
(*                                                                         *)
(*   tty.c   set_tty_to_8n1: the read timeout                              *)
(***************************************************************************)
EXTENDS Kmalloc, Gpio, ShellSupport, Printk, LibC, Pwm, Crc32

CONSTANTS
  ROBUST_ITER,   \* copies of a byte
  Exit,          \* what ends my-install's echo and echo_until
  Texts,         \* texts that the Pi prints
  Lengths,       \* bound: the pulse lengths tried
  Widths,        \* field widths
  Formats,       \* formats for snprintk, with their arguments
  Buffers,       \* sizes of its buffer, as a size_t
  Memory,        \* a memory for memcpy
  Lines, Names, Stale,  \* strings compared, names looked for, what lies behind a \0
  Messages, Bursts      \* byte sequences, and what the line does to some bytes of one

ASSUME HelpersAssumption ==
  Lengths \subseteq Nat /\ Widths \subseteq 0..31 /\ Buffers \subseteq 0..(WordMod - 1)
ASSUME FormatAssumption ==
  \A fmt \in Formats : fmt \in Seq(Range(fmt)) /\ \A item \in Range(fmt) : Printable(item)
\* The exit string is a line or the end of one.  A text has no 0, which would hide the
\* rest of a piece from my-install.
ASSUME WatchAssumption ==
  /\ Exit \in Seq(Range(Exit)) /\ Exit # <<>> /\ NUL \notin Range(Exit)
  /\ \A i \in 1..(Len(Exit) - 1) : Exit[i] # LF
  /\ \A text \in Texts : text \in Seq(Range(text)) /\ NUL \notin Range(text)
\* From nine copies on, the product that the tty keeps in 8 bits is too small.
ASSUME CopiesAssumption == ROBUST_ITER \in 1..8
\* Addresses that count, and characters none of which is the 0 at the end of a string.
ASSUME MemoryAssumption ==
  /\ IsFiniteSet(DOMAIN Memory) /\ Memory \in [0..(Cardinality(DOMAIN Memory) - 1) -> Int]
ASSUME StringAssumption ==
  Lines \cup Names \subseteq Seq(Int \ {0}) /\ Stale \subseteq Seq(Int)
ASSUME BurstAssumption ==
  Messages \cup Bursts \subseteq Seq(SUBSET (0..7)) /\ \A burst \in Bursts : Len(burst) <= 4

VARIABLES
  part,   \* what the program uses
  phase,  \* whether `call` is one
  call    \* the last call of a function without a state

calls == <<phase, call>>
vars == <<part, calls, heapVars, gpioVars, lineVars>>

Log == INSTANCE TraceLog WITH Data <- <<>>, Block <- 64

Stateful == {"heap", "pins", "shell"}
Stateless == {"number", "snprintk", "pwm", "crc", "memcpy", "strncmp", "watch", "tty"}

Init ==
  /\ part \in Stateful \cup Stateless
  /\ phase = "ready" /\ call = [part |-> part]
  /\ HeapInit /\ GpioInit /\ LineInit

\* (int)timeout * 200 * ROBUST_ITER, as a cc_t; the cast is of the timeout alone, here in
\* tenths of a second, which the tty counts as well.
VTime(tenths, copies) == ((tenths \div 10) * 200 * copies) % 256

NumberCall ==
  \E conv \in {"d", "u", "x", "b"}, width \in Widths, val \in Ints :
    call' = [conv |-> conv, width |-> width, val |-> val, out |-> Shown(Conv(conv, width, val))]

SnprintkCall == \E n \in Buffers, fmt \in Formats : call' = [n |-> n, fmt |-> fmt, out |-> Snprintk(n, fmt)]

PwmCall == \E n \in Lengths : \E on \in 0..n : call' = [on |-> on, n |-> n, choices |-> PwmCompute(on, n)]

\* A message, and the same with some of its bytes changed on the line.
CrcCall ==
  \E msg \in Messages, burst \in Bursts : \E at \in 0..(Len(msg) - Len(burst)) :
    LET flawed == [i \in 1..Len(msg) |->
                     IF i - at \in 1..Len(burst) THEN Xor(msg[i], burst[i - at]) ELSE msg[i]]
    IN call' = [sent |-> msg, read |-> flawed, ck |-> Crc(msg), new |-> Crc(flawed)]

MemcpyCall ==
  \E dst, src \in DOMAIN Memory : \E n \in 0..Cardinality(DOMAIN Memory) :
    /\ {dst + n - 1, src + n - 1} \subseteq DOMAIN Memory
    /\ call' = [dst |-> dst, src |-> src, n |-> n, mem |-> Memcpy(Memory, dst, src, n)]

StrncmpCall ==
  \E line \in Lines, name \in Names, behind \in Stale :
    call' = [line |-> line, name |-> name,
             res |-> Strncmp(line \o <<0>> \o behind, name \o <<0>>, Len(name))]

\* Where echo of my-install, whose reads of the text end at `ends`, sees the exit
\* string, or 0: `from` is what it has read so far.
SeenBy(text, ends) ==
  LET at[e \in 0..Len(text)] ==
        IF e = 0 THEN [m |-> Log!Match0(0), from |-> 0]
        ELSE LET before == at[e - 1] IN
             IF e \notin ends \/ before.m.seen THEN before
             ELSE [m |-> Log!Done(before.m.pos, SubSeq(text, before.from + 1, e)), from |-> e]
  IN FirstOr({e \in ends : at[e].m.seen}, 0)
WatchCall ==
  \E text \in Texts : \E cuts \in SUBSET (1..(Len(text) - 1)) :
    LET ends == cuts \cup {Len(text)} IN
    call' = [text |-> text, ends |-> ends, piece |-> SeenBy(text, ends), until |-> EchoUntil(Exit, text)]

\* main of my-install asks for one second; the comment on set_tty_to_8n1 allows for less.
TtyCall ==
  \E copies \in {1, ROBUST_ITER}, tenths \in 1..10 :
    call' = [tenths |-> tenths, vtime |-> VTime(tenths, copies)]

Call ==
  /\ phase = "ready" /\ phase' = "called"
  /\ \/ part = "number" /\ NumberCall
     \/ part = "snprintk" /\ SnprintkCall
     \/ part = "pwm" /\ PwmCall
     \/ part = "crc" /\ CrcCall
     \/ part = "memcpy" /\ MemcpyCall
     \/ part = "strncmp" /\ StrncmpCall
     \/ part = "watch" /\ WatchCall
     \/ part = "tty" /\ TtyCall
  /\ UNCHANGED <<part, heapVars, gpioVars, lineVars>>

Return ==
  /\ phase = "called" /\ phase' = "ready" /\ call' = [part |-> part]
  /\ UNCHANGED <<part, heapVars, gpioVars, lineVars>>

UseHeap == part = "heap" /\ HeapNext /\ UNCHANGED <<part, calls, gpioVars, lineVars>>
UsePins == part = "pins" /\ GpioNext /\ UNCHANGED <<part, calls, heapVars, lineVars>>
UseShell == part = "shell" /\ LineNext /\ UNCHANGED <<part, calls, heapVars, gpioVars>>

Next == Call \/ Return \/ UseHeap \/ UsePins \/ UseShell
Spec == Init /\ [][Next]_vars
-----------------------------------------------------------------------------
(* Properties.  BlocksApart, BlocksKeep and PinsApart are stated with the   *)
(* modules they are about.                                                 *)

Called(p) == part = p /\ phase = "called"

\* All of printk's numbers, the least int and padded ones too, are read back as
\* the number they were made from.  snprintk keeps the beginning of the whole text,
\* wherever a conversion is cut, and nothing if the size is none, or too large for an
\* int.  What it returns counts the bytes it has written, with the \0: no more than the
\* buffer has, but for a size of 0, where the \0 goes behind it; it is not the length of
\* the whole text, which cs140e-printf.c:4-9 says, so that a caller cannot tell from it
\* that something was cut off.
PrintkShows ==
  /\ Called("number") =>
    Reads(call.out, CASE call.conv \in {"d", "u"} -> 10 [] call.conv = "x" -> 16 [] call.conv = "b" -> 2,
          call.width, IF call.conv = "d" THEN call.val ELSE call.val % WordMod)
  /\ Called("snprintk") =>
    LET whole == FlattenSeq([i \in 1..Len(call.fmt) |-> Shown(call.fmt[i])]) IN
    /\ call.out.text = SubSeq(whole, 1, Min({Len(whole), AsInt(call.n) - 1}))
    /\ call.out.ret = Min({Len(whole) + 1, Max({AsInt(call.n), 1})})

\* Bytes that are changed next to each other, up to four of them, change crc32:
\* what the boot protocol takes it for.
BurstsShow == Called("crc") /\ call.sent # call.read => call.ck # call.new

\* What the callers of the other functions take them for.  pwm_compute fills its
\* array to the end and not beyond, with `on` ones, and every beginning of it is
\* within one pulse of its share.  memcpy copies n bytes and touches no other, by
\* words or by bytes, also downwards over itself.  strncmp with the length of a name
\* finds the lines that begin with it, whatever an earlier line left behind their
\* end.  The read timeout is no shorter than the second my-install asks for, in both
\* builds, although it is kept in 8 bits; one of less than a second, which tty.c:17 calls
\* ok, is none: with VMIN 0 a read returns at once.
FunctionsCompute ==
  /\ Called("pwm") =>
       /\ Len(call.choices) = call.n /\ Ones(call.choices, call.n) = call.on
       /\ \A i \in 1..call.n :
            LET apart == call.n * Ones(call.choices, i) - call.on * i IN -call.n < apart /\ apart < call.n
  /\ Called("memcpy") /\ (call.dst <= call.src \/ call.src + call.n <= call.dst) =>
       call.mem = Move(Memory, call.dst, call.src, call.n)
  /\ Called("strncmp") => (call.res = 0) = IsPrefix(call.name, call.line)
  /\ Called("tty") => IF call.tenths = 10 THEN call.tenths <= call.vtime ELSE call.vtime = 0

\* echo_until returns at the exit string and not before, and never misses one that
\* is a line of its own; and however reads cut the text, my-install stops in the
\* piece in which echo_until, which reads one character at a time, stops.
ExitWatched ==
  Called("watch") =>
    IF call.until > 0
    THEN /\ Len(Exit) <= call.until /\ SubSeq(call.text, call.until - Len(Exit) + 1, call.until) = Exit
         /\ call.piece \in call.ends /\ call.until <= call.piece
         /\ \A e \in call.ends : e < call.piece => e < call.until
    ELSE /\ call.piece = 0
         /\ \A i \in 0..(Len(call.text) - Len(Exit)) :
              i = 0 \/ call.text[i] = LF => SubSeq(call.text, i + 1, i + Len(Exit)) # Exit

\* Where the words of a line begin, and the word that begins at i: what stands
\* between blanks.
Begins(line) == {i \in 1..Len(line) : line[i] \notin Space /\ (i = 1 \/ line[i - 1] \in Space)}
End(line, i) == FirstOr({j \in i..Len(line) : line[j] \in Space}, Len(line) + 1)
Word(line, i) == SubSeq(line, i, End(line, i) - 1)

\* The shell runs the words of the line it read, and nothing of what an earlier and
\* longer line has left in the buffer, also where a line is longer than the buffer
\* or ends without a "\n"; only then does it lose a character.
ArgvIsTheLine ==
  spc = "run" =>
    LET line == SubSeq(got, 1, Len(got) - 1) IN
    /\ Range(argv) = Begins(line)
    /\ \A k \in 1..Len(argv) : /\ k > 1 => argv[k - 1] < argv[k]
                               /\ WordAt(argv[k]) = Word(line, argv[k])
=============================================================================
