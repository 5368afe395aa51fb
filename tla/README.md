# Formal models of the Raspberry Pi / ESP8266 bridge

The repository lets a unix machine boot programs on a Raspberry Pi over a
bit-banged serial line, and drive an ESP8266 through the Pi from a shell. This
directory holds TLA+ specifications of it, TLC configurations that check them on
small instances, and proofs checked by TLAPS.

## 1. The system

```
 unix machine                           Raspberry Pi                   ESP8266
 my-install -> simple_boot  == tty ==>  bootloader (notmain)
 pi-shell  (esp, echo, ..)  == tty ==>  pi-shell   (notmain)  = UART =  Lua console
                              |             |                    |
                       kernel tty     software UART         mini UART
                       4096 bytes     no buffer             8 symbols
```

| component | state it keeps | operations | made correct by |
|---|---|---|---|
| robust byte layer (`send_byte_robust`, `get_byte_robust`, `sw_uart_*_robust`) | copies written; frames and votes of the current group; `byte` | write a copy, read a frame, vote | bytes read = bytes sent; a decided vote stays; no reader left in a half-full group |
| boot protocol, unix side (`simple-boot.c`, `my-install.c`) | place in `simple_boot`, words sent | header, echo check, blocks with ACK, EOT, final ACK | reports success only for an accepted program; ends always |
| boot protocol, Pi side (`bootloader.c`) | `soh`, `n`, `checksum`, `nloaded`, the image | header, echo, `get_binary`, checksum, jump, `die` | runs only whole, unchanged programs; keeps step with unix |
| software UART (`sw-uart.c`) | none between calls; sampling instants inside one | start bit, 8 samples, 8 writes | samples fall inside the sender's bits |
| crc32 (`simple-boot.h`) | none | table-driven checksum | depends on bytes and length |
| tty set-up (`tty.c`, `support.c`) | termios | speed, VTIME, find the device | time-out as documented |
| output echo (`my-install.c`, `echo.c`, `shell-support.c`) | position in the shutdown string | `done`, `fsm_chr_done` | sees the string exactly when it was printed |
| Pi shell, unix side (`shell-unix-side/pi-shell.c`) | `done` (control-C), the loop it is in | echo, reboot, esp, run, unix commands | every request answered; control-C reboots the Pi |
| Pi shell, Pi side (`shell-pi-side/pi-shell.c`) | the loop it is in, the line buffer | `readline`, echo, reboot, run, ESP loop | in the same loop as the unix side |
| ESP console (external) | its line, its prompt | echoes each byte, answers, prompts | the Pi has consumed every echo when the answer starts |
| shell program loader (`shell-pi-side/bootloader.c`) | address, size, image | `load_code` | matches `send_prog` |
| mini UART (`my-uart.c`) | 8-symbol FIFOs | `uart_getc`, `uart_getc_timeout`, `uart_putc` | nothing dropped |
| timers, GPIO, PWM, heap, printk (`sw-uart-libpi`) | counter, function select, heap pointer | delays, pin set-up, `int_line`, `kmalloc` | wraparound; neighbour pins untouched; on/off counts |
| trace and replay (`trace.c`, `replay/`) | log queue, corrupted operation | record, replay, corrupt a read | success only for a log whose every word is right, and always for an intact one |

The parts interact by bytes on three lines. None of the lines has flow control,
and the software UART has no buffer: what arrives while the Pi does anything
else is gone. This is what most of the hard behaviour comes from. On the unix
side each read has a time-out; on the Pi side no read of the boot protocol has
one.

**Hard behaviours.** Two programs that count bytes independently to know whose
turn it is; a voting reader with no marker for where a group of copies begins;
frames lost, damaged or invented; words of one session read in another after an
interrupt, a power cycle or a time-out; replies left in the tty; a reset that
takes seconds; the wrapping size check; and, in the shells, two nested command
loops that must be left together. `PROJECT.json` lists each hazard at its line
with the properties that would catch it going wrong.

## 2. Modules

| module | models |
|---|---|
| `RobustUart`, `MCRobustUart`, `RobustUart_proofs` | one direction of the robust byte channel |
| `SwUart`, `MCSwUart`, `SwUart_proofs` | the software UART in time, bit by bit |
| `BootProtocol`, `MCBootProtocol`, `BootProtocol_proofs` | `simple_boot` against the bootloader, word by word |
| `BootSpec` | what a boot promises |
| `BootLockStep` | the inductive invariant of an undisturbed boot session |
| `BootUpsets` | the inductive invariant of boot sessions that are interrupted, time out, or meet a Pi in the middle of another session |
| `PiShell`, `MCPiShell`, `PiShell_proofs` | the shell on the unix machine against the one on the Pi, text line by text line |
| `EspConsole`, `MCEspConsole`, `EspConsole_proofs` | the Pi's shell against the console of the ESP, byte by byte |
| `TraceLog` | the log of a boot, written and read back |
| `Replay`, `MCReplay`, `Replay_proofs` | the replay harness and my-install as two processes |
| `Kmalloc` | the heap |
| `Gpio`, `PinSpec` | the pins, by registers and by promise |
| `ShellSupport`, `Printk`, `Crc32`, `LibC`, `Pwm` | helper functions |
| `Helpers`, `MCHelpers`, `Helpers_proofs` | programs that use them |
| `Induction` | induction over numbers, and functions defined by recursion: lemmas of the proofs |

The layers are joined by what each takes from the one below. `SwUart` delivers
frames; `RobustUart` takes frames that may be wrong, lost or made up and delivers
bytes; `BootProtocol` takes words of such bytes, of which few are wrong;
`Replay` plays the other side of the same words. `PiShell` and `EspConsole` use
the frames directly, without the vote.

### RobustUart

State: `sent`/`copy` are the sender's place (byte, copy); `got`, `hash`, `byte`
are `i`, `hash[]` and `byte` of `get_byte_robust`; `out` is what the calls
returned. A frame is a byte value; the vote compares whole bytes, so the bits
are not modelled. One action is one frame on the line: `Deliver` (a turn of both
loops), `Damage`, `Lose`, `Invent`. `WriteCopy` and `ReadFrame` are the two loop
bodies; the call returns inside `ReadFrame` when the group is full.

`sw_uart_getc_robust` tests `byte != -1` first; `byte` is an `unsigned char`,
promoted to `int` it never equals -1, so the test is always true and is not in
the model. `simple-boot.c` leaves `byte` uninitialised; the reader's `byte`
then starts as any value (`Unset`), one that a TLC run makes all of `Byte`.

### BootProtocol

A message is one `put_uint`. State: `upc` is my-install's place in
`simple_boot`, `put` how far `send_binary` is; `ppc` is the place in `notmain`,
with `soh`, `n`, `checksum` of the same names and `image` for the memory at
`ARMBASE`; `u2p` and `p2u` are the words on the two lines. Each `put_uint` and
each `expect` is an action of its own, so all interleavings of the two programs
at word level are there. `Expect` contains its NAK and its panic, `HearExpected`
its `die`, `GetBinary` and `SendBinary` the store, the count and the ACK test of
one turn of their loops.

Two facts about time enter as guards:

* *The Pi is deaf outside `get_uint`.* In `PiDeaf` places a word on the line is
  lost (`Unheard`). Words reach a listening Pi in order.
* *The read time-out is longer than any pause.* `tty.c` stores 1\*200\*5 in an
  8-bit field: 232 tenths of a second. Sending a word takes 20 frames of about
  1 ms, `delay_ms(2000)` is after the last ACK, so `get_byte` times out only
  against a Pi that will stay silent (`PiSilent`).

`Restart` waits for the line and my-install to be quiet (`UnixQuiet`), because
the firmware takes seconds. The 8 bytes `DONE!!!\n` that `clean_reboot` prints
are not sent robustly: they are fewer than the 20 frames of a word, hence
`Junk`, and up to two of them in the tty do not make a word to read
(`NoWordYet`); before a real word they shift it, and the shifted word is wrong.

Words are atomic. In the code a word is 20 single frames (`simple-boot.c:34-38`,
`63-70`), and an interrupt, a reset or the end of a deaf phase (`bootloader.c:80`) may
fall between them, so that the Pi hears part of a word; `Interrupt`, `PowerCycle` and
`Unheard` act between words only. What a part of a word does to the words behind it
is the shift that `RobustUart` looks at, which lasts until the Pi is deaf again; here
it shows as at most the wrong words that `Garble` counts.

Faults: `Garble` is a wrong word that the robust layer let through, `Interrupt`
the user stopping my-install, `PowerCycle` the user resetting the Pi. `Start`
lets a new run find up to `StaleCap` of the last replies in the tty, since the
code that would drain them is compiled out.

`BootSpec` is what booting promises, without words and places: a session succeeds
or fails, the Pi accepts at most one image per session and only a program that
my-install has been run with, success is reported after that, and the Pi runs
what it accepted. `KeepsPromise` is the refinement: a session is a run of
my-install until `ok` or `failed`, and the image is loaded from the final ACK to
the reset.

### PiShell

A message is a text line: `cmd` is the command a line to the Pi begins with,
`crlf` how it ends, `from` the `printk` a line from the Pi comes from. `upc` is
the place in `shell` and `esp` with `done` of the same name, `ppc` the place in
`notmain`, `left` what the ESP has still to say. Each line typed is an action of
the user (`TypeCommand`, `TypeOther`, `TypeEsp`, `Eof`, `ControlC`), each return
of `pi_readline` one of the unix shell, each case of the loops of `notmain` one
of the Pi. `read_CRLF_line` goes on past a `\n` that has no `\r` before it: such
a line is held (`partial`) and what follows belongs to it. `asked` and `hosted`
record the last line sent and what has been run on the unix machine; nothing
depends on them but the properties.

`ControlC` may come anywhere. The signal handler is installed without
`SA_RESTART`, so a blocked `fgets` returns NULL and ends its loop, and a blocked
`read` returns -1 and `pi_readline` exits; a signal that finds no call blocked
sets the flag only. `run` ends at the ACK that `send_prog` waits for: `load_code`
puts it on the line to the ESP.

`Init` is the moment at which `my-install -exec` starts the shell: the Pi is in
its `delay_ms(2000)`. A line that reaches a Pi that does not listen is lost, or
its end is heard (`Unheard`); `Garble` damages a line, since text is not sent
robustly. `upsets` counts what plain text is no match for: a damaged line, a line
typed while the Pi is still in that delay, and a text that begins with `END`;
`calm` is the time up to the first of them. A line that begins with `END` ends
`esp()`'s reading whoever printed it, so after one the user is prompted while the
answer is still to come.

### EspConsole

What the ESP says comes in pieces (`of` and `row` say of what and which, `text` what
it is) of which it sends one byte after the other, `at` being the place of the
next; the Pi sees nothing of a byte but the character. `pc`, `cmd`, `i`, `line` are the place in the loop of the ESP and its
buffers, `stale` is `buf[0]`, which `esp_read_and_print_until_prompt` looks at
also when its read has timed out. `out` is what the ESP has to say, `fifo` the
receive FIFO of the mini UART. Both lines run at 9600 baud (`DELAY`,
`AUX_MU_BAUD_REG`): while the Pi prints a character (`Print1`) at most one byte
arrives, and nobody takes it; while it reads, it takes each byte before the next
(`Deliver`). Any read of an answer may time out. When the read of the rest of a line does
(`RestGaveUp`), the code prints a line of its own (`pi-shell.c:78`), during which
nothing takes bytes; the model goes on with END at once, as after such a read the
session is not calm and only `CommandDone` claims anything of it. `calm` records whether the
three things that spoil an answer have stayed away: a line end among what the ESP
sent after its reset, at which `esp_write_CRLF_line` stops looking for the end of
the echo; a line that, with its `\n`, takes longer to print than the FIFO lasts
(8 characters and more); a read that gave up. The session does not recover by
itself from any of them, and `EchoConsumed` and `AnswerShown` claim nothing
afterwards. `EchoConsumed` says that the echo is gone when the answer is read; that
nothing of the answer went with it is for `AnswerShown` to say.

`PiShell` takes of this only the answer as a sequence of lines; the ESP there
may print any.

### SwUart

One direction at a time (`way`), in microseconds. Time passes in `delay_us` only:
each wait ends at the first reading of the counter that is late enough (`Wait`,
on a counter that wraps at `TimerMod`) and takes some microseconds more
(`Overs`), which stand for the code around it. `Poll`, `Latch`, `Got` are
`sw_uart_getc`, the loop of `sw_uart_getc_ll` and the body of `readline`; `k` is
the bit, `c` the byte being latched. `SetOutput` and `WriteHigh` are
`sw_uart_init`; `Put`, `PutNext`, `PutAll` are `sw_uart_send_data`. The adapter
is external: it sends frames that begin at `starts`, its bit being `bit`
microseconds long, and of ours it looks at the middle of each bit (`Heard`).

Of what is put, the adapter samples the level at the middle of each bit: a frame is
where its start bit fell, the bits that were high (`FrameBit` is the level that our
side gives each bit) and the bytes made of the frames before it.

`MarginAssumption` is what the code relies on: no wait is shorter than a bit of
the adapter, and half a bit of lag with nine waits stays inside ten bits. At 9600
baud a bit is 104.17 microseconds and `DELAY` is 104: a wait that takes no time
at all beyond `DELAY` loses a sixth of a microsecond per bit against the adapter, so a
start bit that is found within some two microseconds of its edge could be misread;
the code around a wait takes longer than that. What does go wrong is the
business of `RobustUart`. Making TX an output drives it low for a moment
(`sw-uart.c:123`). `SetUpAssumption` says that this moment ends before the middle of
a start bit, so that the adapter takes it for a glitch, and that nothing is put until
that middle is over: a byte that followed at once would be read as part of a frame
that begins there.

### TraceLog, Replay

`TraceLog` is the log of a boot: `BootOps` and `EchoOps` are the calls that
`simple_boot` and `echo` trace, `Emit` what `trace.c` prints of them, `Readable`
and `ReadInput` what `parse-input.c` takes, and `Done` the watcher of the exit
string with the static position it keeps. A word is what it is for (`SOH`,
`crcn` for the checksum of the size, `crc`, `ACK`, a datum), a byte of the text a
member of `Chars`. A boot that is traced may go well (`Recorded`) or fail at any word
that my-install reads (`FailedBoot`): `get_uint` traces the word before `expect`
refuses it, so the log of a failed boot ends with the wrong word and a NAK.

`Replay` composes it into two processes over a socket. The harness is `replay()` and
its driver: `hpc` its place, `op` the operation, `round` and `corrupt` the loops of
`main` and `check_crashes`; the child (`cpc`, `pos`) is my-install, whose script is
`BootOps`. A write to a child that has exited fails, or kills the harness when
SIGPIPE is not ignored (`check_success`); closing a socket with unread data
resets the other end (`Resets`, as Linux does), and a read then fails once.
`is_eof` reads 0 bytes and so cannot tell data from the end (`HasData`).

*Corruption stays.* `corrupt32` writes into the nodes that all copies of the queue
share (`replay.c:198`), and nothing restores them. `replay-driver.c:48` wants one
operation corrupted at a time; as it is, the first run of `check_crashes` corrupts the
first word my-install reads, and every later run ends at that word, whatever else it
corrupts. The driver therefore never shows that a wrong checksum or ACK is noticed.
`CorruptOp` is that code. `SuccessIsEarned` asks the question another way: the logs
of failed boots have a wrong word at each place that my-install reads, one at a time,
and no child succeeds on one of them, nor on a corrupted one.

*Plain and robust builds.* The log has one copy of each word (`get_uint` traces what
it has voted), and `replay()` writes that. A child built with `IS_SW_UART 0` reads
one copy (`copies = 1`); the build of this repository (`simple-boot.h:4-5`:
`IS_SW_UART 1`, `ROBUST_ITER 5`) reads five of each byte, so a word of its is made of
the next five tokens of the log, words or, behind them, four times as many
characters of the text (`Takes`). It votes over bytes of different words, mostly
without a majority, and then returns an uninitialised byte: `Got` lets its word be any.
Such a child does not replay its own logs: either it has too few bytes for its next
word, and harness and child wait for each other for ever, or it makes of them a wrong
word and stops. By chance and with a text that is long enough it can succeed;
`SuccessIsEarned` says how much text that takes. `ReplaysTheSame` and `HarnessEnds` are therefore about a plain
child (`Matching`). The same mutual wait comes of a log without ACKs within the
program, as the `hello.trace.txt` of the repository, which a build of before they were
added has printed.

### Helpers, and the modules it composes

Functions that programs call in any order. A behaviour of `Helpers` is a program
that uses one part: those with a state through sequences of calls, the others
through one call at a time, all arguments of a bounded set being tried.

| module | state and actions | source |
|---|---|---|
| `Kmalloc` | `heap` is the pointer, `mem` the bytes, `live` (history) the blocks in use; one action per function, and the owner writing a block | `cs140e-kmalloc.c` |
| `Gpio`, `PinSpec` | the function and latch registers; one action per function. `PinSpec` has 32 pins and no registers; `PinsApart` is the refinement | `my-gpio.c` |
| `ShellSupport` | the line buffer of the shell, full of what earlier lines left: `fgets`, the strip, `tokenize`; and `EchoUntil` | `pi-shell.c`, `shell-support.c` |
| `Printk` | `VaPrintk`: the conversions, the padding, the limit of the buffer | `cs140e-printf.c` |
| `Crc32` | the table by its polynomial (bytes as sets of bits), and the function | `simple-boot.h` |
| `LibC` | `Memcpy` by words or bytes, `Strncmp`, which does not stop at a `\0` | `cs140e-stdlib.c` |
| `Pwm` | `PwmCompute`, `int_line` | `cs140e-pwm.c` |
| `Helpers` | `VTime` itself | `tty.c` |

`kmalloc` knows no end of the heap; `HeapTop` is a bound of the model. Nothing in
the repository calls `kmalloc`, `pwm_compute`, `snprintk` or `echo_until` yet.
`snprintk` returns what it has written, with the `\0`, and not, as the comment at
`cs140e-printf.c:4-9` has it of snprintf, the length of the whole text: a caller cannot
tell from it that something was cut off. Its size is a `size_t` that becomes an `int`
(`AsInt`). With a size of 0 the `\0` is written all the same, behind a buffer of no
bytes, and 1 is returned; a size too large for an `int` is negative then and keeps
nothing. `PrintkShows` says all of this. `tty.c:17` calls a time-out below a second
acceptable; as the cast is of the time-out alone, such a time-out becomes a `VTIME`
of 0, and with `VMIN` 0 a read returns at once. One second becomes 1000 mod 256 =
232 tenths. `FunctionsCompute` says both, for the one second that `main` asks for and
for every shorter one in tenths.

A watcher is given the text as it is read: `echo_until` character by character, the
`echo` of my-install in pieces that end where its reads end (`ends`); `SeenBy` runs
`done` over them with the position it keeps from one to the next. `tokenize` is
modelled by the turns of its loop (`TakeWord`): a turn may end behind the `\0` of the
line, where what an earlier line left is next, which is why the buffer begins with
something else in it. When a line has too many words `tokenize` panics, and the
shell is over.

## 3. What the runs check

Bounds are constants of the modules and named in each configuration.

| run | question | bounds |
|---|---|---|
| `robust_vote` | are the bytes read the bytes sent, under damage, loss and invention? `TypeOK`, `ReadsWhatWasSent`, `NoneLeftWaiting`, `VoteIsFinal`; with damage only, does a badly hit byte spoil its neighbours? `ErrorsStayLocal` | 4 bytes over 3 values, 5 copies, any initial `byte`; up to 6 damaged, 2 lost, 2 invented frames reach and pass half a group |
| `robust_minority` | is a minority of faults per byte harmless, as the repository's README says? No: counterexample | as above |
| `sw_uart` | does `readline` read what is sent, and keep up with it? `TypeOK`, `ReadsWhatIsSent`, `KeepsUp`; does the other end hear what is put, and no byte when the pin is set up? `SendsWhatIsPut` | `DELAY` of 104, bits of 103 to 105, waits 1 or 2 too long, an 8-bit counter; four texts of 2 or 3 bytes, gaps of 0, 17 and 40 |
| `boot_safety` | do the two sides keep step in an undisturbed session? `TypeOK`, `NoTalkOver`, `NoMutualWait`, `CleanBoots`; does a wrapped size get through? `SizeHolds`; does the protocol implement `BootSpec` through every upset? `KeepsPromise` | one-ACK, two-ACK and too big programs, any number of sessions; one wrong word, one upset, two stale words |
| `boot_retry` | does every run end, and does running it again recover from everything? `SessionEnds`, `RetryRuns` | one wrong word, one upset, fresh tty |
| `boot_nak` | does a NAK restart the Pi, as `simple-boot.h:26` says? No: counterexample | one wrong word |
| `boot_stale` | is the result right with undrained replies? `OkMeansAccepted` is not: counterexample | one upset, five stale words |
| `shells` | while calm, are the two shells in the same loop at every prompt, do answers belong to their commands, does control-C reboot the Pi? `TypeOK`, `SameLoop`, `OwnAnswer`, `NoHostReboot`, `ShellShutsDown`; and in any case, does every command end? `CommandEnds` | two texts and one that begins with `END`, two lines of an answer, one upset, control-C at any time |
| `shell_controlc` | does control-C reboot the Pi from any loop, as the message at `pi-shell.c:352` says? No: counterexample | two texts, calm |
| `esp_console` | is the echo consumed exactly, and the answer shown whole, while the session is calm? `TypeOK`, `EchoConsumed`, `AnswerShown`; does every command come to its END? `CommandDone` | FIFO of 3, three commands, four answers; up to 3 bytes of garbage, with and without line end; a new command only with at most 2 pieces still to come |
| `replay` | is a damaged log refused? `TypeOK`, `GapsRefused`; does a whole one replay to success each time? `ReplaysTheSame`; does my-install report success only for a log without a wrong word? `SuccessIsEarned`; does the harness end? `HarnessEnds` | one data word; texts of the exit string with a character before or behind it, and one of 23 characters; 1 round of each kind; logs of boots that went well or failed at any word; with a line missing, two swapped, one doubled, one cut; 1 and 2 copies of a word |
| `helpers` | do the helper functions keep what their callers rely on? `BlocksApart`, `BlocksKeep`, `PinsApart`, `ArgvIsTheLine`, `PrintkShows`, `FunctionsCompute`, `BurstsShow`, `ExitWatched` | 24 bytes of heap, 4 pin numbers, lines up to 6 characters with a buffer of 7 and a `maxargs` of 4, 8-bit ints, formats up to 3 pieces, bursts up to 4 bytes in messages of 6, pulses up to 12, texts up to 5 cut anywhere |

**Why the bounds are enough.** In `RobustUart` a fault shifts the reader by one
frame; four bytes of five copies let a shift begin in one byte, persist through
two more and show in the last; the fault bounds cover both sides of the
`FewFaults` limit. In `BootProtocol` the numbers are scaled with their relations kept:
an ACK every 8 bytes instead of 256, room for 7 words below `ADDR_LIMIT`, words
of 512 values. The programs are the cases of the ACK rule: only at
the end, and one after a short first block and one at the end. The sizes are
multiples of 4, as `read_file` rounds them up, except when a word is garbled.
The wire needs no bound: my-install stops at each reply. The empty program, which
needs no ACK, is covered for undisturbed sessions by the theorems.
In `PiShell` two texts tell an answer from an earlier one, and one line of
difference shifts all later ones; the lines need no bound, as the unix shell
waits for each command. In `EspConsole` the relation of a line's length to the
FIFO's matters, not 8: answers shorter and longer than it are there, with an
empty line, and a command that is itself a prompt. In `SwUart` drift adds up
within a byte and is reset by the next start bit; the gaps put that start bit at
different phases of the polling, and three bytes without a gap show whether a lag
survives from one to the next. In `Replay` a program of one word has the child read
every kind of word, the header's echo, the ACK of a block and the final one, and a
boot fails or a corruption strikes at each; a second round would begin where the first
one does, but for the words that stay corrupted; the long text is what a robust child
needs to find all its copies. Longer programs, more rounds and more copies are left to
the theorems. The helpers are tried below, at and above each of their limits: the word size of `memcpy`, the
buffer of `snprintk` and of the line, the register of ten pins, the sign.

**The violations.** `robust_minority`: one lost copy in each of several bytes is
a minority everywhere, yet the shift adds up until a group has a majority of the
next byte. `boot_nak`: the echoed SOH is garbled; unix sends NAK and exits while
the Pi is still sending the rest of the echo, deaf; the Pi then waits in
`expect(ACK)`. `boot_stale`: a run is interrupted mid-header; the Pi answers to
nobody; in the following session leftover words answer each `expect` until the
Pi's unchecked echo of its `soh`, an ACK word it took for SOH, is read as the
final ACK. It takes five leftover words; with the two of `boot_safety`
`KeepsPromise`, which contains the property, still holds. `shell_controlc`: the
Pi is in `read_CRLF_line`, where "reboot\n" is the beginning of a line; the shell
waits for the reply until its read times out.

The bounds of `boot_safety` are where its invariants end: `StaleCap` is 2 because
three stale replies can stand for the whole echo of the header, so that a garbled
size goes unnoticed (`SizeHolds`), and the empty program is not among its programs
because a session without blocks has so few words to check that two stale ones
are enough for a false success (`KeepsPromise`).

With stale replies every time my-install is started, `RetryRuns` fails too:
each failing session leaves replies that make the next one fail. `boot_retry`
is therefore about a tty that is fresh at each start.

**Fairness.** In `BootProtocol` `Fairness` is weak fairness of the steps
my-install takes by itself, of its read time-out, of the bootloader's own steps
(it is the only program on the Pi and never blocks except on a word), and of a
word on the line arriving. Nothing is assumed of the user, the program that was
booted, or the faults. `PatientSpec` adds a user who runs my-install only when
the Pi is up and again while it fails; that assumption is part of the question of
`boot_retry`.

For the shells weak fairness is of the unix shell's reads, its time-out, the
Pi's loop and the loss of a line nobody hears, and in `EspConsole` of the Pi's
steps and of the bytes the ESP has to send. The user owes nothing, and the ESP
need not be there: `EspResets` and `EspTakes` are not fair. That a read times out
needs no more than that the Pi stays silent for some twenty seconds.

In `Replay` harness and child are two processes of one machine; each runs when it
can.

`RobustUart`, `SwUart` and `Replay` stop when the message, the line or the
harness is at its end, `PiShell` when the unix shell exits, and the shell of
`Helpers` when it panics, so their runs switch the deadlock check off; the other
runs have it on.

## 4. What is proved

TLAPS checks every step; the theorems hold for every value of the constants that
satisfies the assumptions named in the modules. They are what the types need: the
number of copies is at most 127 (a count is a `char`), the initial `byte` and the
message are bytes; words are numbers below `WordMod`, the sizes and checksums of
programs are words, the text that `clean_reboot` prints is not one, and the ACK
interval is not 0. Of `PiShell` it is assumed that what begins with `END` is
text, and that the absent text is not; of `SwUart`, `MarginAssumption` and
`SetUpAssumption`; of `Kmalloc`, that the heap begins at a multiple of 8; of
`EspConsole`, that `\r`, `\n`, `>` and space are different where the code tells them
apart, and that a command is a line that is not empty; of `TraceLog` and `Replay`,
that texts and the exit string have no `\0`, that a word is not mistaken for another
(`ValueAssumption`), and that the lines of a trace are lines of one that was
recorded, in any number and order, whole or cut (`TraceAssumption`); of `Helpers`,
that an int has at most 32 bits and `num` room for them (`NumAssumption`), that a
format holds what the switch of `va_printk` handles, with the widths it asserts
(`FormatAssumption`), that addresses count from 0, that strings have no 0 in them, that the exit string is
a line or the end of one (`WatchAssumption`), that a burst is at most four bytes
long, and that a byte is sent at most eight times, beyond which the read timeout no
longer fits its 8 bits (`CopiesAssumption`).

| theorem | says |
|---|---|
| `RobustUart_proofs!TypeCorrect`, `TypeSafe` | `TypeInv`: `TypeOK`, and that a group holds no more votes than frames, so that two values never both have a majority and the counters fit a `char` |
| `RobustUart_proofs!VoteFinal` | `VoteIsFinal`: a value with a majority keeps the vote of its group |
| `RobustUart_proofs!RobustReads` | `ReadsWhatWasSent`: fewer faults than half a group, of any kind, anywhere in the message: the bytes read are the bytes sent |
| `RobustUart_proofs!RobustReadsAll` | `NoneLeftWaiting`: with no more frames lost than invented, the last byte is returned too |
| `SwUart_proofs!ReadsRight` | `ReadsWhatIsSent`, for every `DELAY`, bit of the adapter and lag of a wait within the margin, every set of gaps between frames and every start of a counter of any width |
| `SwUart_proofs!KeepsUpAlways` | `KeepsUp`, likewise |
| `BootProtocol_proofs!TypeSafe` | `TypeOK`, under every fault and interruption |
| `RobustUart_proofs!RobustLocal` | `ErrorsStayLocal`: on a line that only damages frames, a byte of which a minority of the copies is hit is read right, however its neighbours fare |
| `SwUart_proofs!SendsRight` | `SendsWhatIsPut`, for every `DELAY`, bit of the adapter and lag within the margin, every text and every wait after the set-up |
| `SwUart_proofs!SwUartTypes` | `TypeOK`, likewise |
| `BootProtocol_proofs!LockStepHolds` | `LockStep`: an undisturbed session is in step at every word |
| `BootProtocol_proofs!NeverTalkOver` | `NoTalkOver` |
| `BootProtocol_proofs!NeverMutualWait` | `NoMutualWait` |
| `BootProtocol_proofs!CleanAlwaysBoots` | `CleanBoots` |
| `BootProtocol_proofs!CleanKeepsPromise` | the refinement of `BootSpec`, step by step: every step of a clean session is one that `BootSpec` allows or a stutter, and so is, under every fault and interruption, every step but the two decisions `Accepting` and `Believing` |
| `BootProtocol_proofs!UpsetsKeepPromise` | `KeepsPromise`: the refinement of `BootSpec`, for any number of interrupts, time-outs, power cycles and new runs, with up to two stale replies at the start of each; no word garbled, no `Collision`, and `Telling` |
| `BootProtocol_proofs!SizeAlwaysHolds` | `SizeHolds`, likewise, for a tty without stale replies and programs whose size does not wrap |
| `BootProtocol_proofs!AcceptsOnce` | the Pi accepts at most one image in a session, under every fault and interruption |
| `EspConsole_proofs!EspTypes` | `TypeOK`, for every size of the FIFO, all commands and answers |
| `EspConsole_proofs!EspEchoConsumed` | `EchoConsumed`, likewise |
| `EspConsole_proofs!EspAnswerShown` | `AnswerShown`, likewise |
| `Replay_proofs!ReplayTypes` | `TypeOK`, for every program, text, trace, ACK interval and number of rounds and copies |
| `Replay_proofs!ReplayRefusesGaps` | `GapsRefused`, likewise |
| `Replay_proofs!SuccessAlwaysEarned` | `SuccessIsEarned`, likewise, for all values that a word can be corrupted to, or a boot can have failed with |
| `Replay_proofs!PlainReplayIsTheSame` | `ReplaysTheSame`: a child built without robust bytes replays the log of a boot to success in each of the first runs; for every program, text, ACK interval and number of rounds. It says nothing of a robust build, for which this is not so |
| `PiShell_proofs!TypeSafe` | `TypeOK`, with damaged lines and type-ahead |
| `PiShell_proofs!LoopsAgree` | `SameLoop` |
| `PiShell_proofs!AnswersMatch` | `OwnAnswer` |
| `PiShell_proofs!HostKeepsRunning` | `NoHostReboot` |
| `Helpers_proofs!HeapApart` | `BlocksApart`, for every set of sizes and every order of calls |
| `Helpers_proofs!HeapKeeps` | `BlocksKeep`, likewise |
| `Helpers_proofs!PinsAreApart` | `PinsApart`: the registers implement `PinSpec`, for all pin numbers and functions |
| `Helpers_proofs!HelpersKeepApart` | the three of them in programs that use the helpers in any order |
| `Helpers_proofs!HelpersCompute` | `FunctionsCompute`, for every pulse length, every memory, all strings, and up to eight copies of a byte; of the read time-out, one second and the tenths below it |
| `Helpers_proofs!PrintkAlwaysShows` | `PrintkShows`, for ints of up to 32 bits, every width below 32, formats of every length and every size that a `size_t` holds, 0 and those that do not fit an `int` among them |
| `Helpers_proofs!BurstsNoticed` | `BurstsShow`, for messages of every length and content |
| `Helpers_proofs!ShellRunsTheLine` | `ArgvIsTheLine`, for every size of the buffer, limit of words, and sequence of lines |
| `Helpers_proofs!ExitSeen` | `ExitWatched`, for every exit string that is a line, every text and every way in which reads cut it |

**The robust layer.** `ReadsWhatWasSent` is not inductive: it says nothing of the
group being read. The strengthening relates the votes cast so far to the sender's
place. The reader and the sender are apart by (lost - invented) frames, so of the
copies in the reader's group all but that many, and all but the damaged and
invented ones, are copies of the byte being read; with fewer faults than half a
group those are a majority, whatever the others say (`GroupInv`). For
`ErrorsStayLocal` the line only damages, so reader and sender are at the same copy of
the same byte; each copy of it so far was hit or is a vote for it, and a hit counts
for no other byte (`LocalInv`).

**The software UART.** `WaitIs` reduces `delay_us` on a wrapping counter to
adding a number. The invariant is about time: while polling, the stop bit of the
last byte has begun and the start bit of the next is not over (`Polling`); while
latching bit k, now is within bit k + 1 of the frame, and no later than
`Late(over, k + 1)` for the longest lag so far (`Latching`). One wait keeps it
because a wait is at least a bit long and the margin bounds the lag of nine; half
a bit of polling is what `Late` begins with. `Sampled` turns a time within a bit
into the level on the line, and `NextBit` the levels into the byte. The other way
round `SendInv` says how late each write of TX can be against the adapter's bits:
late by the lag of the waits so far and never early, and by less than half a bit; so
the level at the middle of each bit is the one that was written for it (`HeardIs`),
and the nine samples determine the byte (`OnesTell`).

**The boot protocol's types.** `TypeOK` is not inductive by itself: `send_binary`
may index past the program if `put` is not tied to the place in `simple_boot`.
`TypeInv` adds `PutInv`, which says so.

**The boot protocol's lockstep.** `NoTalkOver` and `NoMutualWait` are about
moments; why they never come needs the whole session. `BootLockStep` states it.
my-install puts a fixed sequence `UnixWord(1), UnixWord(2), ...`; `Sent` and
`Heard` read off how far the two programs are, and `LineInStep` says that the
line holds exactly the words between. A session is in one of five phases
(`HeaderPhase`, `EchoPhase`, `BlockPhase`, `CheckPhase`, `DonePhase`). The heart
is `BlockPhase`: each side computes from its own counter after which words an ACK
is due (`(nbytes & 0xff) == 0`, and `((nbytes - nloaded) & 0xff) == 0` on the Pi),
and the invariant says that none is due between the Pi's place and the last word
put, so that when the Pi does stop to put an ACK, my-install has put nothing more
and is reading. The proof has one lemma per phase and step of either program. It
uses of the numbers only that program sizes are multiples of 4 that fit; no
relation between the ACK interval, the layout and the checksum is assumed.

**The boot protocol against `BootSpec`.** `CleanKeepsPromise` goes through the steps
of both programs, the faults and the user. For a clean session lockstep says what is
accepted, and when an ACK is the final one. In any other session every step but two
is shown to be harmless without it: none but `Accepting` puts an image into the set
of accepted ones, none but `Believing` ends a session with success.

**Upsets.** For these two steps in a session that is not clean there is
`UpsetsKeepPromise`. A Pi may be anywhere in a boot when my-install starts again, and
its replies carry no session, so there is no lockstep to speak of: what makes a false
success impossible is that the replies are too few. `BootUpsets` counts them. From
the header to the verdict the Pi says the three words of the echo and an ACK for
each block; my-install reads three words, as many ACKs, and then one more. So as
long as what the Pi can still say before it verifies (`StillDue`), with what is on the
way (`p2u`), is no more than the ACKs my-install wants before the last (`Wanted`),
the last ACK is of a Pi that has verified (`InSession`), and the image is
the program, because its size and checksum are. The rest of the invariant says why
my-install never gets to its blocks in any other state but these: the Pi is still at
its echo, which has been read short with the help of stale replies, and goes on with a
word that is no ACK (`RestOfEcho`); it has died and what it said is not enough
(`DeadReplies`); or a word that is no ACK is in the way of the last one (`Stuck`).
While my-install reads the echo, it is either that of this header (`FreshEcho`); or
the Pi is past its own and the third word that comes will be none (`NoEcho`); or it
died, and what it leaves is short or goes on wrong (`LeftOver`). A Pi that starts
anew finds my-install waiting and says nothing before it is spoken to
(`Deadlocked`), and an image that an earlier run's words completed is not taken for
this session's (`NotOurs`). TLC has checked every part as an invariant, with two
upsets, before it was proved.

The hypotheses are what the argument needs. `Telling` is a condition on the
constants: the checksum tells two single words apart, as crc32 does (`BurstsShow`
proves it of a burst of four bytes); a program is not empty, and no two of one size
have the same checksum; no checksum of a program is ACK or NAK, nor is SOH ACK. With
a program whose checksum is 5, the end of an echo would pass for an ACK.
`Collision` is the moment at which an image that is none of the programs offered
passes the checksum: that it never comes is a property of the words that were mixed
and not of the protocol. `StaleCap <= 2` is where the counting ends: three stale replies
may be the whole echo, and `boot_stale` shows what five do. For `SizeHolds` a
stale reply may already stand for the echo of the size, so `SizeAlwaysHolds` asks for
none.

**The shells.** The properties hold up to the first upset. `SameLoop`
is about prompts only. `Conversation` follows each command from one prompt to the
next: for each place where the unix shell waits it names where the Pi can be and
what is on the two lines then (`LuaTalk`: the command on its way; or the Pi busy
with the ESP and only lines inside the answer on the line; or `END` last and the
Pi back at its loop). It is inductive together with `TypeOK`, for any number of
texts and of lines of an answer.

**The console of the ESP.** What is lost when the FIFO is full is not seen when it
happens, so the invariant (`Calm`) follows all that is on its way. Until the `\n` of
the command has been put, nothing under way has a line end (`Quiet`); after that none
has before the echo of this `\n`, and the whole answer follows it (`EchoAhead`); once
that echo is taken, FIFO and ESP hold the answer from exactly the place where the Pi
is in it (`From`). While a line is printed, the bytes in the FIFO and the characters
still to be printed fit the FIFO together; `LineSoFar` makes room for that already
while the line is read.

**Traces and their replay.** A trace is read back when each line has the number after
the one before (`Readable`), which together with the lines being lines of one
recording makes it a beginning of that recording (`FileInv`). `ReadInv` relates the
two processes. What the child has taken and what is in the socket are together the
bytes that the harness has written (`Sent`, `Taken`), so a child that has finished its
boot has had four bytes for each copy of each of its words, from the words of the log
or from the text. For a plain child the socket holds the words written but for those it
has taken (`Queue`), so the k-th word it takes is the k-th that the log has it read, and
it has found each of them to be what it expected (`Expected`); that no log, whole or of
a failed boot, has more words than it takes makes these all of the log's. `GoodInv` says
that nothing fails in the first runs of a plain child on the log of a boot: the harness is at the end of the log when it waits, and what the child has not read of
the text is in the socket.

**The heap.** `HeapInv` adds that the pointer stays aligned and that memory at or
above it belongs to no block, so that the next `kmalloc`, which clears what it
hands out, clears nothing that is in use.

**The pins.** Ten pins share a register, three bits each. The refinement mapping
takes the function of a pin to be its digit in base 8; the lemmas say that writing
one digit of a number leaves all others.

**The functions.** Each is a recursion over its input, and each proof finds the
invariant of the loop. The library's induction theorems take an operator and cannot
be used; `Induction` has induction over a set of numbers instead (`Least`, `Induct`,
`Along`, from the well-foundedness of `<`), and `Recursion` builds the function that
a recursive definition chooses.

* `pwm_compute`: in the loop of `int_line` the error is that of the line drawn so far
  (`Drawn`) and stays between 0 and the width, or above minus the height (`Wide`,
  `Tall`); this is the bound of one pulse for every beginning of the array.
* `memcpy`: after k units, the first k units are copied and everything else is as it
  was (`Copied`); copying downwards, what is still to be read has not been written.
* printk: 32 turns of the loop of `emit` leave nothing of a word, since eight turns
  divide it by 256 or more (`EightTurns`), so it ends, with no more than 32 digits and
  no idle 0; reading the first k digits of what is shown gives what is left of the
  number after all turns but k (`DigitsRead`). A text cut at the end of the buffer and
  continued is the continued text, cut (`CutJoin`), so `snprintk` keeps a beginning of
  the whole, wherever the buffer fills.
* crc32: the table is linear in the exclusive or, and its entries differ in their top
  byte, so two states that differ only in their lower r bytes, r < 4, differed before
  the last byte in what the bytes differ in and in one byte more (`ByteBack`). From
  equal checksums back to the beginning of a burst of four bytes nothing is left to
  differ.
* `tokenize`: the words found are those that begin before the place the loop has come
  to (`Frontier`), each of them ends before it, at a `\0`, and behind it the buffer is
  untouched (`Looped`); a turn goes on behind the `\0` of the line only at its very
  end, where the strip has left a second one.
* the watchers: as the exit string has a `\n` only at its end, every line begins with
  nothing matched, and a string found ends where the position gets to its end
  (`Watches`); `done`, piece by piece, passes through the same positions
  (`Looks`).

## 5. What is only model-checked

* Boot sessions with garbled words, apart from what `CleanKeepsPromise` and
  `AcceptsOnce` say of them: `SizeHolds`, and of `KeepsPromise` the steps `Accepting`
  and `Believing`. A garbled reply can be an ACK that nobody put, and the counting
  argument has no room for many of them; one garbled word together with an upset and
  two stale replies is what `boot_safety` explores in full. `SizeHolds` with one or two
  stale replies is checked there too.
* Liveness: `SessionEnds`, `RetryRuns`, `CommandEnds`, `ShellShutsDown`,
  `CommandDone`, `HarnessEnds`. Fairness and ENABLED are beyond TLAPS.

## 6. Not modelled

* `libpi.small`: an older copy of the library that nothing is built from.
* The interrupt code, which the repository itself says to ignore, the start-up
  assembly, Makefiles, generated listings, binaries and recorded traces.
* Options of `my-install`, finding and opening the tty, the hand-off of the file
  descriptor to `-exec`, the termios fields other than the time-out: calls of the
  system without a state of their own.
* `fork` and `exec` of the unix commands typed at the shell.
* What `load_code` does behind the point where it waits: its first read is
  answered by nobody (`bootloader.c:61`), which `PiShell` has.
* The floating-point conversions of printk (not compiled in), `memcmp`,
  `gpio-int.c` and `sw_uart_writeline`, which nothing calls.
* Lines longer than a buffer of the Pi's shell, at which it panics.

The watchers `done` and `fsm_chr_done` do not look again at a character that
breaks a match: a string whose match is broken by its own first character is
missed. `ExitWatched` therefore claims that it is found at the beginning of a
line, where programs print it.

Work that is left: the refinement of `BootSpec` in sessions with garbled words.
