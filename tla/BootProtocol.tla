---------------------------- MODULE BootProtocol ----------------------------
(***************************************************************************)
(* The boot protocol: my-install on the unix side sends a program over the *)
(* tty to the bootloader on the Pi, which checks it and jumps to it.       *)
(*                                                                         *)
(*   unix-side/simple-boot.c   simple_boot, send_binary, expect            *)
(*   unix-side/my-install.c    main                                        *)
(*   pi-side/bootloader.c      notmain, get_binary, expect, die            *)
(*                                                                         *)
(* A message is one put_uint: a 32-bit word.  How a word becomes bytes and *)
(* each byte ROBUST_ITER frames is the subject of RobustUart; what that    *)
(* layer lets through (a wrong word) is the fault Garble here.             *)
(*                                                                         *)
(* Two facts about time are kept.  The Pi has no receive buffer: it only   *)
(* hears a word while it is inside get_uint, and a word that arrives while *)
(* it is sending, computing, waiting in delay_ms or rebooting is lost      *)
(* (Unheard).  And the 23 s read timeout of the tty is longer than any     *)
(* pause of a Pi that still has something to do, so a read times out only  *)
(* against a Pi that will stay silent.                                     *)
(***************************************************************************)
EXTENDS Integers, Sequences

CONSTANTS
  Program,      \* programs my-install may be asked to send: sequences of words
  SOH,          \* start of header, 0x12345678 in the code
  ARMBASE,      \* where the program is loaded (0x8000)
  ADDR_LIMIT,   \* start of the peripherals (0x20000000)
  WordMod,      \* number of values of an unsigned (2^32)
  AckBytes,     \* the Pi acknowledges when the bytes left are a multiple (256)
  Junk,         \* the text "DONE!!!" of clean_reboot, which is no word
  Crc(_, _),    \* crc32(words, number of bytes)
  Noise,        \* the values a garbled word may take
  MaxGarbled,   \* bound on garbled words, for model checking
  MaxUpsets,    \* bound on interrupts and power cycles, for model checking
  StaleCap      \* words of an earlier session a new one may find in the tty

\* simple-boot.h: enum { ..., ACK, NAK, EOT }.
ACK == 5
NAK == 6
EOT == 7

Word == 0..(WordMod - 1)
Nbytes(p) == 4 * Len(p)

ASSUME WordAssumption ==
  /\ WordMod \in Nat /\ WordMod > 7
  /\ SOH \in Word /\ Noise \subseteq Word /\ Junk \notin Word
ASSUME LayoutAssumption ==
  ARMBASE \in Nat /\ ADDR_LIMIT \in Nat /\ AckBytes \in Nat \ {0}
ASSUME ProgramAssumption ==
  \A p \in Program : p \in Seq(Word) /\ Nbytes(p) \in Word /\ Crc(p, Nbytes(p)) \in Word
ASSUME CrcAssumption == \A w \in Word : Crc(<<w>>, 4) \in Word
ASSUME BoundAssumption == MaxGarbled \in Nat /\ MaxUpsets \in Nat /\ StaleCap \in Nat

VARIABLES
  upc,         \* where my-install is in simple_boot
  prog, put,   \* its program, and how many words of it send_binary has put
  ppc,         \* where the Pi is in notmain
  soh, n, checksum,   \* notmain's variables of these names
  image,       \* the words get_binary has stored at ARMBASE
  u2p, p2u,    \* words on their way to the Pi, and to my-install
  offered,     \* programs my-install has been run with so far
  accepted,    \* images the Pi has acknowledged in the current session
  clean,       \* the session began at rest and nothing has disturbed it
  garbled, upsets     \* faults so far

unix == <<upc, prog, put>>
pi == <<ppc, soh, n, checksum, image>>
wires == <<u2p, p2u>>
history == <<offered, accepted, clean, garbled, upsets>>
vars == <<unix, pi, wires, history>>

UnixWaits == {"wSoh", "wN", "wCk", "wAck", "wDone"}
UnixBusy == {"soh", "n", "ck", "ack", "data", "eot"} \cup UnixWaits
UnixOver == {"idle", "ok", "failed"}
PiHears == {"gSoh", "gN", "gCk", "gAck", "data", "gEot"}
PiDeaf == {"down", "delay", "sSoh", "sN", "sCk", "sAck", "verify",
           "settle", "running", "die"}

TypeOK ==
  /\ upc \in UnixBusy \cup UnixOver
  /\ prog \in Program /\ put \in 0..Len(prog)
  /\ ppc \in PiHears \cup PiDeaf
  /\ soh \in Word /\ n \in Word /\ checksum \in Word /\ image \in Seq(Word)
  /\ u2p \in Seq(Word) /\ p2u \in Seq(Word \cup {Junk})
  /\ offered \subseteq Program /\ accepted \subseteq Seq(Word)
  /\ clean \in BOOLEAN /\ garbled \in 0..MaxGarbled /\ upsets \in 0..MaxUpsets

Init ==
  /\ upc = "idle" /\ prog \in Program /\ put = 0
  /\ ppc = "delay" /\ soh = 0 /\ n = 0 /\ checksum = 0 /\ image = <<>>
  /\ u2p = <<>> /\ p2u = <<>>
  /\ offered = {} /\ accepted = {} /\ clean = FALSE /\ garbled = 0 /\ upsets = 0

\* `if (ARMBASE + n >= ADDR_LIMIT)`, in unsigned arithmetic.
Fits(bytes) == (ARMBASE + bytes) % WordMod < ADDR_LIMIT

\* `(left & 0xff) == 0`: both sides count the bytes left to decide when the
\* Pi acknowledges.  A size that is no multiple of 4 takes left below zero.
AckDue(left) == left % AckBytes = 0
-----------------------------------------------------------------------------
(* my-install.                                                             *)

\* What a new run may find in the tty of what the Pi said before: nothing, or
\* its last few words, up to StaleCap.
StaleReplies ==
  {SubSeq(p2u, k, Len(p2u)) : k \in {i \in 1..(Len(p2u) + 1) : Len(p2u) + 1 - i <= StaleCap}}

\* main: open the tty, sleep(1), and go straight to simple_boot; the loop that
\* would drain the tty is compiled out.  What an earlier run still had on the
\* line has arrived, or been lost, by the end of the sleep.
Start(p) ==
  /\ upc \in UnixOver /\ u2p = <<>>
  /\ upc' = "soh" /\ prog' = p /\ put' = 0
  /\ p2u' \in StaleReplies
  /\ offered' = offered \cup {p} /\ accepted' = {}
  /\ clean' = (ppc = "gSoh" /\ p2u' = <<>> /\ Fits(Nbytes(p)))
  /\ UNCHANGED <<pi, u2p, garbled, upsets>>

\* put_uint(fd, w)
Put(w) == u2p' = Append(u2p, w)

PutNext(from, w, to) ==
  /\ upc = from /\ upc' = to
  /\ Put(w)
  /\ UNCHANGED <<prog, put, pi, p2u, history>>

\* A word takes 20 frames (4 bytes, ROBUST_ITER copies of each), and the text
\* of clean_reboot is 8: one or two of them do not make a word to read.  With
\* more behind them, what is read is no word that anybody put.
NoWordYet == p2u \in {<<>>, <<Junk>>, <<Junk, Junk>>}

\* Mutant of Expect: the word read is not compared.
ExpectAnything(from, v, to) ==
  /\ upc = from /\ ~NoWordYet
  /\ p2u' = Tail(p2u) /\ upc' = to
  /\ UNCHANGED <<prog, put, pi, u2p, history>>

\* expect(msg, fd, v): on any other word, send NAK and panic.
Expect(from, v, to) ==
  /\ upc = from /\ ~NoWordYet
  /\ p2u' = Tail(p2u)
  /\ IF Head(p2u) = v THEN upc' = to /\ UNCHANGED u2p
                      ELSE upc' = "failed" /\ Put(NAK)
  /\ UNCHANGED <<prog, put, pi, history>>

\* Mutant of MoreToPut: the loop ends one word early.
MoreToPutShort(sent) == IF sent + 1 < Len(prog) THEN "data" ELSE "eot"

\* The test of send_binary's loop.
MoreToPut(sent) == IF sent < Len(prog) THEN "data" ELSE "eot"

\* Mutants of SendBinary: buf advances by sizeof(unsigned) words; and the wait
\* for an ACK is missing.
SendBinaryStriding ==
  /\ upc = "data"
  /\ Put(prog[put + 1]) /\ put' = put + 4
  /\ upc' = IF AckDue(Nbytes(prog) - 4 * put') THEN "wAck" ELSE MoreToPut(put')
  /\ UNCHANGED <<prog, pi, p2u, history>>
SendBinaryUnacked ==
  /\ upc = "data"
  /\ Put(prog[put + 1]) /\ put' = put + 1 /\ upc' = MoreToPut(put')
  /\ UNCHANGED <<prog, pi, p2u, history>>

\* One turn of send_binary's loop, up to the wait for an ACK.
SendBinary ==
  /\ upc = "data"
  /\ Put(prog[put + 1]) /\ put' = put + 1
  /\ upc' = IF AckDue(Nbytes(prog) - 4 * put') THEN "wAck" ELSE MoreToPut(put')
  /\ UNCHANGED <<prog, pi, p2u, history>>

SimpleBoot ==
  \/ PutNext("soh", SOH, "n")
  \/ PutNext("n", Nbytes(prog), "ck")
  \/ PutNext("ck", Crc(prog, Nbytes(prog)), "wSoh")
  \/ Expect("wSoh", SOH, "wN")
  \/ Expect("wN", Crc(<<Nbytes(prog)>>, 4), "wCk")
  \/ Expect("wCk", Crc(prog, Nbytes(prog)), "ack")
  \/ PutNext("ack", ACK, MoreToPut(0))
  \/ SendBinary
  \/ Expect("wAck", ACK, MoreToPut(put))
  \/ PutNext("eot", EOT, "wDone")
  \/ Expect("wDone", ACK, "ok")

\* The Pi says nothing more unless it is spoken to: it waits with nothing on
\* its way, runs a program, or is switched off.
PiSilent == ppc \in {"running", "down"} \/ (ppc \in PiHears /\ u2p = <<>>)

\* Mutant of Timeout: try again, for ever, instead of giving up.
TimeoutStartsOver ==
  /\ upc \in UnixWaits /\ NoWordYet /\ PiSilent
  /\ upc' = "soh" /\ put' = 0
  /\ UNCHANGED <<prog, pi, wires, history>>

\* get_byte: the read timeout of the tty passes, read returns 0, panic.  No NAK
\* is sent.
Timeout ==
  /\ upc \in UnixWaits /\ NoWordYet /\ PiSilent
  /\ upc' = "failed"
  /\ UNCHANGED <<prog, put, pi, wires, history>>

\* The user interrupts my-install.
Interrupt ==
  /\ upc \in UnixBusy /\ upsets < MaxUpsets
  /\ upc' = "failed" /\ upsets' = upsets + 1 /\ clean' = FALSE
  /\ UNCHANGED <<prog, put, pi, wires, offered, accepted, garbled>>
-----------------------------------------------------------------------------
(* The bootloader.                                                         *)

\* get_uint() returned w.
Hear(w) == u2p # <<>> /\ w = Head(u2p) /\ u2p' = Tail(u2p)
\* put_uint(w)
Say(w) == p2u' = Append(p2u, w)

\* The header words are stored without a look at them: SOH is not compared.
HearSoh ==
  /\ ppc = "gSoh" /\ \E w \in Word : Hear(w) /\ soh' = w
  /\ ppc' = "gN"
  /\ UNCHANGED <<unix, p2u, n, checksum, image, history>>

HearSize ==
  /\ ppc = "gN" /\ \E w \in Word : Hear(w) /\ n' = w
  /\ ppc' = "gCk"
  /\ UNCHANGED <<unix, p2u, soh, checksum, image, history>>

HearChecksum ==
  /\ ppc = "gCk" /\ \E w \in Word : Hear(w) /\ checksum' = w
  /\ ppc' = IF Fits(n) THEN "sSoh" ELSE "die"
  /\ UNCHANGED <<unix, p2u, soh, n, image, history>>

SayNext(from, w, to) ==
  /\ ppc = from /\ ppc' = to
  /\ Say(w)
  /\ UNCHANGED <<unix, u2p, soh, n, checksum, image, history>>

\* Mutant of MoreToHear: the loop goes on while nloaded <= nbytes.
MoreToHearOneMore(loaded) == IF 4 * loaded <= n THEN "data" ELSE "gEot"

\* The test of get_binary's loop, nloaded < nbytes.
MoreToHear(loaded) == IF 4 * loaded < n THEN "data" ELSE "gEot"

\* Mutant of HearExpected: wait for the right word instead of dying.
HearExpectedPatiently(from, v, to) ==
  /\ ppc = from
  /\ \E w \in Word : Hear(w) /\ ppc' = IF w = v THEN to ELSE from
  /\ UNCHANGED <<unix, p2u, soh, n, checksum, image, history>>

\* expect(v): on any other word, die(NAK).
HearExpected(from, v, to) ==
  /\ ppc = from
  /\ \E w \in Word : Hear(w) /\ ppc' = IF w = v THEN to ELSE "die"
  /\ UNCHANGED <<unix, p2u, soh, n, checksum, image, history>>

\* One turn of get_binary's loop, up to the ACK.
GetBinary ==
  /\ ppc = "data"
  /\ \E w \in Word : Hear(w) /\ image' = Append(image, w)
  /\ ppc' = IF AckDue(n - 4 * Len(image')) THEN "sAck" ELSE MoreToHear(Len(image'))
  /\ UNCHANGED <<unix, p2u, soh, n, checksum, history>>

\* Mutant of Verify: the checksum is not looked at.
VerifyNothing ==
  /\ ppc = "verify" /\ Say(ACK) /\ ppc' = "settle"
  /\ accepted' = accepted \cup {image}
  /\ UNCHANGED <<unix, u2p, soh, n, checksum, image, offered, clean, garbled, upsets>>

\* The checksum of the image decides: ACK, then delay_ms(2000), or die.
Verify ==
  /\ ppc = "verify"
  /\ IF checksum = Crc(image, n)
       THEN /\ Say(ACK) /\ ppc' = "settle"
            /\ accepted' = accepted \cup {image}
       ELSE ppc' = "die" /\ UNCHANGED <<p2u, accepted>>
  /\ UNCHANGED <<unix, u2p, soh, n, checksum, image, offered, clean, garbled, upsets>>

NotMain ==
  \/ HearSoh \/ HearSize \/ HearChecksum
  \/ SayNext("sSoh", soh, "sN")
  \/ SayNext("sN", Crc(<<n>>, 4), "sCk")
  \/ SayNext("sCk", checksum, "gAck")
  \/ HearExpected("gAck", ACK, MoreToHear(0))
  \/ GetBinary
  \/ SayNext("sAck", ACK, MoreToHear(Len(image)))
  \/ HearExpected("gEot", EOT, "verify")
  \/ Verify

\* BRANCHTO(ARMBASE), two seconds after the ACK.
Branch ==
  /\ ppc = "settle" /\ ppc' = "running"
  /\ UNCHANGED <<unix, soh, n, checksum, image, wires, history>>

\* rpi_reboot: the full reset forgets notmain's variables.
Reset == ppc' = "down" /\ soh' = 0 /\ n' = 0 /\ checksum' = 0 /\ image' = <<>>

\* die(NAK): put_uint(NAK), then clean_reboot with its "DONE!!!".
Die ==
  /\ ppc = "die"
  /\ p2u' = p2u \o <<NAK, Junk>>
  /\ Reset
  /\ UNCHANGED <<unix, u2p, history>>

\* The program sent is done and calls clean_reboot itself.
ProgramEnds ==
  /\ ppc = "running"
  /\ Say(Junk)
  /\ Reset
  /\ UNCHANGED <<unix, u2p, history>>

\* The firmware takes seconds to bring the bootloader back, longer than a word
\* is on the line and than my-install takes to react to one.
UnixQuiet == upc \in UnixOver \/ (upc \in UnixWaits /\ NoWordYet)

Restart ==
  /\ ppc = "down" /\ u2p = <<>> /\ UnixQuiet
  /\ ppc' = "delay"
  /\ UNCHANGED <<unix, soh, n, checksum, image, wires, history>>

\* delay_ms(500) at the top of notmain is over.
Listen ==
  /\ ppc = "delay" /\ ppc' = "gSoh"
  /\ UNCHANGED <<unix, soh, n, checksum, image, wires, history>>

\* The user switches the Pi off and on.
PowerCycle ==
  /\ upsets < MaxUpsets /\ Reset
  /\ upsets' = upsets + 1 /\ clean' = FALSE
  /\ UNCHANGED <<unix, wires, offered, accepted, garbled>>
-----------------------------------------------------------------------------
(* The line.                                                               *)

\* A word reaches a Pi that is not in get_uint.
Unheard ==
  /\ ppc \in PiDeaf /\ u2p # <<>>
  /\ u2p' = Tail(u2p)
  /\ UNCHANGED <<unix, pi, p2u, history>>

\* The first word on its way turns into another one.
GarbleHead(wire) ==
  /\ wire # <<>> /\ Head(wire) # Junk
  /\ \E w \in Noise \ {Head(wire)} : wire' = [wire EXCEPT ![1] = w]

Garble ==
  /\ garbled < MaxGarbled
  /\ \/ GarbleHead(u2p) /\ UNCHANGED p2u
     \/ GarbleHead(p2u) /\ UNCHANGED u2p
  /\ garbled' = garbled + 1 /\ clean' = FALSE
  /\ UNCHANGED <<unix, pi, offered, accepted, upsets>>
-----------------------------------------------------------------------------
Bootloader == NotMain \/ Branch \/ Die \/ Restart \/ Listen
Upset == Interrupt \/ PowerCycle \/ Garble

Running ==
  \/ SimpleBoot \/ Timeout
  \/ Bootloader \/ ProgramEnds
  \/ Unheard \/ Upset

Next == Running \/ \E p \in Program : Start(p)

Spec == Init /\ [][Next]_vars

\* my-install runs until it exits and its reads time out; the bootloader runs
\* by itself; a word on the line arrives.  Nobody owes a new run of my-install,
\* the end of a program, an upset or a garbled word.
Fairness ==
  /\ WF_vars(SimpleBoot) /\ WF_vars(Timeout)
  /\ WF_vars(Bootloader) /\ WF_vars(Unheard)
FairSpec == Spec /\ Fairness

\* A patient user: runs my-install only when the bootloader is up, and runs it
\* again while it fails.
PiUp == ppc \notin {"down", "delay"}
PatientNext == Running \/ (PiUp /\ \E p \in Program : Start(p))
Retry == PiUp /\ upc \in {"idle", "failed"} /\ \E p \in Program : Start(p)
PatientSpec == Init /\ [][PatientNext]_vars /\ Fairness /\ WF_vars(Retry)
-----------------------------------------------------------------------------
(* Properties.                                                             *)

\* In an undisturbed session no word is on its way to a Pi that is not
\* listening: my-install only speaks when the Pi is in get_uint or about
\* to be, although nothing but the order of the messages makes it so.
NoTalkOver == clean /\ u2p # <<>> => ppc \in PiHears

\* In an undisturbed session the two sides never wait for each other: they
\* agree on when an ACK is due, whatever the size of the program.
NoMutualWait == clean => ~(upc \in UnixWaits /\ NoWordYet /\ PiSilent)

\* An undisturbed session does not fail on either side, and when my-install
\* is through, the Pi has accepted its program and nothing else.
CleanBoots ==
  clean => /\ upc # "failed" /\ ppc # "die"
           /\ upc = "ok" => accepted = {prog}

\* my-install reports success only when the Pi has accepted this very program
\* in this very session: neither a wrong word nor a reply meant for an earlier
\* run passes for the last ACK.
OkMeansAccepted == upc = "ok" => prog \in accepted

\* A size near 2^32 passes `ARMBASE + n >= ADDR_LIMIT`, because the sum wraps;
\* the echo of crc32(&n) stops it before a word of the program is stored.
SizeHolds == ppc = "data" => ARMBASE + n < ADDR_LIMIT

\* The protocol keeps what BootSpec promises, through every upset: the Pi accepts
\* at most one image per session and only one that my-install was run with, whole
\* and unchanged; success is reported after that and never without it; the Pi runs
\* nothing else.  Neither a garbled word nor words of two sessions mixed by an
\* interrupt, a time-out or a power cycle get past the checksum.
Promise == INSTANCE BootSpec WITH
  session  <- IF upc \in UnixBusy THEN "trying" ELSE upc,
  program  <- prog,
  loaded   <- IF ppc \in {"settle", "running"} THEN {image} ELSE {}
KeepsPromise == Promise!Spec

\* my-install never hangs: every run of it ends, with success or a panic.
SessionEnds == upc \in UnixBusy ~> upc \in UnixOver

\* However the two sides lost step, a patient user who runs my-install again
\* whenever it fails gets a program to the Pi: no state the bootloader can be
\* left in, with no timeout of its own, survives the words of new sessions.
RetryRuns == <>(ppc = "settle")

\* simple-boot.h:26 says of NAK: "Some kind of error, restart".  A Pi that has
\* been told NAK by a failing my-install restarts.
NakRestarts ==
  upc = "failed" /\ u2p # <<>> /\ Head(u2p) = NAK /\ ppc # "running"
    ~> ppc \in {"down", "delay"} \/ upc # "failed"
=============================================================================
