----------------------------- MODULE BootUpsets -----------------------------
(***************************************************************************)
(* Why the boot protocol keeps its promise when sessions are interrupted,  *)
(* time out, meet a Pi in the middle of an earlier session, or lose the Pi *)
(* to a power cycle: an inductive invariant of BootProtocol for any number *)
(* of such upsets, as long as no word is garbled.                          *)
(*                                                                         *)
(* In a boot the Pi says one sequence of words, the echo of the header it  *)
(* stored and then ACKs.  my-install reads the echo and takes the words    *)
(* after it for ACKs of its blocks.  The invariant counts: the replies     *)
(* that can come before the checksum of the image has been looked at are   *)
(* no more than my-install waits for before it waits for the last one.     *)
(***************************************************************************)
EXTENDS BootLockStep, FiniteSets

\* What the argument asks of the programs: they are not empty, the checksum of
\* none is a control word, no two of one size have the same checksum; and of the
\* checksum: it tells single words apart, as crc32 does.
Telling ==
  /\ \A v, w \in Word : Crc(<<v>>, 4) = Crc(<<w>>, 4) => v = w
  /\ \A p \in Program : p # <<>> /\ Crc(p, Nbytes(p)) \notin {ACK, NAK}
  /\ \A p, q \in Program :
       Nbytes(p) = Nbytes(q) /\ Crc(p, Nbytes(p)) = Crc(q, Nbytes(q)) => p = q
  /\ SOH # ACK

\* The Pi has heard an image that is none of the programs offered and passes the
\* checksum all the same.
Collision == ppc = "verify" /\ checksum = Crc(image, n) /\ image \notin offered

\* Words my-install puts that are not of a program and no ACK or EOT.
HeaderWord == {SOH, NAK} \cup {Nbytes(p) : p \in Program} \cup {Crc(p, Nbytes(p)) : p \in Program}

UnixHeader == {"soh", "n", "ck", "wSoh", "wN", "wCk"}
UnixReplies == {"ack", "data", "wAck", "eot", "wDone"}
PiHeader == {"gSoh", "gN", "gCk"}
PiEcho == {"sSoh", "sN", "sCk", "gAck"}
PiBlocks == {"data", "sAck", "gEot", "verify", "settle", "running"}

\* The echo as the Pi says it, of the header it has stored.
Echo == <<soh, Crc(<<n>>, 4), checksum>>

\* How many words of its echo my-install has read, while it is at its header,
\* and how many replies it has still to read, the next echo word first.
WordsRead == CASE upc = "wN" -> 1 [] upc = "wCk" -> 2 [] OTHER -> 0
ToThird == 3 - WordsRead

\* Nobody says anything any more: my-install waits for a Pi that has started
\* anew, with nothing on the line that it could hear.
Deadlocked == ppc \in {"delay", "gSoh"} /\ u2p = <<>> /\ upc \in UnixWaits /\ NoWordYet

\* ACKs that my-install will wait for before the last one, ...
DueFrom(k) == {i \in k..Len(prog) : DueAfter(i)}
Wanted == (IF upc = "wAck" THEN 1 ELSE 0) + Cardinality(DueFrom(put + 1))
\* ... and that a Pi with the same size says before it looks at the checksum.
StillDue ==
  (IF ppc = "sAck" THEN 1 ELSE 0) +
  (IF ppc \in {"gAck", "data", "sAck"} THEN Cardinality(DueFrom(Len(image) + 1)) ELSE 0)

\* Reading on, my-install meets a word other than an ACK too early.
Stuck == \E j \in 1..Len(p2u) : j <= Wanted + 1 /\ p2u[j] # ACK
-----------------------------------------------------------------------------
(* The parts of the invariant.                                             *)

\* Once it has accepted an image, the Pi hears nothing more in the session.
AcceptedOnce ==
  accepted # {} =>
    \/ ppc \in {"settle", "running", "down"}
    \/ ppc \in {"delay", "gSoh"} /\ u2p = <<>> /\ UnixQuiet

\* What the Pi has said of its echo is the end of what is on its way back.
EchoLast ==
  ppc \in PiEcho =>
    \A i \in 1..3 : i <= Len(p2u) /\ i <= EchoSaid => p2u[Len(p2u) + 1 - i] = Echo[EchoSaid + 1 - i]

\* A Pi at its header, and a my-install at its own, know header words only.
HeaderHears ==
  /\ ppc \in PiHeader \cup {"delay"} \/ upc \in UnixHeader => \A i \in 1..Len(u2p) : u2p[i] \in HeaderWord
  /\ checksum # ACK

\* The Pi has as many words as it has counted bytes.
ImageLength ==
  /\ ppc = "data" => 4 * Len(image) < n
  /\ ppc = "sAck" => 4 * Len(image) < n + 4
  /\ ppc \in {"gEot", "verify"} => n <= 4 * Len(image) /\ 4 * Len(image) < n + 4

\* send_binary's loop ends with the program.
AllPut == upc \in {"eot", "wDone"} => put = Len(prog)

\* While my-install reads the echo: the Pi may be at its echo, and what is
\* left of an earlier one is used up before the third word; or it is beyond, and
\* the third word will be none; or it has died, and what it leaves is no more than
\* the echo and one word, or goes on with a word that is no ACK.
FreshEcho ==
  /\ ppc \in PiHeader \cup PiEcho \cup {"delay"}
  /\ Len(p2u) <= (IF ppc \in PiEcho THEN EchoSaid ELSE 0) + StaleCap - WordsRead
  /\ ppc \in PiEcho /\ WordsRead >= 1 /\ Len(p2u) < EchoSaid
       => Echo[EchoSaid - Len(p2u)] = EchoWords[WordsRead]
NoEcho ==
  /\ ppc \in PiBlocks
  /\ \A i \in ToThird..Len(p2u) : p2u[i] \in {ACK, NAK, Junk}
LeftOver ==
  \/ Len(p2u) <= ToThird + 1
  \/ p2u[ToThird] \in {ACK, NAK, Junk}
  \/ p2u[ToThird + 1] # ACK
  \/ p2u[ToThird + 2] # ACK /\ Len(p2u) >= ToThird + 2
DeadEcho == ppc \in {"die", "down"} /\ LeftOver
Reading == upc \in UnixHeader => Deadlocked \/ FreshEcho \/ NoEcho \/ DeadEcho

\* An image accepted meanwhile is not of this session: the third word will be none
\* of an echo, whatever becomes of the Pi.
NotOurs ==
  upc \in UnixHeader /\ accepted # {} => \A i \in ToThird..Len(p2u) : p2u[i] \in {ACK, NAK, Junk}

\* While my-install sends its program: it will be stuck; or the Pi has accepted
\* the program; or the replies it can get are not more than it wants.
RestOfEcho ==
  /\ ppc \in {"sN", "sCk"}
  /\ Len(p2u) + (IF ppc = "sN" THEN 1 ELSE 0) <= Wanted
InSession ==
  /\ ppc \in {"gAck", "data", "sAck", "gEot", "verify"}
  /\ n = Size /\ checksum = Crc(prog, Size)
  /\ Len(p2u) + StillDue <= Wanted
DeadReplies == ppc \in {"die", "down", "delay", "gSoh"} /\ Len(p2u) <= Wanted
Replying ==
  upc \in UnixReplies =>
    /\ ppc \notin {"gN", "gCk", "sSoh"}
    /\ ppc \in {"delay", "gSoh"} => Deadlocked
    /\ \/ Stuck
       \/ accepted = {prog}
       \/ accepted = {} /\ (RestOfEcho \/ InSession \/ DeadReplies)

\* Whatever upsets a session, and whatever state the Pi is in when my-install is
\* run again, no reply passes for the last one that is not the last one.
UpsetInv ==
  /\ AcceptedOnce /\ EchoLast /\ HeaderHears /\ ImageLength /\ AllPut /\ ImageFresh
  /\ Reading /\ NotOurs /\ Replying

\* With a tty that has been drained, the size of an image the Pi stores is that
\* of a program: the Pi is past its header only for a my-install that has read
\* its own size back.
SizeChecked ==
  /\ upc \in UnixReplies /\ ppc \in PiEcho => n = Size
  /\ ppc \in PiEcho /\ (\E i \in 1..Len(u2p) : u2p[i] = ACK) => \E p \in Program : n = Nbytes(p)
  /\ ppc \in {"data", "sAck"} => \E p \in Program : n = Nbytes(p)
  /\ ppc \in PiEcho \cup {"data", "sAck"} => Fits(n)
=============================================================================
