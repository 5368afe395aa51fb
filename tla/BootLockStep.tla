---------------------------- MODULE BootLockStep ----------------------------
(***************************************************************************)
(* Why an undisturbed boot session keeps step: an inductive invariant of   *)
(* BootProtocol.                                                           *)
(*                                                                         *)
(* my-install puts a fixed sequence of words, the Pi hears a prefix of it, *)
(* and the line holds what is between the two.  The session goes through   *)
(* five phases; in each, the places of the two programs determine how much *)
(* has been put and heard, and what has been said back.                    *)
(***************************************************************************)
EXTENDS BootProtocol

Size == Nbytes(prog)
HeaderWords == <<SOH, Size, Crc(prog, Size)>>
EchoWords == <<SOH, Crc(<<Size>>, 4), Crc(prog, Size)>>

\* The i-th word my-install puts.
UnixWord(i) ==
  IF i <= 3 THEN HeaderWords[i]
  ELSE IF i = 4 THEN ACK
  ELSE IF i <= 4 + Len(prog) THEN prog[i - 4]
  ELSE EOT

\* How many words my-install has put, and the Pi has heard.
Sent ==
  CASE upc = "soh" -> 0
    [] upc = "n" -> 1
    [] upc = "ck" -> 2
    [] upc \in {"data", "wAck", "eot"} -> 4 + put
    [] upc = "wDone" -> 5 + Len(prog)
    [] OTHER -> 3
Heard ==
  CASE ppc = "gSoh" -> 0
    [] ppc = "gN" -> 1
    [] ppc = "gCk" -> 2
    [] ppc \in {"data", "sAck", "gEot"} -> 4 + Len(image)
    [] ppc = "verify" -> 5 + Len(prog)
    [] OTHER -> 3

\* How many words of the echo my-install has read, and the Pi has said.
EchoRead == CASE upc = "wSoh" -> 0 [] upc = "wN" -> 1 [] upc = "wCk" -> 2 [] OTHER -> 3
EchoSaid == CASE ppc = "sSoh" -> 0 [] ppc = "sN" -> 1 [] ppc = "sCk" -> 2 [] OTHER -> 3

\* The line to the Pi holds what has been put and not heard.
LineInStep ==
  /\ Len(u2p) = Sent - Heard
  /\ \A i \in 1..Len(u2p) : u2p[i] = UnixWord(Heard + i)

\* The header the Pi has stored is the one my-install puts.
HeaderHeard ==
  /\ ppc # "gSoh" => soh = SOH
  /\ ppc \notin {"gSoh", "gN"} => n = Size
  /\ ppc \notin {"gSoh", "gN", "gCk"} => checksum = Crc(prog, Size)

HeaderPhase ==
  /\ upc \in {"soh", "n", "ck", "wSoh"} /\ ppc \in {"gSoh", "gN", "gCk"}
  /\ p2u = <<>>

EchoPhase ==
  /\ upc \in {"wSoh", "wN", "wCk", "ack"} /\ ppc \in {"sSoh", "sN", "sCk", "gAck"}
  /\ Len(p2u) = EchoSaid - EchoRead
  /\ \A i \in 1..Len(p2u) : p2u[i] = EchoWords[EchoRead + i]

\* An ACK is due when k words of the program have been transferred.
DueAfter(k) == AckDue(Size - 4 * k)

\* While the program is sent, no ACK is due for a word the Pi has still to
\* hear, save the last one put; and then my-install waits for that ACK.
BlockPhase ==
  /\ upc \in {"data", "wAck", "eot", "wDone"} /\ ppc \in {"gAck", "data", "sAck", "gEot"}
  /\ Len(image) <= put
  /\ upc \in {"eot", "wDone"} => put = Len(prog)
  /\ ppc = "data" => Len(image) < Len(prog)
  /\ ppc = "gEot" => Len(image) = Len(prog)
  /\ ppc = "sAck" => upc = "wAck" /\ Len(image) = put /\ p2u = <<>>
  /\ \A k \in (Len(image) + 1)..(put - 1) : ~DueAfter(k)
  /\ IF upc = "wAck"
       THEN \/ p2u = <<>> /\ Len(image) < put /\ DueAfter(put)
            \/ p2u = <<>> /\ ppc = "sAck"
            \/ p2u = <<ACK>> /\ Len(image) = put /\ ppc \in {"data", "gEot"}
       ELSE p2u = <<>> /\ (Len(image) < put => ~DueAfter(put))

CheckPhase ==
  /\ upc = "wDone" /\ ppc = "verify"
  /\ p2u = <<>> /\ Len(image) = Len(prog)

DonePhase ==
  /\ u2p = <<>> /\ accepted = {prog}
  /\ \/ upc = "wDone" /\ p2u # <<>> /\ Head(p2u) = ACK /\ ppc \in {"settle", "running", "down"}
     \/ upc = "ok" /\ ppc \in {"settle", "running", "down", "delay", "gSoh"}

Session ==
  /\ HeaderPhase \/ EchoPhase \/ BlockPhase \/ CheckPhase
  /\ LineInStep /\ HeaderHeard
  /\ accepted = {} /\ Fits(Size)
  /\ \A i \in 1..Len(image) : image[i] = prog[i]

\* notmain has stored nothing before get_binary.
ImageFresh ==
  ppc \in {"down", "delay", "gSoh", "gN", "gCk", "sSoh", "sN", "sCk", "gAck"} => image = <<>>

\* An undisturbed session is in step: the line to the Pi, the header, the echo,
\* the image and the ACK under way are what the places of the two programs
\* say, and the ACK boundaries both sides compute by themselves never have the
\* Pi sending while a word comes in.
LockStep == ImageFresh /\ (clean => Session \/ DonePhase)
=============================================================================
