------------------------ MODULE BootProtocol_proofs ------------------------
(***************************************************************************)
(* Theorems of BootProtocol, for every set of programs, checksum function, *)
(* layout and fault bound the assumptions of BootProtocol admit.           *)
(*                                                                         *)
(*   - the types of its variables                                          *)
(*   - LockStep, and with it the safety of undisturbed sessions, and their *)
(*     steps as steps of BootSpec                                          *)
(*   - UpsetInv, and with it the implementation of BootSpec by sessions    *)
(*     that any number of upsets disturb, and the size of an image         *)
(***************************************************************************)
EXTENDS BootUpsets, SequenceTheorems, FiniteSetTheorems, TLAPS

\* Before the first word of the program is put, put is 0; and send_binary's
\* loop is entered, or entered again, only with a word left to send.
PutInv ==
  /\ upc \in {"soh", "n", "ck", "wSoh", "wN", "wCk", "ack"} => put = 0
  /\ upc = "data" => put < Len(prog)

TypeInv == TypeOK /\ PutInv
-----------------------------------------------------------------------------
(* The operators the actions are built from.                               *)

\* The control words and the text of clean_reboot are words.
LEMMA ControlWords == ACK \in Word /\ NAK \in Word /\ EOT \in Word
  BY WordAssumption DEF ACK, NAK, EOT, Word

\* A stale tty holds words.
LEMMA StaleType == TypeOK => StaleReplies \subseteq Seq(Word \cup {Junk})
  <1> SUFFICES ASSUME TypeOK, NEW k \in 1..(Len(p2u) + 1)
               PROVE  SubSeq(p2u, k, Len(p2u)) \in Seq(Word \cup {Junk})
    BY DEF StaleReplies
  <1>1. p2u \in Seq(Word \cup {Junk}) /\ Len(p2u) \in Nat
    BY DEF TypeOK
  <1>2. \A i \in k..Len(p2u) : p2u[i] \in Word \cup {Junk}
    BY <1>1
  <1> QED BY <1>1, <1>2, SubSeqProperties

\* What is left of a wire when its first word has been taken.
LEMMA TailType ==
  ASSUME NEW W, NEW wire \in Seq(W), wire # <<>>
  PROVE  Head(wire) \in W /\ Tail(wire) \in Seq(W)
  OBVIOUS

\* The test of send_binary's loop leads to a word to send or to EOT.
LEMMA MoreToPutCases ==
  ASSUME NEW k
  PROVE  \/ MoreToPut(k) = "data" /\ k < Len(prog)
         \/ MoreToPut(k) = "eot"
  BY DEF MoreToPut

\* The test of get_binary's loop leads to one of its two waits.
LEMMA MoreToHearCases ==
  ASSUME NEW k
  PROVE  MoreToHear(k) \in {"data", "gEot"}
  BY DEF MoreToHear
-----------------------------------------------------------------------------
(* One lemma per group of actions.                                         *)

\* What a Put, a Say and a Hear leave of the wires.
LEMMA PutType ==
  ASSUME TypeOK, NEW w \in Word, Put(w)
  PROVE  u2p' \in Seq(Word)
  BY DEF TypeOK, Put

LEMMA SayType ==
  ASSUME TypeOK, NEW w \in Word \cup {Junk}, Say(w)
  PROVE  p2u' \in Seq(Word \cup {Junk})
  BY DEF TypeOK, Say

LEMMA HearType ==
  ASSUME TypeOK, NEW w, Hear(w)
  PROVE  w \in Word /\ u2p' \in Seq(Word)
  BY TailType DEF TypeOK, Hear

LEMMA StartType == ASSUME TypeInv, NEW p \in Program, Start(p) PROVE TypeInv'
  <1>1. p2u' \in Seq(Word \cup {Junk})
    BY StaleType DEF TypeInv, Start
  <1>2. Len(p) \in Nat
    BY ProgramAssumption
  <1>3. accepted' = {} /\ offered' \subseteq Program /\ clean' \in BOOLEAN
    BY DEF TypeInv, TypeOK, Start
  <1> QED BY <1>1, <1>2, <1>3 DEF TypeInv, TypeOK, PutInv, Start, UnixBusy, pi

LEMMA PutNextType ==
  ASSUME TypeInv, NEW from, NEW w \in Word, NEW to \in UnixBusy, PutNext(from, w, to),
         to \in {"n", "ck", "wSoh"} => from \in {"soh", "n", "ck"},
         to \in {"data", "eot", "wDone", "n", "ck", "wSoh"},
         to = "data" => put < Len(prog)
  PROVE  TypeInv'
  <1>1. u2p' \in Seq(Word)
    BY PutType DEF TypeInv, PutNext
  <1> QED BY <1>1 DEF TypeInv, TypeOK, PutInv, PutNext, pi, history

LEMMA ExpectType ==
  ASSUME TypeInv, NEW from, NEW v, NEW to \in UnixBusy \cup UnixOver, Expect(from, v, to),
         to \in {"wN", "wCk", "ack"} => from \in {"wSoh", "wN", "wCk"},
         to \in {"wN", "wCk", "ack", "data", "eot", "ok"},
         to = "data" => put < Len(prog)
  PROVE  TypeInv'
  <1>1. p2u # <<>>
    BY DEF Expect, NoWordYet
  <1>2. p2u' \in Seq(Word \cup {Junk})
    BY <1>1, TailType DEF TypeInv, TypeOK, Expect
  <1>3. u2p' \in Seq(Word)
    BY PutType, ControlWords DEF TypeInv, TypeOK, Expect
  <1>4. upc' \in {to, "failed"}
    BY DEF Expect
  <1> QED BY <1>2, <1>3, <1>4 DEF TypeInv, TypeOK, PutInv, Expect, UnixOver, pi, history

LEMMA SendBinaryType == ASSUME TypeInv, SendBinary PROVE TypeInv'
  <1>1. Len(prog) \in Nat /\ put \in Nat /\ put < Len(prog)
    BY ProgramAssumption DEF TypeInv, TypeOK, PutInv, SendBinary
  <1>2. prog[put + 1] \in Word
    BY <1>1, ProgramAssumption DEF TypeInv, TypeOK
  <1>3. u2p' \in Seq(Word)
    BY <1>2, PutType DEF TypeInv, SendBinary
  <1>4. put' \in 0..Len(prog)
    BY <1>1 DEF SendBinary
  <1>5. upc' \in {"wAck", "data", "eot"} /\ (upc' = "data" => put' < Len(prog))
    BY MoreToPutCases DEF SendBinary
  <1> QED BY <1>3, <1>4, <1>5 DEF TypeInv, TypeOK, PutInv, SendBinary, UnixBusy, UnixWaits, pi, history

LEMMA SimpleBootType == ASSUME TypeInv, SimpleBoot PROVE TypeInv'
  <1>1. Nbytes(prog) \in Word /\ Crc(prog, Nbytes(prog)) \in Word /\ SOH \in Word
    BY ProgramAssumption, WordAssumption DEF TypeInv, TypeOK
  <1>2. put = 0 /\ upc = "ack" => (MoreToPut(0) = "data" => put < Len(prog))
    BY MoreToPutCases
  <1>3. CASE PutNext("soh", SOH, "n") \/ PutNext("n", Nbytes(prog), "ck")
             \/ PutNext("ck", Crc(prog, Nbytes(prog)), "wSoh")
    BY <1>1, <1>3, PutNextType DEF UnixBusy, UnixWaits
  <1>4. CASE PutNext("ack", ACK, MoreToPut(0))
    <2>1. put = 0
      BY <1>4 DEF TypeInv, PutInv, PutNext
    <2> QED BY <2>1, <1>4, PutNextType, MoreToPutCases, ControlWords DEF UnixBusy
  <1>5. CASE PutNext("eot", EOT, "wDone")
    BY <1>5, PutNextType, ControlWords DEF UnixBusy, UnixWaits
  <1>6. CASE Expect("wSoh", SOH, "wN") \/ Expect("wN", Crc(<<Nbytes(prog)>>, 4), "wCk")
             \/ Expect("wCk", Crc(prog, Nbytes(prog)), "ack") \/ Expect("wDone", ACK, "ok")
    BY <1>6, ExpectType DEF UnixBusy, UnixWaits, UnixOver
  <1>7. CASE Expect("wAck", ACK, MoreToPut(put))
    BY <1>7, ExpectType, MoreToPutCases DEF UnixBusy
  <1>8. CASE SendBinary
    BY <1>8, SendBinaryType
  <1> QED BY <1>3, <1>4, <1>5, <1>6, <1>7, <1>8 DEF SimpleBoot

\* The header, stored as it comes.
LEMMA HearHeaderType ==
  ASSUME TypeInv, HearSoh \/ HearSize \/ HearChecksum
  PROVE  TypeInv'
  <1>1. CASE HearSoh
    <2>1. soh' \in Word /\ u2p' \in Seq(Word)
      BY <1>1, HearType DEF HearSoh, TypeInv
    <2> QED BY <1>1, <2>1 DEF TypeInv, TypeOK, PutInv, HearSoh, unix, history, PiHears
  <1>2. CASE HearSize
    <2>1. n' \in Word /\ u2p' \in Seq(Word)
      BY <1>2, HearType DEF HearSize, TypeInv
    <2> QED BY <1>2, <2>1 DEF TypeInv, TypeOK, PutInv, HearSize, unix, history, PiHears
  <1>3. CASE HearChecksum
    <2>1. checksum' \in Word /\ u2p' \in Seq(Word)
      BY <1>3, HearType DEF HearChecksum, TypeInv
    <2>2. ppc' \in {"sSoh", "die"}
      BY <1>3 DEF HearChecksum
    <2> QED BY <1>3, <2>1, <2>2 DEF TypeInv, TypeOK, PutInv, HearChecksum, unix, history, PiDeaf
  <1> QED BY <1>1, <1>2, <1>3

LEMMA SayNextType ==
  ASSUME TypeInv, NEW from, NEW w \in Word, NEW to \in PiHears \cup PiDeaf, SayNext(from, w, to)
  PROVE  TypeInv'
  <1>1. p2u' \in Seq(Word \cup {Junk})
    BY SayType DEF TypeInv, SayNext
  <1> QED BY <1>1 DEF TypeInv, TypeOK, PutInv, SayNext, unix, history

LEMMA HearExpectedType ==
  ASSUME TypeInv, NEW from, NEW v, NEW to \in PiHears \cup PiDeaf, HearExpected(from, v, to)
  PROVE  TypeInv'
  <1>1. u2p' \in Seq(Word) /\ ppc' \in {to, "die"}
    BY HearType DEF TypeInv, HearExpected
  <1> QED BY <1>1 DEF TypeInv, TypeOK, PutInv, HearExpected, unix, history, PiDeaf

LEMMA GetBinaryType == ASSUME TypeInv, GetBinary PROVE TypeInv'
  <1>1. u2p' \in Seq(Word) /\ image' \in Seq(Word)
    BY HearType DEF TypeInv, TypeOK, GetBinary
  <1>2. ppc' \in {"sAck", "data", "gEot"}
    BY MoreToHearCases DEF GetBinary
  <1> QED BY <1>1, <1>2 DEF TypeInv, TypeOK, PutInv, GetBinary, unix, history, PiHears, PiDeaf

LEMMA VerifyType == ASSUME TypeInv, Verify PROVE TypeInv'
  <1>1. p2u' \in Seq(Word \cup {Junk})
    BY SayType, ControlWords DEF TypeInv, TypeOK, Verify
  <1>2. accepted' \subseteq Seq(Word) /\ ppc' \in {"settle", "die"}
    BY DEF TypeInv, TypeOK, Verify
  <1> QED BY <1>1, <1>2 DEF TypeInv, TypeOK, PutInv, Verify, unix, PiDeaf

LEMMA NotMainType == ASSUME TypeInv, NotMain PROVE TypeInv'
  <1>1. soh \in Word /\ checksum \in Word /\ Crc(<<n>>, 4) \in Word
    BY CrcAssumption DEF TypeInv, TypeOK
  <1>2. MoreToHear(0) \in PiHears \cup PiDeaf /\ MoreToHear(Len(image)) \in PiHears \cup PiDeaf
    BY MoreToHearCases DEF PiHears
  <1>3. CASE HearSoh \/ HearSize \/ HearChecksum
    BY <1>3, HearHeaderType
  <1>4. CASE SayNext("sSoh", soh, "sN") \/ SayNext("sN", Crc(<<n>>, 4), "sCk")
             \/ SayNext("sCk", checksum, "gAck")
    BY <1>4, <1>1, SayNextType DEF PiHears, PiDeaf
  <1>5. CASE SayNext("sAck", ACK, MoreToHear(Len(image)))
    BY <1>5, <1>2, SayNextType, ControlWords
  <1>6. CASE HearExpected("gAck", ACK, MoreToHear(0))
    BY <1>6, <1>2, HearExpectedType
  <1>7. CASE HearExpected("gEot", EOT, "verify")
    BY <1>7, HearExpectedType DEF PiDeaf
  <1> QED BY <1>3, <1>4, <1>5, <1>6, <1>7, GetBinaryType, VerifyType DEF NotMain

\* What happens to a session from outside it: time-outs, the user, the power,
\* restarts and the line.
LEMMA OutsideType ==
  ASSUME TypeInv,
         Timeout \/ Interrupt \/ Branch \/ Restart \/ Listen \/ Unheard
  PROVE  TypeInv'
  <1>1. CASE Timeout
    BY <1>1 DEF TypeInv, TypeOK, PutInv, Timeout, UnixOver, pi, wires, history
  <1>2. CASE Interrupt
    <2>1. upsets' \in 0..MaxUpsets
      BY <1>2, BoundAssumption DEF TypeInv, TypeOK, Interrupt
    <2> QED BY <1>2, <2>1 DEF TypeInv, TypeOK, PutInv, Interrupt, UnixOver, pi, wires
  <1>3. CASE Branch \/ Restart \/ Listen
    <2>1. ppc' \in {"running", "delay", "gSoh"}
      BY <1>3 DEF Branch, Restart, Listen
    <2> QED BY <1>3, <2>1
        DEF TypeInv, TypeOK, PutInv, Branch, Restart, Listen, PiHears, PiDeaf, unix, wires, history
  <1>4. CASE Unheard
    <2>1. u2p' \in Seq(Word)
      BY <1>4, TailType DEF TypeInv, TypeOK, Unheard
    <2> QED BY <1>4, <2>1 DEF TypeInv, TypeOK, PutInv, Unheard, unix, pi, history
  <1> QED BY <1>1, <1>2, <1>3, <1>4

\* A reset leaves notmain's variables what they are at the start.
LEMMA ResetType ==
  ASSUME Reset
  PROVE  /\ ppc' \in PiHears \cup PiDeaf
         /\ soh' \in Word /\ n' \in Word /\ checksum' \in Word /\ image' \in Seq(Word)
  BY WordAssumption DEF Reset, PiDeaf, Word

LEMMA ResettingType ==
  ASSUME TypeInv, Die \/ ProgramEnds \/ PowerCycle
  PROVE  TypeInv'
  <1>1. CASE Die
    <2>1. p2u' \in Seq(Word \cup {Junk})
      BY <1>1, ControlWords, WordAssumption DEF TypeInv, TypeOK, Die
    <2> QED BY <1>1, <2>1, ResetType DEF TypeInv, TypeOK, PutInv, Die, unix, history
  <1>2. CASE ProgramEnds
    <2>1. p2u' \in Seq(Word \cup {Junk})
      BY <1>2, SayType, WordAssumption DEF TypeInv, ProgramEnds
    <2> QED BY <1>2, <2>1, ResetType DEF TypeInv, TypeOK, PutInv, ProgramEnds, unix, history
  <1>3. CASE PowerCycle
    <2>1. upsets' \in 0..MaxUpsets
      BY <1>3, BoundAssumption DEF TypeInv, TypeOK, PowerCycle
    <2> QED BY <1>3, <2>1, ResetType DEF TypeInv, TypeOK, PutInv, PowerCycle, unix, wires
  <1> QED BY <1>1, <1>2, <1>3

\* A garbled wire is still a wire.
LEMMA GarbleHeadType ==
  ASSUME NEW W, NEW wire \in Seq(W), wire # <<>>, NEW w \in W
  PROVE  [wire EXCEPT ![1] = w] \in Seq(W)
  OBVIOUS

LEMMA GarbleType == ASSUME TypeInv, Garble PROVE TypeInv'
  <1>1. garbled' \in 0..MaxGarbled
    BY BoundAssumption DEF TypeInv, TypeOK, Garble
  <1>2. Noise \subseteq Word
    BY WordAssumption
  <1>3. CASE GarbleHead(u2p) /\ UNCHANGED p2u
    <2>1. u2p' \in Seq(Word) /\ p2u' = p2u
      BY <1>2, <1>3, GarbleHeadType DEF TypeInv, TypeOK, GarbleHead
    <2> QED BY <1>1, <2>1 DEF TypeInv, TypeOK, PutInv, Garble, unix, pi
  <1>4. CASE GarbleHead(p2u) /\ UNCHANGED u2p
    <2>1. p2u' \in Seq(Word \cup {Junk}) /\ u2p' = u2p
      BY <1>2, <1>4, GarbleHeadType DEF TypeInv, TypeOK, GarbleHead
    <2> QED BY <1>1, <2>1 DEF TypeInv, TypeOK, PutInv, Garble, unix, pi
  <1> QED BY <1>3, <1>4 DEF Garble
-----------------------------------------------------------------------------
LEMMA InitType == Init => TypeInv
  <1> SUFFICES ASSUME Init PROVE TypeInv
    OBVIOUS
  <1>1. prog \in Program /\ put \in 0..Len(prog)
    BY ProgramAssumption DEF Init
  <1>2. soh \in Word /\ n \in Word /\ checksum \in Word
    BY WordAssumption DEF Init, Word
  <1>3. garbled \in 0..MaxGarbled /\ upsets \in 0..MaxUpsets
    BY BoundAssumption DEF Init
  <1>4. image \in Seq(Word) /\ u2p \in Seq(Word) /\ p2u \in Seq(Word \cup {Junk})
    BY DEF Init
  <1> QED BY <1>1, <1>2, <1>3, <1>4 DEF Init, TypeInv, TypeOK, PutInv, UnixOver, PiDeaf

LEMMA StutterType == ASSUME TypeInv, UNCHANGED vars PROVE TypeInv'
  BY DEF TypeInv, TypeOK, PutInv, vars, unix, pi, wires, history

LEMMA NextType == TypeInv /\ [Next]_vars => TypeInv'
  <1> SUFFICES ASSUME TypeInv, [Next]_vars PROVE TypeInv'
    OBVIOUS
  <1>1. CASE Running
    BY <1>1, SimpleBootType, NotMainType, OutsideType, ResettingType, GarbleType
       DEF Running, Bootloader, Upset
  <1>2. CASE \E p \in Program : Start(p)
    BY <1>2, StartType
  <1>3. CASE UNCHANGED vars
    BY <1>3, StutterType
  <1> QED BY <1>1, <1>2, <1>3 DEF Next

\* Every variable of the boot protocol keeps its type, my-install never reads
\* past the end of the program it sends, and it enters the loop of send_binary
\* only with a word left to send.
THEOREM TypeCorrect == Spec => []TypeInv
  BY InitType, NextType, PTL DEF Spec

\* The type invariant the runs check.
THEOREM TypeSafe == Spec => []TypeOK
  <1>1. TypeInv => TypeOK
    BY DEF TypeInv
  <1> QED BY <1>1, TypeCorrect, PTL

-----------------------------------------------------------------------------
(* Facts about sequences and numbers.                                      *)

LEMMA AppendFacts ==
  ASSUME NEW W, NEW s \in Seq(W), NEW w \in W
  PROVE  /\ Len(s) \in Nat /\ Len(Append(s, w)) = Len(s) + 1
         /\ Append(s, w)[Len(s) + 1] = w
         /\ \A i \in 1..Len(s) : Append(s, w)[i] = s[i]
         /\ Append(s, w) # <<>>
  OBVIOUS

LEMMA TailFacts ==
  ASSUME NEW W, NEW s \in Seq(W), s # <<>>
  PROVE  /\ Len(s) \in Nat /\ Len(s) >= 1 /\ Len(Tail(s)) = Len(s) - 1
         /\ Head(s) = s[1]
         /\ \A i \in 1..Len(Tail(s)) : Tail(s)[i] = s[i + 1]
  OBVIOUS

\* Sequences of one length and the same elements are equal.
LEMMA SameWords ==
  ASSUME NEW W, NEW s \in Seq(W), NEW t \in Seq(W), Len(s) = Len(t),
         \A i \in 1..Len(s) : s[i] = t[i]
  PROVE  s = t
  OBVIOUS

-----------------------------------------------------------------------------
(* The line to the Pi.                                                     *)

\* The words of a session depend on its program only.
LEMMA SameProgram ==
  ASSUME prog' = prog
  PROVE  /\ Size' = Size /\ HeaderWords' = HeaderWords /\ EchoWords' = EchoWords
         /\ \A i : UnixWord(i)' = UnixWord(i)
         /\ \A k : DueAfter(k)' = DueAfter(k)
  BY DEF Size, HeaderWords, EchoWords, UnixWord, DueAfter, Nbytes

LEMMA CountTypes ==
  ASSUME TypeOK
  PROVE  /\ Sent \in Nat /\ Heard \in Nat /\ EchoRead \in 0..3 /\ EchoSaid \in 0..3
         /\ Len(prog) \in Nat /\ put \in Nat /\ put <= Len(prog)
         /\ Len(image) \in Nat /\ Len(u2p) \in Nat /\ Len(p2u) \in Nat
  <1>1. /\ Len(prog) \in Nat /\ put \in Nat /\ put <= Len(prog)
        /\ Len(image) \in Nat /\ Len(u2p) \in Nat /\ Len(p2u) \in Nat
    BY ProgramAssumption DEF TypeOK
  <1>2. Sent \in Nat
    BY <1>1 DEF Sent
  <1>3. Heard \in Nat
    BY <1>1 DEF Heard
  <1> QED BY <1>1, <1>2, <1>3 DEF EchoRead, EchoSaid

\* my-install puts the next word of the session.
LEMMA PutInStep ==
  ASSUME TypeOK, LineInStep, NEW w \in Word, Put(w), prog' = prog,
         Heard' = Heard, Sent' = Sent + 1, w = UnixWord(Sent + 1)
  PROVE  LineInStep'
  <1>1. Sent \in Nat /\ Heard \in Nat /\ u2p \in Seq(Word)
    BY CountTypes DEF TypeOK
  <1>2. u2p' = Append(u2p, w) /\ \A i : UnixWord(i)' = UnixWord(i)
    BY SameProgram DEF Put
  <1>3. Len(u2p') = (Sent + 1) - Heard
    BY <1>1, <1>2, AppendFacts DEF LineInStep
  <1>4. ASSUME NEW i \in 1..Len(u2p')
        PROVE  u2p'[i] = UnixWord(Heard + i)
    <2>1. CASE i \in 1..Len(u2p)
      BY <1>1, <1>2, <2>1, AppendFacts DEF LineInStep
    <2>2. CASE i = Len(u2p) + 1
      <3>1. Heard + i = Sent + 1
        BY <1>1, <2>2 DEF LineInStep
      <3> QED BY <1>1, <1>2, <2>2, <3>1, AppendFacts
    <2>3. i \in 1..(Len(u2p) + 1)
      BY <1>1, <1>2, <1>4, AppendFacts
    <2> QED BY <1>1, <2>1, <2>2, <2>3
  <1> QED BY <1>2, <1>3, <1>4 DEF LineInStep

\* The Pi hears the next word of the session.
LEMMA HearInStep ==
  ASSUME TypeOK, LineInStep, NEW w, Hear(w)
  PROVE  /\ w = UnixWord(Heard + 1) /\ Sent >= Heard + 1
         /\ prog' = prog /\ Sent' = Sent /\ Heard' = Heard + 1 => LineInStep'
  <1>1. Sent \in Nat /\ Heard \in Nat /\ u2p \in Seq(Word) /\ u2p # <<>>
    BY CountTypes DEF TypeOK, Hear
  <1>2. w = UnixWord(Heard + 1) /\ Sent >= Heard + 1
    BY <1>1, TailFacts DEF LineInStep, Hear
  <1>3. SUFFICES ASSUME prog' = prog, Sent' = Sent, Heard' = Heard + 1
                 PROVE  LineInStep'
    BY <1>2
  <1>4. \A i : UnixWord(i)' = UnixWord(i)
    BY <1>3, SameProgram
  <1>5. Len(u2p') = Sent - (Heard + 1)
    BY <1>1, TailFacts DEF LineInStep, Hear
  <1>6. ASSUME NEW i \in 1..Len(u2p')
        PROVE  u2p'[i] = UnixWord((Heard + 1) + i)
    <2>1. i + 1 \in 1..Len(u2p) /\ u2p'[i] = u2p[i + 1]
      BY <1>1, <1>6, TailFacts DEF Hear
    <2>2. Heard + (i + 1) = (Heard + 1) + i
      BY <1>1
    <2> QED BY <2>1, <2>2 DEF LineInStep
  <1> QED BY <1>3, <1>4, <1>5, <1>6 DEF LineInStep

\* Anything else leaves the line in step.
LEMMA KeepInStep ==
  ASSUME LineInStep, prog' = prog, u2p' = u2p, Sent' = Sent, Heard' = Heard
  PROVE  LineInStep'
  BY SameProgram DEF LineInStep
-----------------------------------------------------------------------------
(* Steps of my-install.                                                    *)

\* What a step of my-install leaves alone.
LEMMA UnixFrame ==
  ASSUME Session, UNCHANGED <<prog, pi, accepted>>
  PROVE  /\ HeaderHeard' /\ accepted' = {} /\ Fits(Size)' /\ Heard' = Heard
         /\ \A i \in 1..Len(image') : image'[i] = prog'[i]
  <1>1. Size' = Size /\ prog' = prog /\ image' = image /\ ppc' = ppc /\ checksum' = checksum
        /\ soh' = soh /\ n' = n
    BY SameProgram DEF pi
  <1>2. Fits(Size)' /\ HeaderHeard' /\ Heard' = Heard
    BY <1>1 DEF Session, Fits, HeaderHeard, Heard
  <1> QED BY <1>1, <1>2 DEF Session

\* The header is put.
LEMMA HeaderPut ==
  ASSUME TypeInv, Session,
         \/ PutNext("soh", SOH, "n")
         \/ PutNext("n", Size, "ck")
         \/ PutNext("ck", Crc(prog, Size), "wSoh")
  PROVE  Session'
  <1>1. HeaderPhase /\ UNCHANGED <<prog, pi, accepted, p2u>>
    BY DEF Session, PutNext, HeaderPhase, EchoPhase, BlockPhase, CheckPhase, history
  <1>2. PICK w : Put(w) /\ w \in Word /\ w = UnixWord(Sent + 1) /\ Sent' = Sent + 1
    <2>1. CASE PutNext("soh", SOH, "n")
      BY <2>1, WordAssumption DEF PutNext, Sent, UnixWord, HeaderWords
    <2>2. CASE PutNext("n", Size, "ck")
      BY <2>2, ProgramAssumption DEF PutNext, Sent, UnixWord, HeaderWords, Size, TypeInv, TypeOK
    <2>3. CASE PutNext("ck", Crc(prog, Size), "wSoh")
      BY <2>3, ProgramAssumption DEF PutNext, Sent, UnixWord, HeaderWords, Size, TypeInv, TypeOK
    <2> QED BY <2>1, <2>2, <2>3
  <1>3. LineInStep'
    BY <1>1, <1>2, UnixFrame, PutInStep DEF TypeInv, Session
  <1>4. HeaderPhase'
    BY <1>1 DEF HeaderPhase, PutNext, pi
  <1> QED BY <1>1, <1>3, <1>4, UnixFrame DEF Session

\* One word of the echo is read, and is the one expected.
LEMMA EchoReadStep ==
  ASSUME TypeInv, Session,
         \/ Expect("wSoh", SOH, "wN")
         \/ Expect("wN", Crc(<<Size>>, 4), "wCk")
         \/ Expect("wCk", Crc(prog, Size), "ack")
  PROVE  Session' /\ upc' # "failed"
  <1>1. p2u # <<>> /\ p2u' = Tail(p2u) /\ UNCHANGED <<prog, put, pi, accepted>>
    BY DEF Expect, NoWordYet, history
  <1>2. EchoPhase
    BY <1>1 DEF Session, Expect, HeaderPhase, BlockPhase, CheckPhase
  <1>3. Head(p2u) = EchoWords[EchoRead + 1] /\ Len(p2u) \in Nat /\ Len(p2u) >= 1
        /\ Len(p2u') = Len(p2u) - 1
        /\ \A i \in 1..Len(p2u') : p2u'[i] = p2u[i + 1]
    <2>1. p2u \in Seq(Word \cup {Junk})
      BY DEF TypeInv, TypeOK
    <2>2. Head(p2u) = p2u[1] /\ Len(p2u) \in Nat /\ Len(p2u) >= 1
          /\ Len(p2u') = Len(p2u) - 1
          /\ \A i \in 1..Len(p2u') : p2u'[i] = p2u[i + 1]
      BY <1>1, <2>1, TailFacts
    <2> QED
      BY <1>2, <2>2, CountTypes DEF EchoPhase
  <1>4. /\ upc' \in {"wN", "wCk", "ack"} /\ u2p' = u2p
        /\ EchoRead' = EchoRead + 1 /\ Sent' = Sent /\ EchoRead \in 0..2
    <2>1. CASE Expect("wSoh", SOH, "wN")
      BY <2>1, <1>3 DEF Expect, EchoRead, EchoWords, Sent
    <2>2. CASE Expect("wN", Crc(<<Size>>, 4), "wCk")
      BY <2>2, <1>3 DEF Expect, EchoRead, EchoWords, Sent
    <2>3. CASE Expect("wCk", Crc(prog, Size), "ack")
      BY <2>3, <1>3 DEF Expect, EchoRead, EchoWords, Sent
    <2> QED BY <2>1, <2>2, <2>3
  <1>5. EchoPhase'
    <2>1. EchoSaid' = EchoSaid /\ ppc' = ppc /\ EchoWords' = EchoWords
      BY <1>1, SameProgram DEF EchoSaid, pi
    <2>2. Len(p2u') = EchoSaid' - EchoRead'
      <3>1. EchoSaid \in 0..3 /\ EchoRead \in 0..2 /\ Len(p2u) = EchoSaid - EchoRead
        BY <1>2, <1>4, CountTypes DEF EchoPhase, TypeInv
      <3>2. Len(p2u') = EchoSaid - (EchoRead + 1)
        BY <3>1, <1>3
      <3> QED BY <3>2, <2>1, <1>4
    <2>3. ASSUME NEW i \in 1..Len(p2u') PROVE p2u'[i] = EchoWords'[EchoRead' + i]
      <3>1. i + 1 \in 1..Len(p2u) /\ p2u'[i] = p2u[i + 1]
        BY <1>3, <2>3
      <3>2. EchoRead + (i + 1) = EchoRead' + i
        BY <1>4
      <3> QED BY <1>2, <2>1, <3>1, <3>2 DEF EchoPhase
    <2> QED BY <1>2, <1>4, <2>1, <2>2, <2>3 DEF EchoPhase
  <1>6. LineInStep'
    BY <1>1, <1>4, UnixFrame, KeepInStep DEF Session
  <1> QED BY <1>1, <1>4, <1>5, <1>6, UnixFrame DEF Session

\* The echo was right: my-install puts its ACK and enters send_binary.
LEMMA AckPut ==
  ASSUME TypeInv, ImageFresh, Session, PutNext("ack", ACK, MoreToPut(0))
  PROVE  Session'
  <1>1. /\ EchoPhase /\ upc = "ack" /\ put = 0 /\ UNCHANGED <<prog, put, pi, accepted, p2u>>
        /\ Put(ACK) /\ upc' = MoreToPut(0)
    BY DEF Session, PutNext, HeaderPhase, EchoPhase, BlockPhase, CheckPhase, history, TypeInv, PutInv
  <1>2. Len(p2u) = EchoSaid - 3 /\ EchoSaid \in 0..3 /\ Len(p2u) \in Nat
    BY <1>1, CountTypes DEF EchoPhase, EchoRead, TypeInv
  <1>3. EchoSaid = 3 /\ p2u = <<>>
    BY <1>2 DEF TypeInv, TypeOK
  <1>4. ppc = "gAck" /\ image = <<>>
    BY <1>1, <1>3 DEF EchoPhase, EchoSaid, ImageFresh
  <1>5. /\ Len(prog) \in Nat /\ Len(image) = 0
        /\ \/ upc' = "data" /\ 0 < Len(prog)
           \/ upc' = "eot" /\ ~(0 < Len(prog))
    BY <1>1, <1>4, CountTypes DEF MoreToPut, TypeInv
  <1>6. Sent = 3 /\ Sent' = 4
    BY <1>1, <1>5 DEF Sent
  <1>7. LineInStep'
    BY <1>1, <1>6, UnixFrame, PutInStep, ControlWords DEF UnixWord, TypeInv, Session
  <1>8. BlockPhase'
    <2>1. ppc' = "gAck" /\ image' = <<>> /\ put' = 0 /\ p2u' = <<>> /\ prog' = prog /\ Len(image') = 0
      BY <1>1, <1>3, <1>4, <1>5 DEF pi
    <2>2. \A k \in (Len(image') + 1)..(put' - 1) : FALSE
      BY <2>1
    <2> QED BY <1>5, <2>1, <2>2 DEF BlockPhase
  <1> QED BY <1>1, <1>7, <1>8, UnixFrame DEF Session

\* A turn of send_binary's loop.
LEMMA BlockPut ==
  ASSUME TypeInv, Session, SendBinary
  PROVE  Session'
  <1>1. /\ BlockPhase /\ upc = "data" /\ UNCHANGED <<prog, pi, accepted, p2u>>
        /\ Put(prog[put + 1]) /\ put' = put + 1
    BY DEF Session, SendBinary, HeaderPhase, EchoPhase, BlockPhase, CheckPhase, history
  <1>2. /\ Len(prog) \in Nat /\ put \in Nat /\ put < Len(prog) /\ Len(image) \in Nat
        /\ Len(image) <= put
    BY <1>1, CountTypes DEF TypeInv, PutInv, BlockPhase
  <1>3. prog[put + 1] \in Word
    BY <1>2, ProgramAssumption DEF TypeInv, TypeOK
  <1>4. p2u' = <<>> /\ image' = image /\ prog' = prog /\ ppc' = ppc /\ ppc # "sAck"
    BY <1>1 DEF BlockPhase, pi
  <1>5. \A k \in (Len(image) + 1)..put : ~DueAfter(k)
    BY <1>1, <1>2 DEF BlockPhase
  <1>6. /\ AckDue(Nbytes(prog) - 4 * put') = DueAfter(put + 1)
        /\ DueAfter(put)' = DueAfter(put + 1)
        /\ \A k : DueAfter(k)' = DueAfter(k)
    BY <1>1, SameProgram DEF DueAfter, Size
  <1>7. \/ upc' = "wAck" /\ DueAfter(put + 1)
        \/ upc' = "data" /\ ~DueAfter(put + 1)
        \/ upc' = "eot" /\ ~DueAfter(put + 1) /\ put + 1 = Len(prog)
    BY <1>1, <1>2, <1>6 DEF SendBinary, MoreToPut
  <1>8. Sent = 4 + put /\ Sent' = 4 + put' /\ Sent' = Sent + 1
    BY <1>1, <1>2, <1>7 DEF Sent
  <1>9. prog[put + 1] = UnixWord(Sent + 1)
    BY <1>2, <1>8 DEF UnixWord
  <1>10. LineInStep'
    BY <1>1, <1>3, <1>8, <1>9, UnixFrame, PutInStep DEF TypeInv, Session
  <1>11. BlockPhase'
    <2>1. Len(image') <= put' /\ Len(image') < put' /\ put' - 1 = put
      BY <1>1, <1>2, <1>4
    <2>2. \A k \in (Len(image') + 1)..(put' - 1) : ~DueAfter(k)'
      BY <1>4, <1>5, <1>6, <2>1
    <2>3. DueAfter(put)' = DueAfter(put + 1)
      BY <1>6
    <2>4. upc' \in {"data", "wAck", "eot"} /\ (upc' = "eot" => put' = Len(prog'))
      BY <1>1, <1>4, <1>7
    <2>5. IF upc' = "wAck" THEN DueAfter(put)' ELSE ~DueAfter(put)'
      BY <1>7, <2>3
    <2>6. /\ ppc' \in {"gAck", "data", "gEot"}
          /\ ppc' = "data" => Len(image') < Len(prog')
          /\ ppc' = "gEot" => Len(image') = Len(prog')
      BY <1>1, <1>4 DEF BlockPhase
    <2> QED BY <1>4, <2>1, <2>2, <2>4, <2>5, <2>6 DEF BlockPhase
  <1> QED BY <1>1, <1>10, <1>11, UnixFrame DEF Session

\* The ACK of a block is read.
LEMMA BlockAckRead ==
  ASSUME TypeInv, Session, Expect("wAck", ACK, MoreToPut(put))
  PROVE  Session' /\ upc' # "failed"
  <1>1. p2u # <<>> /\ p2u' = Tail(p2u) /\ upc = "wAck" /\ UNCHANGED <<prog, put, pi, accepted>>
    BY DEF Expect, NoWordYet, history
  <1>2. BlockPhase
    BY <1>1 DEF Session, HeaderPhase, EchoPhase, CheckPhase
  <1>3. p2u = <<ACK>> /\ Len(image) = put /\ ppc \in {"data", "gEot"}
    BY <1>1, <1>2 DEF BlockPhase
  <1>4. p2u' = <<>> /\ u2p' = u2p /\ upc' = MoreToPut(put)
    BY <1>1, <1>3 DEF Expect
  <1>5. /\ Len(prog) \in Nat /\ put \in Nat /\ put <= Len(prog)
        /\ \/ upc' = "data"
           \/ upc' = "eot" /\ put = Len(prog)
    BY <1>4, CountTypes DEF MoreToPut, TypeInv
  <1>6. Sent' = Sent
    BY <1>1, <1>5 DEF Sent
  <1>7. LineInStep'
    BY <1>1, <1>4, <1>6, UnixFrame, KeepInStep DEF Session
  <1>8. BlockPhase'
    <2>1. put' = put /\ image' = image /\ prog' = prog /\ ppc' = ppc
      BY <1>1 DEF pi
    <2>2. \A k \in (Len(image') + 1)..(put' - 1) : FALSE
      BY <1>3, <1>5, <2>1
    <2> QED BY <1>2, <1>3, <1>4, <1>5, <2>1, <2>2 DEF BlockPhase
  <1> QED BY <1>1, <1>5, <1>7, <1>8, UnixFrame DEF Session

\* EOT is put.
LEMMA EotPut ==
  ASSUME TypeInv, Session, PutNext("eot", EOT, "wDone")
  PROVE  Session'
  <1>1. /\ BlockPhase /\ upc = "eot" /\ upc' = "wDone"
        /\ UNCHANGED <<prog, put, pi, accepted, p2u>> /\ Put(EOT)
    BY DEF Session, PutNext, HeaderPhase, EchoPhase, BlockPhase, CheckPhase, history
  <1>2. Len(prog) \in Nat /\ put = Len(prog)
    BY <1>1, CountTypes DEF TypeInv, BlockPhase
  <1>3. Sent = 4 + Len(prog) /\ Sent' = Sent + 1
    BY <1>1, <1>2 DEF Sent
  <1>4. EOT = UnixWord(Sent + 1)
    BY <1>2, <1>3 DEF UnixWord
  <1>5. LineInStep'
    BY <1>1, <1>3, <1>4, UnixFrame, PutInStep, ControlWords DEF TypeInv, Session
  <1>6. BlockPhase'
    <2>1. put' = put /\ image' = image /\ prog' = prog /\ ppc' = ppc /\ p2u' = p2u
      BY <1>1 DEF pi
    <2>2. \A k : DueAfter(k)' = DueAfter(k)
      BY <1>1, SameProgram
    <2>3. DueAfter(put)' = DueAfter(put)
      BY <2>1 DEF DueAfter, Size, Nbytes
    <2> QED BY <1>1, <2>1, <2>2, <2>3 DEF BlockPhase
  <1> QED BY <1>1, <1>5, <1>6, UnixFrame DEF Session
-----------------------------------------------------------------------------
(* Steps of the Pi.                                                        *)

\* What a step of the Pi leaves alone.
LEMMA PiFrame ==
  ASSUME Session, UNCHANGED <<unix, accepted>>
  PROVE  /\ prog' = prog /\ upc' = upc /\ put' = put /\ accepted' = {}
         /\ Size' = Size /\ Fits(Size)' /\ Sent' = Sent /\ EchoRead' = EchoRead
         /\ EchoWords' = EchoWords /\ \A k : DueAfter(k)' = DueAfter(k)
  <1>1. prog' = prog /\ upc' = upc /\ put' = put /\ accepted' = {}
    BY DEF Session, unix
  <1>2. Size' = Size /\ EchoWords' = EchoWords /\ \A k : DueAfter(k)' = DueAfter(k)
    BY <1>1, SameProgram
  <1>3. Fits(Size)'
    BY <1>2 DEF Fits, Session
  <1>4. Sent' = Sent /\ EchoRead' = EchoRead
    BY <1>1 DEF Sent, EchoRead
  <1> QED BY <1>1, <1>2, <1>3, <1>4

\* The header is heard as it was put, and its size fits.
LEMMA HeaderHear ==
  ASSUME TypeInv, ImageFresh, Session, HearSoh \/ HearSize \/ HearChecksum
  PROVE  Session' /\ ppc' # "die"
  <1>1. HeaderPhase /\ UNCHANGED <<unix, accepted, p2u, image>> /\ image = <<>>
    BY DEF Session, HearSoh, HearSize, HearChecksum, HeaderPhase, EchoPhase, BlockPhase,
           CheckPhase, history, ImageFresh
  <1>2. PICK w : /\ Hear(w)
                 /\ ppc = "gSoh" => ppc' = "gN" /\ soh' = w
                 /\ ppc = "gN" => ppc' = "gCk" /\ n' = w /\ soh' = soh
                 /\ ppc = "gCk" => /\ ppc' = IF Fits(n) THEN "sSoh" ELSE "die"
                                   /\ checksum' = w /\ soh' = soh /\ n' = n
    BY DEF HearSoh, HearSize, HearChecksum
  <1>3. w = UnixWord(Heard + 1) /\ Sent >= Heard + 1
    BY <1>2, HearInStep DEF Session, TypeInv
  <1>4. Heard \in {0, 1, 2} /\ w = HeaderWords[Heard + 1]
    BY <1>1, <1>3 DEF Heard, HeaderPhase, UnixWord
  <1>5. ppc = "gCk" => ppc' = "sSoh"
    BY <1>2 DEF Session, HeaderHeard
  <1>6. Heard' = Heard + 1 /\ ppc' \in {"gN", "gCk", "sSoh"}
    BY <1>1, <1>2, <1>5 DEF Heard, HeaderPhase
  <1>7. LineInStep'
    BY <1>1, <1>2, <1>6, PiFrame, HearInStep DEF Session, TypeInv
  <1>8. HeaderHeard'
    <2>1. Size' = Size /\ Crc(prog, Size)' = Crc(prog, Size)
      BY <1>1, PiFrame
    <2>2. CASE ppc = "gSoh"
      BY <1>2, <1>4, <2>1, <2>2 DEF HeaderHeard, HeaderWords, Heard
    <2>3. CASE ppc = "gN"
      BY <1>2, <1>4, <2>1, <2>3 DEF HeaderHeard, HeaderWords, Heard, Session
    <2>4. CASE ppc = "gCk"
      BY <1>2, <1>4, <1>5, <2>1, <2>4 DEF HeaderHeard, HeaderWords, Heard, Session
    <2> QED BY <1>1, <2>2, <2>3, <2>4 DEF HeaderPhase
  <1>9. HeaderPhase' \/ EchoPhase'
    <2>1. CASE ppc # "gCk"
      BY <1>1, <1>2, <2>1, PiFrame DEF HeaderPhase
    <2>2. CASE ppc = "gCk"
      <3>1. upc' = "wSoh" /\ ppc' = "sSoh" /\ p2u' = <<>>
        BY <1>1, <1>3, <1>5, <2>2, PiFrame DEF HeaderPhase, Heard, Sent
      <3> QED BY <3>1 DEF EchoPhase, EchoSaid, EchoRead
    <2> QED BY <2>1, <2>2
  <1>10. \A i \in 1..Len(image') : image'[i] = prog'[i]
    BY <1>1
  <1> QED BY <1>1, <1>6, <1>7, <1>8, <1>9, <1>10, PiFrame DEF Session

\* One word of the echo is said.
LEMMA EchoSay ==
  ASSUME TypeInv, Session,
         \/ SayNext("sSoh", soh, "sN")
         \/ SayNext("sN", Crc(<<n>>, 4), "sCk")
         \/ SayNext("sCk", checksum, "gAck")
  PROVE  Session'
  <1>1. EchoPhase /\ UNCHANGED <<unix, accepted, u2p, image, soh, n, checksum>>
    BY DEF Session, SayNext, HeaderPhase, EchoPhase, BlockPhase, CheckPhase, history
  <1>2. soh = SOH /\ n = Size /\ checksum = Crc(prog, Size)
    BY <1>1 DEF Session, HeaderHeard, EchoPhase
  <1>3. PICK w : /\ Say(w) /\ w = EchoWords[EchoSaid + 1] /\ EchoSaid' = EchoSaid + 1
                 /\ ppc' \in {"sN", "sCk", "gAck"} /\ EchoSaid \in 0..2 /\ w \in Word
    <2>1. CASE SayNext("sSoh", soh, "sN")
      BY <2>1, <1>2 DEF SayNext, EchoWords, EchoSaid, TypeInv, TypeOK
    <2>2. CASE SayNext("sN", Crc(<<n>>, 4), "sCk")
      BY <2>2, <1>2, CrcAssumption DEF SayNext, EchoWords, EchoSaid, TypeInv, TypeOK
    <2>3. CASE SayNext("sCk", checksum, "gAck")
      BY <2>3, <1>2 DEF SayNext, EchoWords, EchoSaid, TypeInv, TypeOK
    <2> QED BY <2>1, <2>2, <2>3
  <1>4. Heard = 3 /\ Heard' = 3
    BY <1>1, <1>3 DEF Heard, EchoPhase
  <1>5. LineInStep'
    BY <1>1, <1>4, PiFrame, KeepInStep DEF Session
  <1>6. EchoPhase'
    <2>1. /\ Len(p2u) \in Nat /\ Len(p2u) = EchoSaid - EchoRead /\ EchoRead \in 0..3
          /\ Len(p2u') = Len(p2u) + 1 /\ p2u'[Len(p2u) + 1] = w
          /\ \A i \in 1..Len(p2u) : p2u'[i] = p2u[i]
      <3>1. Len(p2u) = EchoSaid - EchoRead
        BY <1>1 DEF EchoPhase
      <3>2. p2u \in Seq(Word \cup {Junk}) /\ w \in Word \cup {Junk} /\ p2u' = Append(p2u, w)
        BY <1>3 DEF Say, TypeInv, TypeOK
      <3>3. EchoRead \in 0..3
        BY CountTypes DEF TypeInv
      <3> QED BY <3>1, <3>2, <3>3, AppendFacts
    <2>2. Len(p2u') = EchoSaid' - EchoRead'
      BY <1>1, <1>3, <2>1, PiFrame
    <2>3. ASSUME NEW i \in 1..Len(p2u') PROVE p2u'[i] = EchoWords[EchoRead + i]
      <3>1. CASE i \in 1..Len(p2u)
        BY <1>1, <2>1, <3>1 DEF EchoPhase
      <3>2. CASE i = Len(p2u) + 1
        <4>1. EchoRead + i = EchoSaid + 1
          BY <1>3, <2>1, <3>2
        <4> QED BY <1>3, <2>1, <3>2, <4>1
      <3> QED BY <2>1, <2>3, <3>1, <3>2
    <2>4. upc' = upc /\ EchoRead' = EchoRead /\ EchoWords' = EchoWords
      BY <1>1, PiFrame
    <2> QED BY <1>1, <1>3, <2>2, <2>3, <2>4 DEF EchoPhase
  <1>7. HeaderHeard'
    BY <1>1, <1>2, PiFrame DEF HeaderHeard
  <1>8. \A i \in 1..Len(image') : image'[i] = prog'[i]
    BY <1>1, PiFrame DEF Session
  <1> QED BY <1>1, <1>5, <1>6, <1>7, <1>8, PiFrame DEF Session

\* The Pi hears the ACK of its echo and enters get_binary.
LEMMA AckHear ==
  ASSUME TypeInv, ImageFresh, Session, HearExpected("gAck", ACK, MoreToHear(0))
  PROVE  Session' /\ ppc' # "die"
  <1>1. /\ ppc = "gAck" /\ UNCHANGED <<unix, accepted, p2u, image, soh, n, checksum>>
        /\ image = <<>> /\ Len(image) = 0 /\ Heard = 3
    BY DEF HearExpected, ImageFresh, Heard, history
  <1>2. PICK w : Hear(w) /\ ppc' = IF w = ACK THEN MoreToHear(0) ELSE "die"
    BY DEF HearExpected
  <1>3. w = UnixWord(4) /\ Sent >= 4
    BY <1>1, <1>2, HearInStep DEF Session, TypeInv
  <1>4. BlockPhase
    BY <1>1, <1>3 DEF Session, HeaderPhase, EchoPhase, CheckPhase, Sent
  <1>5. w = ACK /\ n = Size
    BY <1>1, <1>3 DEF UnixWord, Session, HeaderHeard
  <1>6. /\ Len(prog) \in Nat
        /\ \/ ppc' = "data" /\ 0 < Len(prog)
           \/ ppc' = "gEot" /\ 0 = Len(prog)
    BY <1>2, <1>5, CountTypes DEF MoreToHear, Size, Nbytes, TypeInv
  <1>7. Heard' = 4
    BY <1>1, <1>6 DEF Heard
  <1>8. LineInStep'
    BY <1>1, <1>2, <1>7, PiFrame, HearInStep DEF Session, TypeInv
  <1>9. BlockPhase'
    <2>1. /\ image' = image /\ p2u' = p2u /\ prog' = prog /\ upc' = upc /\ put' = put
          /\ \A k : DueAfter(k)' = DueAfter(k)
      BY <1>1, PiFrame
    <2>2. DueAfter(put)' = DueAfter(put)
      BY <2>1 DEF DueAfter, Size, Nbytes
    <2> QED BY <1>1, <1>4, <1>6, <2>1, <2>2 DEF BlockPhase
  <1>10. HeaderHeard'
    BY <1>1, PiFrame DEF HeaderHeard, Session
  <1>11. \A i \in 1..Len(image') : image'[i] = prog'[i]
    BY <1>1
  <1> QED BY <1>1, <1>6, <1>8, <1>9, <1>10, <1>11, PiFrame DEF Session

\* A turn of get_binary's loop.
LEMMA BlockHear ==
  ASSUME TypeInv, Session, GetBinary
  PROVE  Session'
  <1>1. BlockPhase /\ ppc = "data" /\ UNCHANGED <<unix, accepted, p2u, soh, n, checksum>>
    BY DEF Session, GetBinary, HeaderPhase, EchoPhase, BlockPhase, CheckPhase, history
  <1>2. PICK w : Hear(w) /\ image' = Append(image, w) /\ w \in Word
    BY DEF GetBinary
  <1>3. /\ Len(prog) \in Nat /\ put \in Nat /\ put <= Len(prog) /\ Len(image) \in Nat
        /\ Len(image) <= put /\ Len(image) < Len(prog) /\ Heard = 4 + Len(image)
    BY <1>1, CountTypes DEF TypeInv, BlockPhase, Heard
  <1>4. w = UnixWord(Heard + 1) /\ Sent >= Heard + 1
    BY <1>2, HearInStep DEF Session, TypeInv
  <1>5. w = prog[Len(image) + 1]
    BY <1>3, <1>4 DEF UnixWord
  <1>6. /\ Len(image') = Len(image) + 1 /\ image'[Len(image) + 1] = w
        /\ \A i \in 1..Len(image) : image'[i] = image[i]
    BY <1>2, AppendFacts DEF TypeInv, TypeOK
  <1>7. Len(image) + 1 <= put
    BY <1>1, <1>3, <1>4 DEF Sent, BlockPhase
  <1>8. n = Size
    BY <1>1 DEF Session, HeaderHeard
  <1>9. AckDue(n - 4 * Len(image')) = DueAfter(Len(image) + 1)
    BY <1>6, <1>8 DEF DueAfter
  <1>10. /\ DueAfter(Len(image) + 1) => ppc' = "sAck"
         /\ ~DueAfter(Len(image) + 1) =>
              \/ ppc' = "data" /\ Len(image) + 1 < Len(prog)
              \/ ppc' = "gEot" /\ Len(image) + 1 = Len(prog)
    BY <1>3, <1>6, <1>8, <1>9 DEF GetBinary, MoreToHear, Size, Nbytes
  <1>11. /\ p2u = <<>>
         /\ DueAfter(Len(image) + 1) <=> upc = "wAck" /\ Len(image) + 1 = put
    <2>1. CASE Len(image) + 1 = put
      BY <1>1, <1>3, <2>1 DEF BlockPhase
    <2>2. CASE Len(image) + 1 < put
      <3>1. ~DueAfter(Len(image) + 1)
        BY <1>1, <1>3, <2>2 DEF BlockPhase
      <3> QED BY <1>1, <1>3, <2>2, <3>1 DEF BlockPhase
    <2> QED BY <1>3, <1>7, <2>1, <2>2
  <1>12. Heard' = Heard + 1
    BY <1>3, <1>6, <1>10 DEF Heard
  <1>13. LineInStep'
    BY <1>1, <1>2, <1>12, PiFrame, HearInStep DEF Session, TypeInv
  <1>14. BlockPhase'
    <2>1. /\ p2u' = <<>> /\ prog' = prog /\ upc' = upc /\ put' = put
          /\ \A k : DueAfter(k)' = DueAfter(k)
      BY <1>1, <1>11, PiFrame
    <2>2. DueAfter(put)' = DueAfter(put)
      BY <2>1 DEF DueAfter, Size, Nbytes
    <2>3. \A k \in (Len(image') + 1)..(put' - 1) : ~DueAfter(k)'
      BY <1>1, <1>3, <1>6, <2>1 DEF BlockPhase
    <2>4. Len(image') <= put'
      BY <1>6, <1>7, <2>1
    <2>5. IF upc = "wAck"
            THEN \/ Len(image') < put /\ DueAfter(put)
                 \/ ppc' = "sAck"
            ELSE Len(image') < put => ~DueAfter(put)
      BY <1>1, <1>3, <1>6, <1>7, <1>10, <1>11 DEF BlockPhase
    <2>6. /\ ppc' \in {"data", "sAck", "gEot"}
          /\ ppc' = "data" => Len(image') < Len(prog)
          /\ ppc' = "gEot" => Len(image') = Len(prog)
          /\ ppc' = "sAck" => upc = "wAck" /\ Len(image') = put
      BY <1>6, <1>10, <1>11
    <2> QED BY <1>1, <2>1, <2>2, <2>3, <2>4, <2>5, <2>6 DEF BlockPhase
  <1>15. HeaderHeard'
    BY <1>1, <1>10, PiFrame DEF HeaderHeard, Session
  <1>16. \A i \in 1..Len(image') : image'[i] = prog'[i]
    BY <1>1, <1>3, <1>5, <1>6, PiFrame DEF Session
  <1> QED BY <1>1, <1>13, <1>14, <1>15, <1>16, PiFrame DEF Session

\* The Pi acknowledges a block.
LEMMA BlockAckSay ==
  ASSUME TypeInv, Session, SayNext("sAck", ACK, MoreToHear(Len(image)))
  PROVE  Session'
  <1>1. /\ BlockPhase /\ ppc = "sAck" /\ UNCHANGED <<unix, accepted, u2p, image, soh, n, checksum>>
        /\ Say(ACK) /\ ppc' = MoreToHear(Len(image))
    BY DEF Session, SayNext, HeaderPhase, EchoPhase, BlockPhase, CheckPhase, history
  <1>2. upc = "wAck" /\ Len(image) = put /\ p2u = <<>> /\ p2u' = <<ACK>>
    BY <1>1 DEF BlockPhase, Say
  <1>3. n = Size
    BY <1>1 DEF Session, HeaderHeard
  <1>4. /\ Len(prog) \in Nat /\ Len(image) \in Nat /\ put <= Len(prog)
        /\ \/ ppc' = "data" /\ Len(image) < Len(prog)
           \/ ppc' = "gEot" /\ Len(image) = Len(prog)
    BY <1>1, <1>2, <1>3, CountTypes DEF MoreToHear, Size, Nbytes, TypeInv
  <1>5. Heard' = Heard
    BY <1>1, <1>4 DEF Heard
  <1>6. LineInStep'
    BY <1>1, <1>5, PiFrame, KeepInStep DEF Session
  <1>7. BlockPhase'
    <2>1. /\ image' = image /\ prog' = prog /\ upc' = upc /\ put' = put
      BY <1>1, PiFrame
    <2>2. \A k \in (Len(image') + 1)..(put' - 1) : FALSE
      BY <1>2, <1>4, <2>1
    <2> QED BY <1>2, <1>4, <2>1, <2>2 DEF BlockPhase
  <1>8. HeaderHeard'
    BY <1>1, <1>4, PiFrame DEF HeaderHeard, Session
  <1>9. \A i \in 1..Len(image') : image'[i] = prog'[i]
    BY <1>1, PiFrame DEF Session
  <1> QED BY <1>1, <1>6, <1>7, <1>8, <1>9, PiFrame DEF Session

\* The Pi hears EOT where it expects it.
LEMMA EotHear ==
  ASSUME TypeInv, Session, HearExpected("gEot", EOT, "verify")
  PROVE  Session' /\ ppc' # "die"
  <1>1. /\ BlockPhase /\ ppc = "gEot" /\ UNCHANGED <<unix, accepted, p2u, image, soh, n, checksum>>
    BY DEF Session, HearExpected, HeaderPhase, EchoPhase, BlockPhase, CheckPhase, history
  <1>2. PICK w : Hear(w) /\ ppc' = IF w = EOT THEN "verify" ELSE "die"
    BY DEF HearExpected
  <1>3. /\ Len(prog) \in Nat /\ put \in Nat /\ put <= Len(prog)
        /\ Len(image) = Len(prog) /\ Heard = 4 + Len(prog)
    BY <1>1, CountTypes DEF TypeInv, BlockPhase, Heard
  <1>4. w = UnixWord(5 + Len(prog)) /\ Sent >= 5 + Len(prog)
    BY <1>2, <1>3, HearInStep DEF Session, TypeInv
  <1>5. w = EOT
    BY <1>3, <1>4 DEF UnixWord
  <1>6. upc = "wDone" /\ p2u = <<>>
    BY <1>1, <1>3, <1>4 DEF Sent, BlockPhase
  <1>7. ppc' = "verify" /\ Heard' = Heard + 1
    BY <1>1, <1>2, <1>3, <1>5, PiFrame DEF Heard
  <1>8. LineInStep'
    BY <1>1, <1>2, <1>7, PiFrame, HearInStep DEF Session, TypeInv
  <1>9. CheckPhase'
    BY <1>1, <1>3, <1>6, <1>7, PiFrame DEF CheckPhase
  <1>10. HeaderHeard'
    BY <1>1, <1>7, PiFrame DEF HeaderHeard, Session
  <1>11. \A i \in 1..Len(image') : image'[i] = prog'[i]
    BY <1>1, PiFrame DEF Session
  <1> QED BY <1>1, <1>7, <1>8, <1>9, <1>10, <1>11, PiFrame DEF Session

\* The checksum is right, and the Pi accepts exactly the program sent.
LEMMA CheckPasses ==
  ASSUME TypeInv, Session, Verify
  PROVE  DonePhase' /\ ppc' # "die"
  <1>1. CheckPhase /\ UNCHANGED <<unix, u2p, image>>
    BY DEF Session, Verify, HeaderPhase, EchoPhase, BlockPhase, CheckPhase
  <1>2. image = prog
    BY <1>1, ProgramAssumption, SameWords DEF Session, CheckPhase, TypeInv, TypeOK
  <1>3. n = Size /\ checksum = Crc(prog, Size)
    BY <1>1 DEF CheckPhase, Session, HeaderHeard
  <1>4. /\ Say(ACK) /\ ppc' = "settle" /\ accepted' = accepted \cup {image}
    BY <1>2, <1>3 DEF Verify
  <1>5. p2u' # <<>> /\ Head(p2u') = ACK
    BY <1>1, <1>4 DEF CheckPhase, Say
  <1>6. u2p = <<>>
    <2>1. Len(u2p) = 0
      BY <1>1, CountTypes DEF CheckPhase, Session, LineInStep, Sent, Heard, TypeInv
    <2> QED BY <2>1 DEF TypeInv, TypeOK
  <1>7. accepted' = {prog} /\ prog' = prog /\ upc' = "wDone"
    BY <1>1, <1>2, <1>4 DEF Session, unix, CheckPhase
  <1> QED BY <1>1, <1>4, <1>5, <1>6, <1>7 DEF DonePhase
-----------------------------------------------------------------------------
(* What being in step rules out.                                           *)

LEMMA NotJunk == \A w \in Word : w # Junk
  BY WordAssumption

LEMMA SessionHears ==
  ASSUME TypeInv, Session, u2p # <<>>
  PROVE  ppc \in PiHears
  <1>1. Sent > Heard
    <2>1. Len(u2p) \in Nat /\ Len(u2p) # 0
      BY CountTypes DEF TypeInv, TypeOK
    <2> QED BY <2>1, CountTypes DEF Session, LineInStep, TypeInv
  <1>2. CASE HeaderPhase
    BY <1>2 DEF HeaderPhase, PiHears
  <1>3. CASE EchoPhase
    BY <1>1, <1>3 DEF EchoPhase, Sent, Heard
  <1>4. CASE BlockPhase
    <2>1. ppc # "sAck"
      BY <1>1, <1>4, CountTypes DEF BlockPhase, Sent, Heard, TypeInv
    <2> QED BY <1>4, <2>1 DEF BlockPhase, PiHears
  <1>5. CASE CheckPhase
    BY <1>1, <1>5, CountTypes DEF CheckPhase, Sent, Heard, TypeInv
  <1> QED BY <1>2, <1>3, <1>4, <1>5 DEF Session

LEMMA SessionGoesOn ==
  ASSUME TypeInv, Session, upc \in UnixWaits, NoWordYet, PiSilent
  PROVE  FALSE
  <1>1. ppc \in PiHears /\ u2p = <<>>
    BY DEF PiSilent, Session, HeaderPhase, EchoPhase, BlockPhase, CheckPhase
  <1>2. Sent = Heard
    BY <1>1, CountTypes DEF Session, LineInStep, TypeInv
  <1>3. CASE HeaderPhase
    BY <1>2, <1>3 DEF HeaderPhase, Sent, Heard, UnixWaits
  <1>4. CASE EchoPhase
    <2>1. ppc = "gAck" /\ upc \in {"wSoh", "wN", "wCk"}
      BY <1>1, <1>4 DEF EchoPhase, PiHears, UnixWaits
    <2>2. Len(p2u) \in Nat /\ Len(p2u) >= 1 /\ EchoRead \in 0..2
      BY <1>4, <2>1, CountTypes DEF EchoPhase, EchoSaid, EchoRead, TypeInv
    <2>3. p2u[1] = EchoWords[EchoRead + 1]
      BY <1>4, <2>2 DEF EchoPhase
    <2>4. EchoWords[EchoRead + 1] \in Word
      BY <2>2, WordAssumption, ProgramAssumption, CrcAssumption DEF EchoWords, Size, TypeInv, TypeOK
    <2>5. p2u # <<>> /\ p2u[1] # Junk
      BY <2>2, <2>3, <2>4, NotJunk
    <2> QED BY <2>5 DEF NoWordYet
  <1>5. CASE BlockPhase
    <2>1. CASE upc = "wDone"
      BY <1>2, <1>5, <2>1, CountTypes DEF BlockPhase, Sent, Heard, TypeInv
    <2>2. CASE upc = "wAck"
      <3>1. CASE Len(image) < put
        BY <1>1, <1>2, <1>5, <2>2, <3>1, CountTypes DEF BlockPhase, Sent, Heard, TypeInv
      <3>2. CASE p2u = <<ACK>>
        BY <3>2, NotJunk, ControlWords DEF NoWordYet
      <3> QED BY <1>1, <1>5, <2>2, <3>1, <3>2 DEF BlockPhase, PiHears
    <2> QED BY <1>5, <2>1, <2>2 DEF BlockPhase, UnixWaits
  <1>6. CASE CheckPhase
    BY <1>1, <1>6 DEF CheckPhase, PiHears
  <1> QED BY <1>3, <1>4, <1>5, <1>6 DEF Session

LEMMA DoneHasReply ==
  ASSUME DonePhase, upc = "wDone"
  PROVE  ~NoWordYet
  BY NotJunk, ControlWords DEF DonePhase, NoWordYet

-----------------------------------------------------------------------------
(* LockStep is inductive.                                                  *)

LEMMA InitLockStep == Init => LockStep
  BY DEF Init, LockStep, ImageFresh

LEMMA FreshStep ==
  ASSUME TypeInv, ImageFresh, [Next]_vars
  PROVE  ImageFresh'
  <1> USE DEF ImageFresh
  <1>1. CASE SimpleBoot
    <2>1. UNCHANGED pi
      BY <1>1 DEF SimpleBoot, PutNext, Expect, SendBinary
    <2> QED BY <2>1 DEF pi
  <1>2. CASE Timeout \/ Interrupt \/ Unheard \/ Garble
    BY <1>2 DEF Timeout, Interrupt, Unheard, Garble, pi
  <1>3. CASE HearSoh \/ HearSize \/ HearChecksum
    BY <1>3 DEF HearSoh, HearSize, HearChecksum
  <1>4. CASE \/ SayNext("sSoh", soh, "sN") \/ SayNext("sN", Crc(<<n>>, 4), "sCk")
             \/ SayNext("sCk", checksum, "gAck")
    BY <1>4 DEF SayNext
  <1>5. CASE SayNext("sAck", ACK, MoreToHear(Len(image))) \/ HearExpected("gAck", ACK, MoreToHear(0))
    BY <1>5, MoreToHearCases DEF SayNext, HearExpected
  <1>6. CASE HearExpected("gEot", EOT, "verify")
    BY <1>6 DEF HearExpected
  <1>7. CASE GetBinary
    <2>1. ppc' \in {"sAck", "data", "gEot"}
      BY <1>7, MoreToHearCases DEF GetBinary
    <2> QED BY <2>1
  <1>8. CASE Verify \/ Branch
    BY <1>8 DEF Verify, Branch
  <1>9. CASE Restart \/ Listen
    BY <1>9 DEF Restart, Listen
  <1>10. CASE Die \/ ProgramEnds \/ PowerCycle
    BY <1>10 DEF Die, ProgramEnds, PowerCycle, Reset
  <1>11. CASE \E p \in Program : Start(p)
    BY <1>11 DEF Start, pi
  <1>12. CASE UNCHANGED vars
    BY <1>12 DEF vars, pi
  <1> QED BY <1>1, <1>2, <1>3, <1>4, <1>5, <1>6, <1>7, <1>8, <1>9, <1>10, <1>11, <1>12
      DEF Next, Running, Bootloader, NotMain, Upset

\* A new session that begins at rest is in step.
LEMMA StartStep ==
  ASSUME TypeInv, ImageFresh, NEW p \in Program, Start(p), clean'
  PROVE  Session'
  <1>1. /\ upc' = "soh" /\ prog' = p /\ put' = 0 /\ accepted' = {}
        /\ ppc = "gSoh" /\ u2p = <<>> /\ p2u' = <<>> /\ Fits(Nbytes(p))
        /\ UNCHANGED <<pi, u2p>>
    BY DEF Start
  <1>2. ppc' = "gSoh" /\ image' = <<>> /\ u2p' = <<>>
    BY <1>1 DEF ImageFresh, pi
  <1>3. Sent' = 0 /\ Heard' = 0
    BY <1>1, <1>2 DEF Sent, Heard
  <1>4. LineInStep' /\ HeaderPhase' /\ HeaderHeard'
    BY <1>1, <1>2, <1>3 DEF LineInStep, HeaderPhase, HeaderHeard
  <1>5. Fits(Size)'
    BY <1>1 DEF Fits, Size, Nbytes
  <1>6. \A i \in 1..Len(image') : FALSE
    BY <1>2
  <1> QED BY <1>1, <1>4, <1>5, <1>6 DEF Session

\* Upsets end the guarantee, and nothing but a Start begins it.
LEMMA CleanStep ==
  ASSUME Running, clean'
  PROVE  clean /\ ~Upset
  <1>1. ~Upset
    BY DEF Upset, Interrupt, PowerCycle, Garble
  <1>2. CASE SimpleBoot \/ Timeout \/ Unheard \/ ProgramEnds
    BY <1>1, <1>2 DEF SimpleBoot, PutNext, Expect, SendBinary, Timeout, Unheard, ProgramEnds, history
  <1>3. CASE Bootloader
    BY <1>1, <1>3 DEF Bootloader, NotMain, HearSoh, HearSize, HearChecksum, SayNext, HearExpected, GetBinary,
                Verify, Branch, Die, Restart, Listen, history
  <1> QED BY <1>1, <1>2, <1>3 DEF Running

\* In step, a session goes on in step or comes to its end.
LEMMA SessionStep ==
  ASSUME TypeInv, ImageFresh, Session, Running, ~Upset
  PROVE  Session' \/ DonePhase'
  <1>1. CASE SimpleBoot
    <2>1. ~Expect("wDone", ACK, "ok")
      BY DEF Expect, NoWordYet, Session, HeaderPhase, EchoPhase, BlockPhase, CheckPhase
    <2> QED BY <1>1, <2>1, HeaderPut, EchoReadStep, AckPut, BlockPut, BlockAckRead, EotPut
        DEF SimpleBoot, Size
  <1>2. CASE NotMain
    BY <1>2, HeaderHear, EchoSay, AckHear, BlockHear, BlockAckSay, EotHear, CheckPasses DEF NotMain
  <1>3. CASE Timeout
    BY <1>3, SessionGoesOn DEF Timeout
  <1>4. CASE Unheard
    BY <1>4, SessionHears DEF Unheard, PiHears, PiDeaf
  <1>5. CASE Branch \/ Die \/ Restart \/ Listen \/ ProgramEnds
    BY <1>5 DEF Branch, Die, Restart, Listen, ProgramEnds, Session, HeaderPhase, EchoPhase,
                BlockPhase, CheckPhase
  <1> QED BY <1>1, <1>2, <1>3, <1>4, <1>5 DEF Running, Bootloader

\* After its end nothing takes the success back.
LEMMA DoneStep ==
  ASSUME TypeInv, DonePhase, Running, ~Upset
  PROVE  DonePhase'
  <1>1. CASE SimpleBoot
    <2>1. Expect("wDone", ACK, "ok")
      BY <1>1 DEF SimpleBoot, DonePhase, PutNext, Expect, SendBinary
    <2>2. /\ upc' = "ok" /\ u2p' = u2p /\ UNCHANGED <<prog, accepted, ppc>>
          /\ ppc \in {"settle", "running", "down"}
      BY <2>1 DEF Expect, DonePhase, pi, history
    <2> QED BY <2>2 DEF DonePhase
  <1>2. ~NotMain /\ ~Die /\ ~Unheard
    BY DEF DonePhase, NotMain, HearSoh, HearSize, HearChecksum, SayNext, HearExpected, GetBinary,
           Verify, Die, Unheard, Hear
  <1>3. ~Timeout
    BY DoneHasReply DEF Timeout, UnixWaits, DonePhase
  <1>4. CASE Branch
    BY <1>4 DEF Branch, DonePhase, unix, wires, history
  <1>5. CASE Restart
    <2>1. upc = "ok"
      BY <1>5, DoneHasReply DEF Restart, UnixQuiet, DonePhase, UnixOver
    <2> QED BY <1>5, <2>1 DEF Restart, DonePhase, unix, wires, history
  <1>6. CASE Listen
    BY <1>6 DEF Listen, DonePhase, unix, wires, history
  <1>7. CASE ProgramEnds
    <2>1. p2u # <<>> => p2u' # <<>> /\ Head(p2u') = Head(p2u)
      BY <1>7 DEF ProgramEnds, Say, TypeInv, TypeOK
    <2> QED BY <1>7, <2>1 DEF ProgramEnds, Reset, DonePhase, unix, history
  <1> QED BY <1>1, <1>2, <1>3, <1>4, <1>5, <1>6, <1>7 DEF Running, Bootloader

LEMMA NextLockStep == TypeInv /\ LockStep /\ [Next]_vars => LockStep'
  <1> SUFFICES ASSUME TypeInv, LockStep, [Next]_vars, clean'
               PROVE  Session' \/ DonePhase'
    BY FreshStep DEF LockStep
  <1>1. CASE Running
    BY <1>1, CleanStep, SessionStep, DoneStep DEF LockStep
  <1>2. CASE \E p \in Program : Start(p)
    BY <1>2, StartStep DEF LockStep
  <1>3. CASE UNCHANGED vars
    <2>1. UNCHANGED <<upc, ppc, put, prog, image, soh, n, checksum, u2p, p2u, accepted, clean>>
      BY <1>3 DEF vars, unix, pi, wires, history
    <2>2. UNCHANGED <<Sent, Heard, Size, EchoRead, EchoSaid>>
      BY <2>1 DEF Sent, Heard, Size, EchoRead, EchoSaid
    <2>3. Session => LineInStep' /\ HeaderHeard'
      BY <2>1, <2>2 DEF Session, LineInStep, UnixWord, HeaderWords, HeaderHeard
    <2>4. HeaderPhase => HeaderPhase'
      BY <2>1 DEF HeaderPhase
    <2>5. EchoPhase => EchoPhase'
      BY <2>1, <2>2 DEF EchoPhase, EchoWords
    <2>6. BlockPhase => BlockPhase'
      BY <2>1, <2>2 DEF BlockPhase, DueAfter, AckDue
    <2>7. CheckPhase => CheckPhase'
      BY <2>1 DEF CheckPhase
    <2>8. Session => Session'
      BY <2>1, <2>2, <2>3, <2>4, <2>5, <2>6, <2>7 DEF Session
    <2>9. DonePhase => DonePhase'
      BY <2>1 DEF DonePhase
    <2> QED BY <2>1, <2>8, <2>9 DEF LockStep
  <1> QED BY <1>1, <1>2, <1>3 DEF Next

-----------------------------------------------------------------------------
\* An undisturbed session is in step at every moment, whatever the program, its
\* size, the ACK interval and the checksum function.
THEOREM LockStepHolds == Spec => []LockStep
  <1>1. Init => LockStep
    BY InitLockStep
  <1>2. TypeInv /\ LockStep /\ [Next]_vars => LockStep'
    BY NextLockStep
  <1> QED BY <1>1, <1>2, TypeCorrect, PTL DEF Spec

LEMMA DoneHears ==
  ASSUME DonePhase
  PROVE  u2p = <<>>
  BY DEF DonePhase

\* No word of an undisturbed session reaches a Pi that is not listening: the
\* Pi, which buffers nothing, never sends or computes while my-install puts.
THEOREM NeverTalkOver == Spec => []NoTalkOver
  <1>1. TypeInv /\ LockStep => NoTalkOver
    BY SessionHears, DoneHears DEF LockStep, NoTalkOver
  <1> QED BY <1>1, TypeCorrect, LockStepHolds, PTL

\* The two sides of an undisturbed session never wait for each other: they
\* agree on every ACK for every size of program.
THEOREM NeverMutualWait == Spec => []NoMutualWait
  <1>1. TypeInv /\ DonePhase => ~(upc \in UnixWaits /\ NoWordYet /\ PiSilent)
    BY DoneHasReply DEF DonePhase, UnixWaits
  <1>2. TypeInv /\ LockStep => NoMutualWait
    BY <1>1, SessionGoesOn DEF LockStep, NoMutualWait
  <1> QED BY <1>2, TypeCorrect, LockStepHolds, PTL

\* An undisturbed session does not fail, and its success means that the Pi has
\* accepted the program and nothing else.
THEOREM CleanAlwaysBoots == Spec => []CleanBoots
  <1>1. Session => upc # "failed" /\ ppc # "die" /\ upc # "ok"
    BY DEF Session, HeaderPhase, EchoPhase, BlockPhase, CheckPhase
  <1>2. DonePhase => upc # "failed" /\ ppc # "die" /\ accepted = {prog}
    BY DEF DonePhase
  <1>3. LockStep => CleanBoots
    BY <1>1, <1>2 DEF LockStep, CleanBoots
  <1> QED BY <1>3, LockStepHolds, PTL

-----------------------------------------------------------------------------
(* BootProtocol against BootSpec, step by step.                            *)

\* The two steps for which the protocol relies on the checksum and on the line
\* being its own: the Pi accepts an image, my-install takes an ACK for the last one.
Accepting == ppc = "verify" /\ ppc' = "settle"
Believing == upc = "wDone" /\ upc' = "ok"

\* A session has a program that was offered.
Known == upc # "idle" => prog \in offered

LEMMA KnownStep == Known /\ [Next]_vars => Known'
  <1> SUFFICES ASSUME Known, [Next]_vars PROVE Known'
    OBVIOUS
  <1>1. CASE \E p \in Program : Start(p)
    BY <1>1 DEF Start, Known
  <1>2. CASE Running \/ UNCHANGED vars
    <2>1. UNCHANGED <<prog, offered>>
      BY <1>2 DEF Running, SimpleBoot, PutNext, Expect, SendBinary, Timeout, Unheard, ProgramEnds, Bootloader, NotMain,
             HearSoh, HearSize, HearChecksum, SayNext, HearExpected, GetBinary, Verify, Branch, Die, Restart, Listen,
             Upset, Interrupt, PowerCycle, Garble, vars, unix, history
    <2>2. CASE SimpleBoot \/ Timeout \/ Interrupt
      BY <1>2, <2>1, <2>2 DEF Known, SimpleBoot, PutNext, Expect, SendBinary, Timeout, Interrupt, UnixBusy, UnixWaits
    <2>3. CASE ~(SimpleBoot \/ Timeout \/ Interrupt)
      <3>1. UNCHANGED upc
        BY <1>2, <2>3 DEF Running, Unheard, ProgramEnds, Bootloader, NotMain, HearSoh, HearSize, HearChecksum, SayNext,
               HearExpected, GetBinary, Verify, Branch, Die, Restart, Listen, Upset, PowerCycle, Garble, vars, unix
      <3> QED BY <2>1, <3>1 DEF Known
    <2> QED BY <2>2, <2>3
  <1> QED BY <1>1, <1>2 DEF Next

\* Steps of my-install are steps of its session.
LEMMA UnixPromise ==
  ASSUME SimpleBoot \/ Timeout \/ Interrupt, Believing => accepted = {prog}
  PROVE  [Promise!Next]_(Promise!vars)
  <1>1. UNCHANGED <<prog, offered, accepted, ppc, image>> /\ upc \in UnixBusy
    BY DEF SimpleBoot, PutNext, Expect, SendBinary, Timeout, Interrupt, pi, history, UnixBusy, UnixWaits
  <1>2. CASE upc' \in UnixBusy
    BY <1>1, <1>2 DEF Promise!vars
  <1>3. CASE upc' = "failed"
    BY <1>1, <1>3 DEF Promise!Next, Promise!Fail, UnixBusy, UnixWaits
  <1>4. CASE upc' = "ok"
    <2>1. Believing
      BY <1>4 DEF SimpleBoot, PutNext, Expect, SendBinary, MoreToPut, Timeout, Interrupt, Believing
    <2> QED BY <1>1, <1>4, <2>1 DEF Promise!Next, Promise!Succeed, UnixBusy, UnixWaits
  <1>5. upc' \in UnixBusy \/ upc' = "failed" \/ upc' = "ok"
    BY DEF SimpleBoot, PutNext, Expect, SendBinary, MoreToPut, Timeout, Interrupt, UnixBusy, UnixWaits
  <1> QED BY <1>2, <1>3, <1>4, <1>5

\* Steps of the Pi load an image, or clear it.
LEMMA PiPromise ==
  ASSUME Bootloader \/ ProgramEnds \/ PowerCycle, Accepting => accepted = {} /\ image \in offered
  PROVE  [Promise!Next]_(Promise!vars)
  <1>1. UNCHANGED <<upc, prog, offered>>
    BY DEF Bootloader, NotMain, HearSoh, HearSize, HearChecksum, SayNext, HearExpected, GetBinary, Verify, Branch,
           Die, Restart, Listen, ProgramEnds, PowerCycle, unix, history
  <1>2. CASE Accepting
    <2>1. Verify
      BY <1>2 DEF Accepting, Bootloader, NotMain, HearSoh, HearSize, HearChecksum, SayNext, HearExpected, GetBinary,
             Branch, Die, Restart, Listen, ProgramEnds, PowerCycle, Reset
    <2>2. accepted' = accepted \cup {image} /\ image' = image
      BY <1>2, <2>1 DEF Verify, Accepting
    <2>3. accepted' = {image} /\ accepted = {} /\ image \in offered
      BY <1>2, <2>2
    <2> QED BY <1>1, <1>2, <2>2, <2>3 DEF Accepting, Promise!Next, Promise!Accept
  <1>3. CASE ~Accepting
    <2>1. accepted' = accepted
      BY <1>3 DEF Accepting, Bootloader, NotMain, HearSoh, HearSize, HearChecksum, SayNext, HearExpected, GetBinary,
             Verify, Branch, Die, Restart, Listen, ProgramEnds, PowerCycle, unix, history
    <2>2. \/ ppc' \in {"settle", "running"} /\ ppc \in {"settle", "running"} /\ image' = image
          \/ ppc' \notin {"settle", "running"}
      BY <1>3 DEF Accepting, Bootloader, NotMain, HearSoh, HearSize, HearChecksum, SayNext, HearExpected, GetBinary,
             MoreToHear, Verify, Branch, Die, Restart, Listen, ProgramEnds, PowerCycle, Reset
    <2> QED BY <1>1, <2>1, <2>2 DEF Promise!Next, Promise!Unload, Promise!vars
  <1> QED BY <1>2, <1>3

\* In step, what the Pi accepts is the program of the session.
LEMMA CleanDecides ==
  ASSUME TypeInv, LockStep, Known, clean
  PROVE  /\ Believing => (SimpleBoot => accepted = {prog})
         /\ ppc = "verify" => accepted = {} /\ image \in offered
  <1>1. CASE Session
    <2>1. Believing => ~SimpleBoot
      <3>1. upc = "wDone" => p2u = <<>>
        BY <1>1 DEF Session, HeaderPhase, EchoPhase, BlockPhase, CheckPhase
      <3> QED BY <3>1 DEF Believing, SimpleBoot, PutNext, Expect, SendBinary, NoWordYet
    <2>2. ASSUME ppc = "verify" PROVE accepted = {} /\ image \in offered
      <3>1. CheckPhase
        BY <1>1, <2>2 DEF Session, HeaderPhase, EchoPhase, BlockPhase
      <3>2. image \in Seq(Word) /\ prog \in Seq(Word) /\ Len(image) = Len(prog)
        BY <3>1, ProgramAssumption DEF CheckPhase, TypeInv, TypeOK
      <3>3. image = prog
        BY <1>1, <3>2, SameWords DEF Session
      <3> QED BY <1>1, <3>1, <3>3 DEF Session, CheckPhase, Known
    <2> QED BY <2>1, <2>2
  <1>2. CASE DonePhase
    BY <1>2 DEF DonePhase
  <1> QED BY <1>1, <1>2 DEF LockStep

\* Every step of BootProtocol is one that BootSpec allows, in an undisturbed session
\* all of them, the upset that ends it included, and in any other all but the two
\* that rest on the checksum: what is left for it to see to is that the Pi does not
\* accept, and my-install does not believe, what is not of this session.
THEOREM CleanKeepsPromise ==
  Spec => Promise!Init /\ [][clean \/ ~(Accepting \/ Believing) => [Promise!Next]_(Promise!vars)]_vars
  <1>1. Init => Promise!Init /\ Known
    BY DEF Init, Promise!Init, Known, UnixBusy, UnixWaits
  <1>2. ASSUME TypeInv, LockStep, Known, Next, clean \/ ~(Accepting \/ Believing)
        PROVE  [Promise!Next]_(Promise!vars)
    <2>1. CASE \E p \in Program : Start(p)
      <3>1. PICK p \in Program : Start(p)
        BY <2>1
      <3>2. /\ upc \in UnixOver /\ upc' = "soh" /\ prog' = p /\ offered' = offered \cup {p} /\ accepted' = {}
            /\ UNCHANGED <<ppc, image>>
        BY <3>1 DEF Start, pi
      <3> QED BY <3>2 DEF Promise!Next, Promise!Begin, UnixOver, UnixBusy, UnixWaits
    <2>2. CASE SimpleBoot \/ Timeout \/ Interrupt
      <3>1. Believing => SimpleBoot
        BY <2>2 DEF Timeout, Interrupt, Believing
      <3> QED BY <1>2, <2>2, <3>1, CleanDecides, UnixPromise
    <2>3. CASE Bootloader \/ ProgramEnds \/ PowerCycle
      BY <1>2, <2>3, CleanDecides, PiPromise DEF Accepting
    <2>4. CASE Unheard \/ Garble
      BY <2>4 DEF Unheard, Garble, Promise!vars, unix, pi, history
    <2> QED BY <1>2, <2>1, <2>2, <2>3, <2>4 DEF Next, Running, Upset
  <1>3. TypeInv /\ LockStep /\ Known /\ [Next]_vars =>
          [clean \/ ~(Accepting \/ Believing) => [Promise!Next]_(Promise!vars)]_vars
    BY <1>2
  <1> QED BY <1>1, <1>3, KnownStep, TypeCorrect, LockStepHolds, PTL DEF Spec

-----------------------------------------------------------------------------
(* What the words of the two sides can be, and what is left of a wire.      *)

LEMMA SuffixFacts ==
  ASSUME NEW W, NEW s \in Seq(W), NEW k \in 1..(Len(s) + 1)
  PROVE  /\ SubSeq(s, k, Len(s)) \in Seq(W)
         /\ Len(SubSeq(s, k, Len(s))) = Len(s) + 1 - k
         /\ \A i \in 1..(Len(s) + 1 - k) : SubSeq(s, k, Len(s))[i] = s[k + i - 1]
  <1>1. \A i \in k..Len(s) : s[i] \in W
    OBVIOUS
  <1> QED BY <1>1, SubSeqProperties

\* A stale tty holds the end of what was there, of at most StaleCap words.
LEMMA StaleFacts ==
  ASSUME TypeOK, p2u' \in StaleReplies
  PROVE  \E k \in 1..(Len(p2u) + 1) : p2u' = SubSeq(p2u, k, Len(p2u)) /\ Len(p2u) + 1 - k <= StaleCap
  BY DEF StaleReplies

\* No header word is an ACK.
LEMMA HeaderWordFacts ==
  ASSUME Telling
  PROVE  ACK \notin HeaderWord /\ NAK # ACK /\ Junk # ACK /\ 0 # ACK
  <1>1. \A p \in Program : Nbytes(p) # ACK
    <2> SUFFICES ASSUME NEW p \in Program, Nbytes(p) = 5 PROVE FALSE
      BY DEF ACK
    <2>1. Len(p) \in Nat
      BY ProgramAssumption
    <2> QED BY <2>1 DEF Nbytes
  <1>2. Junk # ACK
    BY NotJunk, ControlWords
  <1> QED BY <1>1, <1>2 DEF HeaderWord, Telling, ACK, NAK

\* The places and counts of the two programs.
LEMMA PlaceTypes ==
  ASSUME TypeOK
  PROVE  /\ Len(p2u) \in Nat /\ Len(u2p) \in Nat /\ Len(image) \in Nat /\ Len(prog) \in Nat
         /\ put \in Nat /\ put <= Len(prog) /\ n \in Nat
         /\ WordsRead \in 0..2 /\ EchoSaid \in 0..3
  <1>1. n \in Nat
    BY WordAssumption DEF TypeOK, Word
  <1> QED BY <1>1, CountTypes DEF WordsRead
-----------------------------------------------------------------------------
(* ACKs that are due.                                                      *)

LEMMA DueFinite ==
  ASSUME TypeOK, NEW k \in Nat
  PROVE  IsFiniteSet(DueFrom(k)) /\ Cardinality(DueFrom(k)) \in Nat
  <1>1. IsFiniteSet(k..Len(prog))
    BY PlaceTypes, FS_Interval
  <1>2. DueFrom(k) \subseteq k..Len(prog)
    BY DEF DueFrom
  <1> QED BY <1>1, <1>2, FS_Subset, FS_CardinalityType

\* One word on, there is one less to come if an ACK is due for this one.
LEMMA DueOneOn ==
  ASSUME TypeOK, NEW k \in Nat, k <= Len(prog)
  PROVE  Cardinality(DueFrom(k)) = Cardinality(DueFrom(k + 1)) + (IF DueAfter(k) THEN 1 ELSE 0)
  <1>1. Len(prog) \in Nat
    BY PlaceTypes
  <1>2. IsFiniteSet(DueFrom(k + 1)) /\ Cardinality(DueFrom(k + 1)) \in Nat
    BY DueFinite
  <1>3. CASE DueAfter(k)
    <2>1. DueFrom(k) = DueFrom(k + 1) \cup {k} /\ k \notin DueFrom(k + 1)
      BY <1>1, <1>3 DEF DueFrom
    <2> QED BY <1>2, <1>3, <2>1, FS_AddElement
  <1>4. CASE ~DueAfter(k)
    <2>1. DueFrom(k) = DueFrom(k + 1)
      <3>1. \A i : i \in k..Len(prog) /\ i # k <=> i \in (k + 1)..Len(prog)
        BY <1>1
      <3> QED BY <1>4, <3>1 DEF DueFrom
    <2> QED BY <1>2, <1>4, <2>1
  <1> QED BY <1>3, <1>4

\* Nothing is due behind the end, and something is at the end.
LEMMA DueEnds ==
  ASSUME TypeOK, NEW k \in Nat
  PROVE  /\ k > Len(prog) => Cardinality(DueFrom(k)) = 0
         /\ k <= Len(prog) => Cardinality(DueFrom(k)) >= 1
  <1>1. Len(prog) \in Nat
    BY PlaceTypes
  <1>2. ASSUME k > Len(prog) PROVE Cardinality(DueFrom(k)) = 0
    <2>1. DueFrom(k) = {}
      BY <1>1, <1>2 DEF DueFrom
    <2> QED BY <2>1, FS_EmptySet
  <1>3. ASSUME k <= Len(prog) PROVE Cardinality(DueFrom(k)) >= 1
    <2>1. DueAfter(Len(prog))
      <3>1. Size - 4 * Len(prog) = 0
        BY <1>1 DEF Size, Nbytes
      <3> QED BY <3>1, LayoutAssumption DEF DueAfter, AckDue
    <2>2. Len(prog) \in DueFrom(k)
      BY <1>1, <1>3, <2>1 DEF DueFrom
    <2>3. Cardinality(DueFrom(k)) # 0
      BY <2>2, DueFinite, FS_EmptySet
    <2> QED BY <2>3, DueFinite
  <1> QED BY <1>2, <1>3

LEMMA WantedType ==
  ASSUME TypeOK
  PROVE  Wanted \in Nat /\ StillDue \in Nat
  <1>1. put + 1 \in Nat /\ Len(image) + 1 \in Nat
    BY PlaceTypes
  <1>2. Cardinality(DueFrom(put + 1)) \in Nat /\ Cardinality(DueFrom(Len(image) + 1)) \in Nat
    BY <1>1, DueFinite
  <1> QED BY <1>2 DEF Wanted, StillDue

LEMMA SameDue ==
  ASSUME prog' = prog
  PROVE  \A k : DueFrom(k)' = DueFrom(k)
  BY SameProgram DEF DueFrom
-----------------------------------------------------------------------------
(* The parts of the invariant that follow one by one.                      *)

\* What my-install leaves alone, and what the Pi does.
LEMMA UnixLeaves ==
  ASSUME SimpleBoot \/ Timeout \/ Interrupt
  PROVE  /\ UNCHANGED <<prog, ppc, soh, n, checksum, image, accepted, offered>>
         /\ upc \in UnixBusy
  BY DEF SimpleBoot, PutNext, Expect, SendBinary, Timeout, Interrupt, pi, history, UnixBusy, UnixWaits

LEMMA PiLeaves ==
  ASSUME Bootloader \/ ProgramEnds \/ PowerCycle \/ Unheard
  PROVE  UNCHANGED <<upc, prog, put, offered>>
  BY DEF Bootloader, NotMain, HearSoh, HearSize, HearChecksum, SayNext, HearExpected, GetBinary, Verify, Branch,
         Die, Restart, Listen, ProgramEnds, PowerCycle, Unheard, unix, history

LEMMA AllPutStep ==
  ASSUME TypeInv, AllPut, Next
  PROVE  AllPut'
  <1> USE DEF AllPut
  <1>1. Len(prog) \in Nat /\ put \in Nat /\ put <= Len(prog)
    BY PlaceTypes DEF TypeInv
  <1>2. CASE SimpleBoot
    <2>1. CASE PutNext("soh", SOH, "n") \/ PutNext("n", Nbytes(prog), "ck") \/ PutNext("ck", Crc(prog, Nbytes(prog)), "wSoh")
      BY <2>1 DEF PutNext
    <2>2. CASE PutNext("ack", ACK, MoreToPut(0))
      BY <1>1, <2>2 DEF PutNext, MoreToPut, TypeInv, PutInv
    <2>3. CASE PutNext("eot", EOT, "wDone")
      BY <2>3 DEF PutNext
    <2>4. CASE SendBinary
      <3>1. put' = put + 1 /\ put' <= Len(prog) /\ prog' = prog
        BY <1>1, <2>4 DEF SendBinary, TypeInv, PutInv
      <3> QED BY <1>1, <2>4, <3>1 DEF SendBinary, MoreToPut
    <2>5. CASE Expect("wAck", ACK, MoreToPut(put))
      BY <1>1, <2>5 DEF Expect, MoreToPut
    <2>6. CASE \/ Expect("wSoh", SOH, "wN") \/ Expect("wN", Crc(<<Nbytes(prog)>>, 4), "wCk")
               \/ Expect("wCk", Crc(prog, Nbytes(prog)), "ack") \/ Expect("wDone", ACK, "ok")
      BY <2>6 DEF Expect
    <2> QED BY <1>2, <2>1, <2>2, <2>3, <2>4, <2>5, <2>6 DEF SimpleBoot
  <1>3. CASE Timeout \/ Interrupt
    BY <1>3 DEF Timeout, Interrupt
  <1>4. CASE Bootloader \/ ProgramEnds \/ PowerCycle \/ Unheard
    BY <1>4, PiLeaves
  <1>5. CASE Garble \/ \E p \in Program : Start(p)
    BY <1>5 DEF Garble, Start, unix
  <1> QED BY <1>2, <1>3, <1>4, <1>5 DEF Next, Running, Upset

LEMMA ImageLengthStep ==
  ASSUME TypeInv, ImageFresh, ImageLength, Next
  PROVE  ImageLength'
  <1> USE DEF ImageLength
  <1>1. n \in Nat /\ Len(image) \in Nat /\ image \in Seq(Word)
    BY PlaceTypes DEF TypeInv, TypeOK
  <1>2. CASE SimpleBoot \/ Timeout \/ Interrupt
    BY <1>2, UnixLeaves
  <1>3. CASE HearSoh \/ HearSize \/ HearChecksum
    BY <1>3 DEF HearSoh, HearSize, HearChecksum
  <1>4. CASE \/ SayNext("sSoh", soh, "sN") \/ SayNext("sN", Crc(<<n>>, 4), "sCk")
             \/ SayNext("sCk", checksum, "gAck")
    BY <1>4 DEF SayNext
  <1>5. CASE HearExpected("gAck", ACK, MoreToHear(0))
    <2>1. image = <<>> /\ Len(image) = 0
      BY <1>5 DEF HearExpected, ImageFresh
    <2> QED BY <1>1, <1>5, <2>1 DEF HearExpected, MoreToHear
  <1>6. CASE GetBinary
    <2>1. PICK w \in Word : Hear(w) /\ image' = Append(image, w)
      BY <1>6 DEF GetBinary
    <2>2. Len(image') = Len(image) + 1
      BY <1>1, <2>1, AppendFacts
    <2> QED BY <1>1, <1>6, <2>2 DEF GetBinary, MoreToHear
  <1>7. CASE SayNext("sAck", ACK, MoreToHear(Len(image)))
    BY <1>1, <1>7 DEF SayNext, MoreToHear
  <1>8. CASE HearExpected("gEot", EOT, "verify")
    BY <1>8 DEF HearExpected
  <1>9. CASE Verify \/ Branch \/ Restart \/ Listen
    BY <1>9 DEF Verify, Branch, Restart, Listen
  <1>10. CASE Die \/ ProgramEnds \/ PowerCycle
    BY <1>10 DEF Die, ProgramEnds, PowerCycle, Reset
  <1>11. CASE Unheard \/ Garble \/ \E p \in Program : Start(p)
    BY <1>11 DEF Unheard, Garble, Start, pi
  <1> QED BY <1>2, <1>3, <1>4, <1>5, <1>6, <1>7, <1>8, <1>9, <1>10, <1>11
      DEF Next, Running, Bootloader, NotMain, Upset

LEMMA AcceptedOnceStep ==
  ASSUME TypeInv, AcceptedOnce, Next
  PROVE  AcceptedOnce'
  <1> USE DEF AcceptedOnce
  <1>1. CASE SimpleBoot
    <2>1. ~(u2p = <<>> /\ UnixQuiet)
      BY <1>1 DEF SimpleBoot, PutNext, Expect, SendBinary, UnixQuiet, UnixOver, UnixWaits
    <2> QED BY <1>1, <2>1, UnixLeaves
  <1>2. CASE Timeout \/ Interrupt
    BY <1>2 DEF Timeout, Interrupt, UnixQuiet, UnixOver, pi, wires, history
  <1>3. CASE \E p \in Program : Start(p)
    BY <1>3 DEF Start
  <1>4. CASE NotMain
    <2>1. ~Verify => accepted' = accepted
      BY <1>4 DEF NotMain, HearSoh, HearSize, HearChecksum, SayNext, HearExpected, GetBinary, Verify, history
    <2>2. accepted = {}
      BY <1>4 DEF NotMain, HearSoh, HearSize, HearChecksum, SayNext, HearExpected, GetBinary, Verify, Hear
    <2>3. CASE Verify
      BY <2>2, <2>3 DEF Verify
    <2> QED BY <2>1, <2>2, <2>3
  <1>5. CASE Branch \/ Die \/ ProgramEnds \/ PowerCycle
    BY <1>5 DEF Branch, Die, ProgramEnds, PowerCycle, Reset, unix, wires, history
  <1>6. CASE Restart \/ Listen
    BY <1>6 DEF Restart, Listen, unix, wires, history, UnixQuiet, NoWordYet
  <1>7. CASE Unheard
    <2>1. u2p # <<>> /\ UNCHANGED <<ppc, accepted>>
      BY <1>7 DEF Unheard, pi, history
    <2> QED BY <2>1
  <1>8. CASE Garble
    <2>1. UNCHANGED <<upc, ppc, accepted>> /\ (u2p = <<>> => u2p' = <<>>)
      BY <1>8 DEF Garble, GarbleHead, unix, pi
    <2>2. NoWordYet => NoWordYet'
      BY <1>8 DEF Garble, GarbleHead, NoWordYet
    <2> QED BY <2>1, <2>2 DEF UnixQuiet
  <1> QED BY <1>1, <1>2, <1>3, <1>4, <1>5, <1>6, <1>7, <1>8 DEF Next, Running, Bootloader, Upset

\* What is left of the way back still ends with the echo.
LEMMA EchoLastSuffix ==
  ASSUME TypeOK, EchoLast, NEW k \in 1..(Len(p2u) + 1), p2u' = SubSeq(p2u, k, Len(p2u)),
         UNCHANGED <<ppc, soh, n, checksum>>
  PROVE  EchoLast'
  <1>1. p2u \in Seq(Word \cup {Junk}) /\ Len(p2u) \in Nat
    BY PlaceTypes DEF TypeOK
  <1>2. /\ Len(p2u') = Len(p2u) + 1 - k
        /\ \A i \in 1..(Len(p2u) + 1 - k) : p2u'[i] = p2u[k + i - 1]
    BY <1>1, SuffixFacts
  <1>3. Echo' = Echo /\ EchoSaid' = EchoSaid
    BY DEF Echo, EchoSaid
  <1> SUFFICES ASSUME ppc \in PiEcho, NEW i \in 1..3, i <= Len(p2u'), i <= EchoSaid
               PROVE  p2u'[Len(p2u') + 1 - i] = Echo[EchoSaid + 1 - i]
    BY <1>3 DEF EchoLast
  <1>4. Len(p2u') + 1 - i \in 1..(Len(p2u) + 1 - k) /\ k + (Len(p2u') + 1 - i) - 1 = Len(p2u) + 1 - i
    BY <1>1, <1>2
  <1>5. i <= Len(p2u)
    BY <1>1, <1>2
  <1> QED BY <1>2, <1>4, <1>5 DEF EchoLast

LEMMA TailIsSuffix ==
  ASSUME TypeOK, p2u # <<>>
  PROVE  /\ 2 \in 1..(Len(p2u) + 1) /\ Tail(p2u) = SubSeq(p2u, 2, Len(p2u))
  <1>1. p2u \in Seq(Word \cup {Junk}) /\ Len(p2u) \in Nat /\ Len(p2u) >= 1
    BY TailFacts DEF TypeOK
  <1>2. /\ Tail(p2u) \in Seq(Word \cup {Junk}) /\ Len(Tail(p2u)) = Len(p2u) - 1
        /\ \A i \in 1..Len(Tail(p2u)) : Tail(p2u)[i] = p2u[i + 1]
    BY <1>1, TailFacts, TailType
  <1>3. /\ SubSeq(p2u, 2, Len(p2u)) \in Seq(Word \cup {Junk}) /\ Len(SubSeq(p2u, 2, Len(p2u))) = Len(p2u) - 1
        /\ \A i \in 1..(Len(p2u) - 1) : SubSeq(p2u, 2, Len(p2u))[i] = p2u[i + 1]
    <2>1. 2 \in 1..(Len(p2u) + 1) /\ Len(p2u) + 1 - 2 = Len(p2u) - 1
      BY <1>1
    <2>2. \A i \in 1..(Len(p2u) - 1) : 2 + i - 1 = i + 1
      BY <1>1
    <2>3. /\ SubSeq(p2u, 2, Len(p2u)) \in Seq(Word \cup {Junk})
          /\ Len(SubSeq(p2u, 2, Len(p2u))) = Len(p2u) + 1 - 2
          /\ \A i \in 1..(Len(p2u) + 1 - 2) : SubSeq(p2u, 2, Len(p2u))[i] = p2u[2 + i - 1]
      BY <1>1, <2>1, SuffixFacts
    <2> QED BY <2>1, <2>2, <2>3
  <1> QED BY <1>1, <1>2, <1>3, SameWords

\* The next word of the echo comes last.
LEMMA EchoLastSay ==
  ASSUME TypeOK, EchoLast, NEW w \in Word, p2u' = Append(p2u, w), EchoSaid' = EchoSaid + 1,
         ppc \in PiEcho, w = Echo[EchoSaid + 1], UNCHANGED <<soh, n, checksum>>
  PROVE  EchoLast'
  <1>1. p2u \in Seq(Word \cup {Junk}) /\ Len(p2u) \in Nat /\ EchoSaid \in 0..3
    BY PlaceTypes DEF TypeOK
  <1>2. /\ Len(p2u') = Len(p2u) + 1 /\ p2u'[Len(p2u) + 1] = w
        /\ \A i \in 1..Len(p2u) : p2u'[i] = p2u[i]
    BY <1>1, AppendFacts
  <1>3. Echo' = Echo
    BY DEF Echo
  <1> SUFFICES ASSUME NEW i \in 1..3, i <= Len(p2u) + 1, i <= EchoSaid + 1
               PROVE  p2u'[(Len(p2u) + 1) + 1 - i] = Echo[(EchoSaid + 1) + 1 - i]
    BY <1>2, <1>3 DEF EchoLast
  <1>4. CASE i = 1
    <2>1. (Len(p2u) + 1) + 1 - i = Len(p2u) + 1 /\ (EchoSaid + 1) + 1 - i = EchoSaid + 1
      BY <1>1, <1>4
    <2> QED BY <1>2, <2>1
  <1>5. CASE i # 1
    <2>1. i - 1 \in 1..3 /\ i - 1 <= Len(p2u) /\ i - 1 <= EchoSaid
      BY <1>1, <1>5
    <2>2. Len(p2u) + 1 - (i - 1) \in 1..Len(p2u)
      BY <1>1, <2>1
    <2>3. p2u[Len(p2u) + 1 - (i - 1)] = Echo[EchoSaid + 1 - (i - 1)]
      BY <2>1 DEF EchoLast
    <2>4. (Len(p2u) + 1) + 1 - i = Len(p2u) + 1 - (i - 1) /\ (EchoSaid + 1) + 1 - i = EchoSaid + 1 - (i - 1)
      BY <1>1
    <2> QED BY <1>2, <2>2, <2>3, <2>4
  <1> QED BY <1>4, <1>5

LEMMA EchoWordTypes ==
  ASSUME TypeOK
  PROVE  soh \in Word /\ Crc(<<n>>, 4) \in Word /\ checksum \in Word
  BY CrcAssumption DEF TypeOK

LEMMA EchoLastStep ==
  ASSUME TypeInv, EchoLast, Next, ~Garble
  PROVE  EchoLast'
  <1>0. TypeOK
    BY DEF TypeInv
  <1>1. CASE UNCHANGED <<p2u, ppc, soh, n, checksum>>
    BY <1>1 DEF EchoLast, EchoSaid, Echo
  <1>2. CASE SimpleBoot
    <2>1. CASE UNCHANGED p2u
      BY <1>1, <1>2, <2>1, UnixLeaves
    <2>2. CASE p2u # <<>> /\ p2u' = Tail(p2u)
      BY <1>0, <1>2, <2>2, UnixLeaves, TailIsSuffix, EchoLastSuffix
    <2> QED BY <1>2, <2>1, <2>2 DEF SimpleBoot, PutNext, Expect, SendBinary, NoWordYet
  <1>3. CASE Timeout \/ Interrupt \/ Unheard
    BY <1>1, <1>3 DEF Timeout, Interrupt, Unheard, pi, wires
  <1>4. CASE \E p \in Program : Start(p)
    <2>1. p2u' \in StaleReplies /\ UNCHANGED <<ppc, soh, n, checksum>>
      BY <1>4 DEF Start, pi
    <2> QED BY <1>0, <2>1, StaleFacts, EchoLastSuffix
  <1>5. CASE HearSoh \/ HearSize
    BY <1>5 DEF HearSoh, HearSize, EchoLast, PiEcho
  <1>6. CASE HearChecksum
    <2>1. EchoSaid' = 0 \/ ppc' \notin PiEcho
      BY <1>6 DEF HearChecksum, EchoSaid, PiEcho
    <2> QED BY <2>1 DEF EchoLast
  <1>7. CASE SayNext("sSoh", soh, "sN")
    <2>1. /\ ppc = "sSoh" /\ EchoSaid' = EchoSaid + 1 /\ p2u' = Append(p2u, soh) /\ UNCHANGED <<soh, n, checksum>>
          /\ soh = Echo[EchoSaid + 1]
      BY <1>7 DEF SayNext, Say, EchoSaid, Echo
    <2> QED BY <1>0, <2>1, EchoLastSay, EchoWordTypes DEF PiEcho
  <1>8. CASE SayNext("sN", Crc(<<n>>, 4), "sCk")
    <2>1. /\ ppc = "sN" /\ EchoSaid' = EchoSaid + 1 /\ p2u' = Append(p2u, Crc(<<n>>, 4)) /\ UNCHANGED <<soh, n, checksum>>
          /\ Crc(<<n>>, 4) = Echo[EchoSaid + 1]
      BY <1>8 DEF SayNext, Say, EchoSaid, Echo
    <2> QED BY <1>0, <2>1, EchoLastSay, EchoWordTypes DEF PiEcho
  <1>9. CASE SayNext("sCk", checksum, "gAck")
    <2>1. /\ ppc = "sCk" /\ EchoSaid' = EchoSaid + 1 /\ p2u' = Append(p2u, checksum) /\ UNCHANGED <<soh, n, checksum>>
          /\ checksum = Echo[EchoSaid + 1]
      BY <1>9 DEF SayNext, Say, EchoSaid, Echo
    <2> QED BY <1>0, <2>1, EchoLastSay, EchoWordTypes DEF PiEcho
  <1>10. CASE \/ HearExpected("gAck", ACK, MoreToHear(0)) \/ GetBinary
              \/ SayNext("sAck", ACK, MoreToHear(Len(image)))
    <2>1. ppc' \notin PiEcho
      BY <1>10, MoreToHearCases DEF HearExpected, GetBinary, SayNext, PiEcho
    <2> QED BY <2>1 DEF EchoLast
  <1>11. CASE \/ HearExpected("gEot", EOT, "verify") \/ Verify \/ Branch \/ Die \/ ProgramEnds \/ PowerCycle
              \/ Restart \/ Listen
    <2>1. ppc' \notin PiEcho
      BY <1>11 DEF HearExpected, Verify, Branch, Die, ProgramEnds, PowerCycle, Restart, Listen, Reset, PiEcho
    <2> QED BY <2>1 DEF EchoLast
  <1> QED BY <1>2, <1>3, <1>4, <1>5, <1>6, <1>7, <1>8, <1>9, <1>10, <1>11
      DEF Next, Running, Bootloader, NotMain, Upset

\* Words of a wire that all are of one set stay so, with one more, one less.
LEMMA HeaderHearsStep ==
  ASSUME TypeInv, HeaderHears, Replying, Telling, Next, ~Garble
  PROVE  HeaderHears'
  <1> DEFINE AtHeader == ppc \in PiHeader \cup {"delay"} \/ upc \in UnixHeader
  <1> DEFINE Known0 == \A i \in 1..Len(u2p) : u2p[i] \in HeaderWord
  <1>0. u2p \in Seq(Word) /\ prog \in Program
    BY DEF TypeInv, TypeOK
  <1>1. ASSUME Known0, NEW w \in HeaderWord, u2p' = Append(u2p, w) PROVE Known0'
    <2>1. Len(u2p') = Len(u2p) + 1 /\ u2p'[Len(u2p) + 1] = w /\ (\A i \in 1..Len(u2p) : u2p'[i] = u2p[i]) /\ Len(u2p) \in Nat
      <3>1. w \in Word
        BY WordAssumption, ControlWords, ProgramAssumption DEF HeaderWord
      <3> QED BY <1>0, <1>1, <3>1, AppendFacts
    <2>2. HeaderWord' = HeaderWord
      BY DEF HeaderWord
    <2> QED BY <1>1, <2>1, <2>2
  <1>2. ASSUME Known0, u2p # <<>>, u2p' = Tail(u2p) PROVE Known0'
    <2>1. Len(u2p') = Len(u2p) - 1 /\ (\A i \in 1..Len(u2p') : u2p'[i] = u2p[i + 1]) /\ Len(u2p) \in Nat
      BY <1>0, <1>2, TailFacts
    <2> QED BY <1>2, <2>1 DEF HeaderWord
  <1>3. ASSUME u2p' = <<>> PROVE Known0'
    BY <1>3
  <1>4. ASSUME Known0, u2p' = u2p PROVE Known0'
    BY <1>4 DEF HeaderWord
  <1>5. /\ SOH \in HeaderWord /\ NAK \in HeaderWord /\ Nbytes(prog) \in HeaderWord
        /\ Crc(prog, Nbytes(prog)) \in HeaderWord
    BY <1>0 DEF HeaderWord
  <1>6. AtHeader => Known0
    BY DEF HeaderHears
  <1>7. upc \in UnixReplies /\ ppc \in PiHeader \cup {"delay"} => Deadlocked
    BY DEF Replying, PiHeader
  <1>8. CASE SimpleBoot
    <2>0. checksum' = checksum /\ ppc' = ppc
      BY <1>8, UnixLeaves
    <2> SUFFICES ASSUME AtHeader' PROVE Known0'
      BY <2>0 DEF HeaderHears
    <2>1. CASE PutNext("soh", SOH, "n") \/ PutNext("n", Nbytes(prog), "ck") \/ PutNext("ck", Crc(prog, Nbytes(prog)), "wSoh")
      BY <1>1, <1>5, <1>6, <2>1 DEF PutNext, Put, UnixHeader
    <2>2. CASE PutNext("ack", ACK, MoreToPut(0)) \/ SendBinary \/ PutNext("eot", EOT, "wDone")
      <3>1. upc \in UnixReplies /\ upc \notin UnixWaits /\ upc' \notin UnixHeader
        BY <2>2, MoreToPutCases DEF PutNext, SendBinary, UnixReplies, UnixWaits, UnixHeader
      <3>2. FALSE
        BY <1>7, <2>0, <3>1 DEF Deadlocked
      <3> QED BY <3>2
    <2>3. CASE \/ Expect("wSoh", SOH, "wN") \/ Expect("wN", Crc(<<Nbytes(prog)>>, 4), "wCk")
               \/ Expect("wCk", Crc(prog, Nbytes(prog)), "ack")
      BY <1>1, <1>4, <1>5, <1>6, <2>3 DEF Expect, Put, UnixHeader
    <2>4. CASE Expect("wAck", ACK, MoreToPut(put)) \/ Expect("wDone", ACK, "ok")
      <3>1. upc \in UnixReplies /\ ~NoWordYet /\ upc' \notin UnixHeader
        BY <2>4, MoreToPutCases DEF Expect, UnixReplies, UnixHeader
      <3>2. FALSE
        BY <1>7, <2>0, <3>1 DEF Deadlocked
      <3> QED BY <3>2
    <2> QED BY <1>8, <2>1, <2>2, <2>3, <2>4 DEF SimpleBoot
  <1>9. CASE Timeout \/ Interrupt
    <2>1. u2p' = u2p /\ upc' = "failed"
      BY <1>9 DEF Timeout, Interrupt, wires
    <2> QED BY <1>4, <1>6, <1>9, <2>1, UnixLeaves DEF HeaderHears, UnixHeader
  <1>10. CASE \E p \in Program : Start(p)
    <2>1. u2p' = <<>> /\ checksum' = checksum
      BY <1>10 DEF Start, pi
    <2> QED BY <2>1 DEF HeaderHears
  <1>11. CASE HearSoh \/ HearSize
    <2>1. u2p # <<>> /\ u2p' = Tail(u2p) /\ ppc \in PiHeader /\ checksum' = checksum
      BY <1>11 DEF HearSoh, HearSize, Hear, PiHeader
    <2> QED BY <1>2, <1>6, <2>1 DEF HeaderHears
  <1>12. CASE HearChecksum
    <2>1. u2p # <<>> /\ u2p' = Tail(u2p) /\ ppc \in PiHeader /\ checksum' = Head(u2p)
      BY <1>12 DEF HearChecksum, Hear, PiHeader
    <2>2. checksum' \in HeaderWord
      BY <1>0, <1>6, <2>1, TailFacts
    <2> QED BY <1>2, <1>6, <2>1, <2>2, HeaderWordFacts DEF HeaderHears
  <1>13. CASE \/ SayNext("sSoh", soh, "sN") \/ SayNext("sN", Crc(<<n>>, 4), "sCk")
              \/ SayNext("sCk", checksum, "gAck") \/ SayNext("sAck", ACK, MoreToHear(Len(image)))
              \/ Verify \/ Branch
    <2>1. u2p' = u2p /\ ppc' \notin PiHeader \cup {"delay"} /\ UNCHANGED <<upc, checksum>>
      BY <1>13, MoreToHearCases DEF SayNext, Verify, Branch, PiHeader, unix, wires
    <2> QED BY <1>4, <1>6, <2>1 DEF HeaderHears
  <1>14. CASE \/ HearExpected("gAck", ACK, MoreToHear(0)) \/ GetBinary \/ HearExpected("gEot", EOT, "verify")
    <2>1. u2p # <<>> /\ u2p' = Tail(u2p) /\ ppc' \notin PiHeader \cup {"delay"} /\ UNCHANGED <<upc, checksum>>
      BY <1>14, MoreToHearCases DEF HearExpected, GetBinary, Hear, PiHeader, unix
    <2> QED BY <1>2, <1>6, <2>1 DEF HeaderHears
  <1>15. CASE Die \/ ProgramEnds \/ PowerCycle
    <2>1. u2p' = u2p /\ ppc' = "down" /\ upc' = upc /\ checksum' = 0
      BY <1>15 DEF Die, ProgramEnds, PowerCycle, Reset, unix, wires
    <2> QED BY <1>4, <1>6, <2>1, HeaderWordFacts DEF HeaderHears, PiHeader
  <1>16. CASE Restart
    BY <1>16 DEF Restart, HeaderHears, wires
  <1>17. CASE Listen
    <2>1. u2p' = u2p /\ ppc = "delay" /\ UNCHANGED <<upc, checksum>>
      BY <1>17 DEF Listen, wires, unix
    <2> QED BY <1>4, <1>6, <2>1 DEF HeaderHears
  <1>18. CASE Unheard
    <2>1. u2p # <<>> /\ u2p' = Tail(u2p) /\ UNCHANGED <<upc, ppc, checksum>>
      BY <1>18 DEF Unheard, unix, pi
    <2> QED BY <1>2, <1>6, <2>1 DEF HeaderHears
  <1> QED BY <1>8, <1>9, <1>10, <1>11, <1>12, <1>13, <1>14, <1>15, <1>16, <1>17, <1>18
      DEF Next, Running, Bootloader, NotMain, Upset
-----------------------------------------------------------------------------
(* While my-install reads the echo.                                        *)

\* However a Pi dies, it leaves no more than its echo and one word of it that
\* is no ACK.
LEMMA AnyLeaves ==
  ASSUME TypeInv, EchoLast, HeaderHears, Reading, StaleCap <= 2, upc \in UnixHeader
  PROVE  LeftOver
  <1>1. /\ Len(p2u) \in Nat /\ WordsRead \in 0..2 /\ EchoSaid \in 0..3 /\ StaleCap \in Nat
        /\ ToThird = 3 - WordsRead /\ p2u \in Seq(Word \cup {Junk})
    BY PlaceTypes, BoundAssumption DEF ToThird, TypeInv, TypeOK
  <1>2. CASE Deadlocked
    <2>1. Len(p2u) <= 2
      BY <1>2 DEF Deadlocked, NoWordYet
    <2> QED BY <1>1, <2>1 DEF LeftOver
  <1>3. CASE FreshEcho
    <2>1. Len(p2u) <= (IF ppc \in PiEcho THEN EchoSaid ELSE 0) + 2 - WordsRead
      BY <1>1, <1>3 DEF FreshEcho
    <2>2. CASE Len(p2u) <= ToThird + 1
      BY <2>2 DEF LeftOver
    <2>3. CASE Len(p2u) > ToThird + 1
      <3>1. ppc \in PiEcho /\ EchoSaid = 3 /\ Len(p2u) = ToThird + 2
        BY <1>1, <2>1, <2>3
      <3>2. p2u[Len(p2u) + 1 - 1] = Echo[EchoSaid + 1 - 1]
        BY <1>1, <3>1 DEF EchoLast
      <3>3. p2u[ToThird + 2] = checksum
        BY <1>1, <3>1, <3>2 DEF Echo
      <3> QED BY <1>1, <3>1, <3>3 DEF LeftOver, HeaderHears
    <2> QED BY <1>1, <2>2, <2>3
  <1>4. CASE NoEcho
    BY <1>1, <1>4 DEF NoEcho, LeftOver
  <1>5. CASE DeadEcho
    BY <1>5 DEF DeadEcho
  <1> QED BY <1>2, <1>3, <1>4, <1>5 DEF Reading

\* A word that is none of the echo does not disturb that.
LEMMA LeftOverAppend ==
  ASSUME NEW W, p2u \in Seq(W), NEW w \in W, w \in {NAK, Junk}, LeftOver, Telling,
         p2u' = Append(p2u, w), UNCHANGED upc
  PROVE  LeftOver'
  <1>1. ToThird' = ToThird /\ ToThird \in 1..3
    BY DEF ToThird, WordsRead
  <1>2. /\ Len(p2u') = Len(p2u) + 1 /\ p2u'[Len(p2u) + 1] = w /\ Len(p2u) \in Nat
        /\ \A i \in 1..Len(p2u) : p2u'[i] = p2u[i]
    BY AppendFacts
  <1>3. w # ACK /\ w \in {ACK, NAK, Junk}
    BY HeaderWordFacts
  <1>4. CASE Len(p2u) <= ToThird + 1
    <2>1. CASE Len(p2u) <= ToThird
      BY <1>1, <1>2, <2>1 DEF LeftOver
    <2>2. CASE Len(p2u) = ToThird + 1
      BY <1>1, <1>2, <1>3, <2>2 DEF LeftOver
    <2> QED BY <1>1, <1>2, <1>4, <2>1, <2>2
  <1>5. CASE Len(p2u) > ToThird + 1
    <2>1. p2u'[ToThird] = p2u[ToThird] /\ p2u'[ToThird + 1] = p2u[ToThird + 1]
          /\ p2u'[ToThird + 2] = p2u[ToThird + 2] /\ Len(p2u') >= ToThird + 2
      BY <1>1, <1>2, <1>5
    <2> QED BY <1>1, <1>5, <2>1 DEF LeftOver
  <1> QED BY <1>1, <1>2, <1>4, <1>5

LEMMA ReadingSame ==
  ASSUME UNCHANGED <<upc, prog, p2u, soh, n, checksum>>
  PROVE  /\ Echo' = Echo /\ EchoWords' = EchoWords /\ WordsRead' = WordsRead /\ ToThird' = ToThird
         /\ LeftOver' = LeftOver /\ NoWordYet' = NoWordYet
  BY SameProgram DEF Echo, WordsRead, ToThird, LeftOver, NoWordYet

\* my-install puts a word of its header.
LEMMA ReadingPut ==
  ASSUME Reading, UNCHANGED <<prog, p2u, ppc, soh, n, checksum>>,
         upc \in {"soh", "n", "ck"}, upc' \in {"n", "ck", "wSoh"}
  PROVE  Reading'
  <1>1. WordsRead = 0 /\ WordsRead' = 0 /\ ToThird' = ToThird /\ EchoSaid' = EchoSaid
    BY DEF WordsRead, ToThird, EchoSaid
  <1>2. ~Deadlocked
    BY DEF Deadlocked, UnixWaits
  <1>3. FreshEcho => FreshEcho'
    BY <1>1 DEF FreshEcho
  <1>4. NoEcho => NoEcho'
    BY <1>1 DEF NoEcho
  <1>5. DeadEcho => DeadEcho'
    BY <1>1 DEF DeadEcho, LeftOver
  <1> QED BY <1>2, <1>3, <1>4, <1>5 DEF Reading, UnixHeader

\* my-install reads a word of the echo, not the last one.
LEMMA ReadingRead ==
  ASSUME TypeInv, EchoLast, Reading, UNCHANGED <<prog, ppc, soh, n, checksum>>, ~NoWordYet, p2u' = Tail(p2u),
         upc \in UnixHeader, upc' \in {"wN", "wCk"}, WordsRead' = WordsRead + 1, Head(p2u) = EchoWords[WordsRead + 1]
  PROVE  Reading'
  <1>1. /\ Len(p2u) \in Nat /\ WordsRead \in 0..1 /\ EchoSaid \in 0..3 /\ StaleCap \in Nat
        /\ ToThird = 3 - WordsRead /\ ToThird' = ToThird - 1 /\ p2u \in Seq(Word \cup {Junk}) /\ p2u # <<>>
        /\ EchoSaid' = EchoSaid /\ Echo' = Echo /\ EchoWords' = EchoWords
    <2>1. WordsRead \in 0..1
      BY DEF WordsRead
    <2> QED BY <2>1, PlaceTypes, BoundAssumption, SameProgram
            DEF ToThird, TypeInv, TypeOK, NoWordYet, EchoSaid, Echo
  <1>2. /\ Len(p2u) >= 1 /\ Len(p2u') = Len(p2u) - 1 /\ Head(p2u) = p2u[1]
        /\ \A i \in 1..Len(p2u') : p2u'[i] = p2u[i + 1]
    BY <1>1, TailFacts
  <1>3. ~Deadlocked
    BY DEF Deadlocked
  <1>4. ASSUME FreshEcho PROVE FreshEcho'
    <2>1. Len(p2u') <= (IF ppc \in PiEcho THEN EchoSaid ELSE 0) + StaleCap - (WordsRead + 1)
      BY <1>1, <1>2, <1>4 DEF FreshEcho
    <2>2. ASSUME ppc \in PiEcho, Len(p2u') < EchoSaid
          PROVE  Echo[EchoSaid - Len(p2u')] = EchoWords[WordsRead + 1]
      <3>1. Len(p2u) \in 1..3 /\ Len(p2u) <= EchoSaid
        BY <1>1, <1>2, <2>2
      <3>2. p2u[Len(p2u) + 1 - Len(p2u)] = Echo[EchoSaid + 1 - Len(p2u)]
        BY <1>1, <2>2, <3>1 DEF EchoLast
      <3>3. Len(p2u) + 1 - Len(p2u) = 1 /\ EchoSaid + 1 - Len(p2u) = EchoSaid - Len(p2u')
        BY <1>1, <1>2
      <3> QED BY <1>2, <3>2, <3>3
    <2> QED BY <1>1, <1>4, <2>1, <2>2 DEF FreshEcho
  <1>5. ASSUME NoEcho PROVE NoEcho'
    BY <1>1, <1>2, <1>5 DEF NoEcho
  <1>6. ASSUME DeadEcho PROVE DeadEcho'
    <2>1. CASE Len(p2u) <= ToThird + 1
      BY <1>1, <1>2, <1>6, <2>1 DEF DeadEcho, LeftOver
    <2>2. CASE Len(p2u) > ToThird + 1
      <3>1. p2u'[ToThird - 1] = p2u[ToThird] /\ p2u'[ToThird] = p2u[ToThird + 1]
        BY <1>1, <1>2, <2>2
      <3>2. p2u'[ToThird + 1] = p2u[ToThird + 2]
        BY <1>1, <1>2, <2>2
      <3> QED BY <1>1, <1>2, <1>6, <2>2, <3>1, <3>2 DEF DeadEcho, LeftOver
    <2> QED BY <1>1, <2>1, <2>2
  <1> QED BY <1>3, <1>4, <1>5, <1>6 DEF Reading

\* A new run of my-install meets the Pi anywhere.
LEMMA ReadingStart ==
  ASSUME TypeInv, StaleCap <= 2, NEW p \in Program, Start(p)
  PROVE  Reading'
  <1>1. /\ upc' = "soh" /\ WordsRead' = 0 /\ ToThird' = 3 /\ ppc' = ppc /\ EchoSaid' = EchoSaid
        /\ EchoSaid \in 0..3 /\ StaleCap \in Nat
    BY PlaceTypes, BoundAssumption DEF Start, WordsRead, ToThird, pi, EchoSaid, TypeInv
  <1>2. Len(p2u') \in Nat /\ Len(p2u') <= StaleCap
    <2>1. PICK k \in 1..(Len(p2u) + 1) : p2u' = SubSeq(p2u, k, Len(p2u)) /\ Len(p2u) + 1 - k <= StaleCap
      BY StaleFacts DEF Start, TypeInv
    <2>2. p2u \in Seq(Word \cup {Junk}) /\ Len(p2u) \in Nat
      BY PlaceTypes DEF TypeInv, TypeOK
    <2>3. Len(p2u') = Len(p2u) + 1 - k
      BY <2>1, <2>2, SuffixFacts
    <2> QED BY <2>1, <2>2, <2>3
  <1>3. CASE ppc \in PiHeader \cup PiEcho \cup {"delay"}
    <2>1. FreshEcho'
      BY <1>1, <1>2, <1>3 DEF FreshEcho
    <2> QED BY <2>1 DEF Reading
  <1>4. CASE ppc \in PiBlocks
    <2>1. NoEcho'
      BY <1>1, <1>2, <1>4 DEF NoEcho
    <2> QED BY <2>1 DEF Reading
  <1>5. CASE ppc \in {"die", "down"}
    <2>1. DeadEcho'
      BY <1>1, <1>2, <1>5 DEF DeadEcho, LeftOver
    <2> QED BY <2>1 DEF Reading
  <1>6. ppc \in PiHeader \cup PiEcho \cup {"delay"} \cup PiBlocks \cup {"die", "down"}
    BY DEF TypeInv, TypeOK, PiHears, PiDeaf, PiHeader, PiEcho, PiBlocks
  <1> QED BY <1>3, <1>4, <1>5, <1>6

\* A step of the Pi that leaves the way back alone.
LEMMA ReadingEchoKeeps ==
  ASSUME TypeInv, FreshEcho, UNCHANGED <<upc, prog, p2u>>, ppc \in PiHeader \cup {"delay"},
         ppc' \in PiHeader \cup {"sSoh"}
  PROVE  FreshEcho'
  <1>1. /\ Len(p2u) \in Nat /\ WordsRead \in 0..2 /\ WordsRead' = WordsRead /\ StaleCap \in Nat
        /\ ppc \notin PiEcho /\ (ppc' \in PiEcho => EchoSaid' = 0)
    BY PlaceTypes, BoundAssumption DEF TypeInv, WordsRead, EchoSaid, PiEcho, PiHeader
  <1> QED BY <1>1 DEF FreshEcho, PiHeader, PiEcho

LEMMA ReadingEchoSay ==
  ASSUME TypeInv, EchoLast, FreshEcho, ppc \in PiEcho, ppc' \in PiEcho, EchoSaid' = EchoSaid + 1,
         NEW w \in Word, Say(w), UNCHANGED <<upc, prog, soh, n, checksum>>
  PROVE  FreshEcho'
  <1>1. /\ p2u \in Seq(Word \cup {Junk}) /\ WordsRead \in 0..2 /\ WordsRead' = WordsRead /\ StaleCap \in Nat
        /\ EchoSaid \in 0..3 /\ Echo' = Echo /\ EchoWords' = EchoWords
    BY PlaceTypes, BoundAssumption, SameProgram DEF TypeInv, TypeOK, WordsRead, Echo
  <1>2. Len(p2u') = Len(p2u) + 1 /\ Len(p2u) \in Nat
    BY <1>1, AppendFacts DEF Say
  <1>3. EchoSaid' - Len(p2u') = EchoSaid - Len(p2u)
    BY <1>1, <1>2
  <1>4. Len(p2u') <= EchoSaid' + StaleCap - WordsRead
    BY <1>1, <1>2 DEF FreshEcho
  <1>5. WordsRead >= 1 /\ Len(p2u') < EchoSaid' => Echo[EchoSaid - Len(p2u)] = EchoWords[WordsRead]
    BY <1>1, <1>2 DEF FreshEcho
  <1> QED BY <1>1, <1>3, <1>4, <1>5 DEF FreshEcho

LEMMA ReadingBlocks ==
  ASSUME TypeInv, NoEcho, UNCHANGED upc, ppc' \in PiBlocks,
         p2u' = p2u \/ Say(ACK)
  PROVE  NoEcho'
  <1>1. p2u \in Seq(Word \cup {Junk}) /\ ToThird' = ToThird /\ ToThird \in 1..3
    BY DEF TypeInv, TypeOK, ToThird, WordsRead
  <1>2. CASE p2u' = p2u
    BY <1>1, <1>2 DEF NoEcho
  <1>3. CASE Say(ACK)
    <2>1. /\ Len(p2u') = Len(p2u) + 1 /\ p2u'[Len(p2u) + 1] = ACK /\ Len(p2u) \in Nat
          /\ \A i \in 1..Len(p2u) : p2u'[i] = p2u[i]
      BY <1>1, <1>3, AppendFacts, ControlWords DEF Say
    <2> QED BY <1>1, <2>1 DEF NoEcho
  <1> QED BY <1>2, <1>3

LEMMA ReadingStep ==
  ASSUME TypeInv, UpsetInv, Telling, StaleCap <= 2, Next, ~Garble
  PROVE  Reading'
  <1>0. EchoLast /\ HeaderHears /\ Reading /\ TypeOK /\ prog \in Program
    BY DEF UpsetInv, TypeInv, TypeOK
  <1>1. CASE SimpleBoot \/ Timeout \/ Interrupt
    <2>0. UNCHANGED <<prog, ppc, soh, n, checksum, image, accepted, offered>>
      BY <1>1, UnixLeaves
    <2> SUFFICES ASSUME upc' \in UnixHeader PROVE Reading'
      BY DEF Reading
    <2>1. CASE PutNext("soh", SOH, "n") \/ PutNext("n", Nbytes(prog), "ck") \/ PutNext("ck", Crc(prog, Nbytes(prog)), "wSoh")
      <3>1. p2u' = p2u /\ upc \in {"soh", "n", "ck"} /\ upc' \in {"n", "ck", "wSoh"}
        BY <2>1 DEF PutNext
      <3> QED BY <1>0, <2>0, <3>1, ReadingPut
    <2>2. CASE Expect("wSoh", SOH, "wN")
      <3>1. upc = "wSoh" /\ upc' = "wN" /\ ~NoWordYet /\ p2u' = Tail(p2u) /\ Head(p2u) = SOH
        BY <2>2 DEF Expect, UnixHeader
      <3>2. WordsRead = 0 /\ WordsRead' = WordsRead + 1 /\ SOH = EchoWords[WordsRead + 1]
        BY <3>1 DEF WordsRead, EchoWords
      <3> QED BY <1>0, <2>0, <3>1, <3>2, ReadingRead DEF UnixHeader
    <2>3. CASE Expect("wN", Crc(<<Nbytes(prog)>>, 4), "wCk")
      <3>1. upc = "wN" /\ upc' = "wCk" /\ ~NoWordYet /\ p2u' = Tail(p2u) /\ Head(p2u) = Crc(<<Nbytes(prog)>>, 4)
        BY <2>3 DEF Expect, UnixHeader
      <3>2. WordsRead = 1 /\ WordsRead' = WordsRead + 1 /\ Crc(<<Nbytes(prog)>>, 4) = EchoWords[WordsRead + 1]
        BY <3>1 DEF WordsRead, EchoWords, Size
      <3> QED BY <1>0, <2>0, <3>1, <3>2, ReadingRead DEF UnixHeader
    <2>4. ASSUME \/ Expect("wCk", Crc(prog, Nbytes(prog)), "ack") \/ Expect("wAck", ACK, MoreToPut(put))
                 \/ Expect("wDone", ACK, "ok") \/ PutNext("ack", ACK, MoreToPut(0)) \/ SendBinary
                 \/ PutNext("eot", EOT, "wDone") \/ Timeout \/ Interrupt
          PROVE  FALSE
      BY <2>4, MoreToPutCases DEF Expect, PutNext, SendBinary, Timeout, Interrupt, UnixHeader
    <2> QED BY <1>1, <2>1, <2>2, <2>3, <2>4 DEF SimpleBoot
  <1>2. CASE \E p \in Program : Start(p)
    BY <1>2, ReadingStart
  <1>3. CASE Bootloader \/ ProgramEnds \/ PowerCycle \/ Unheard
    <2>0. UNCHANGED <<upc, prog, put>> /\ WordsRead' = WordsRead /\ ToThird' = ToThird /\ p2u \in Seq(Word \cup {Junk})
      BY <1>0, <1>3, PiLeaves DEF WordsRead, ToThird, TypeOK
    <2> SUFFICES ASSUME upc \in UnixHeader PROVE Reading'
      BY <2>0 DEF Reading
    <2>a. LeftOver
      BY <1>0, AnyLeaves
    <2>b. \A i \in 1..Len(u2p) : u2p[i] \in HeaderWord
      BY <1>0 DEF HeaderHears
    <2>c. Deadlocked \/ FreshEcho \/ NoEcho \/ DeadEcho
      BY <1>0 DEF Reading
    <2>1. CASE HearSoh \/ HearSize \/ HearChecksum
      <3>1. /\ u2p # <<>> /\ ppc \in PiHeader /\ UNCHANGED p2u /\ ppc' \in PiHeader \cup {"sSoh", "die"}
        BY <2>1 DEF HearSoh, HearSize, HearChecksum, Hear, PiHeader
      <3>2. FreshEcho
        BY <2>c, <3>1 DEF Deadlocked, NoEcho, DeadEcho, PiHeader, PiBlocks
      <3>3. CASE ppc' = "die"
        <4>1. DeadEcho'
          BY <2>0, <2>a, <3>1, <3>3 DEF DeadEcho, LeftOver
        <4> QED BY <4>1 DEF Reading
      <3>4. CASE ppc' # "die"
        <4>1. FreshEcho'
          BY <2>0, <3>1, <3>2, <3>4, ReadingEchoKeeps
        <4> QED BY <4>1 DEF Reading
      <3> QED BY <3>3, <3>4
    <2>2. CASE SayNext("sSoh", soh, "sN") \/ SayNext("sN", Crc(<<n>>, 4), "sCk") \/ SayNext("sCk", checksum, "gAck")
      <3>1. /\ ppc \in PiEcho /\ ppc' \in PiEcho /\ EchoSaid' = EchoSaid + 1 /\ UNCHANGED <<soh, n, checksum>>
            /\ ppc # "gAck" /\ (Say(soh) \/ Say(Crc(<<n>>, 4)) \/ Say(checksum))
        BY <2>2 DEF SayNext, PiEcho, EchoSaid
      <3>2. FreshEcho
        BY <2>c, <3>1 DEF Deadlocked, NoEcho, DeadEcho, PiEcho, PiBlocks
      <3>3. FreshEcho'
        BY <1>0, <2>0, <3>1, <3>2, ReadingEchoSay, EchoWordTypes
      <3> QED BY <3>3 DEF Reading
    <2>3. CASE HearExpected("gAck", ACK, MoreToHear(0))
      <3>1. u2p # <<>> /\ u2p \in Seq(Word) /\ p2u' = p2u /\ (Head(u2p) # ACK => ppc' = "die")
        BY <1>0, <2>3 DEF HearExpected, Hear, TypeOK
      <3>2. Head(u2p) \in HeaderWord
        BY <2>b, <3>1, TailFacts
      <3>3. ppc' = "die"
        BY <3>1, <3>2, HeaderWordFacts
      <3>4. DeadEcho'
        BY <2>0, <2>a, <3>1, <3>3 DEF DeadEcho, LeftOver
      <3> QED BY <3>4 DEF Reading
    <2>4. CASE GetBinary \/ SayNext("sAck", ACK, MoreToHear(Len(image))) \/ HearExpected("gEot", EOT, "verify") \/ Verify \/ Branch
      <3>1. ppc \in PiBlocks /\ ppc' \in PiBlocks \cup {"die"} /\ (p2u' = p2u \/ Say(ACK)) /\ (ppc' = "die" => p2u' = p2u)
        BY <2>4, MoreToHearCases DEF GetBinary, SayNext, HearExpected, Verify, Branch, PiBlocks, wires
      <3>2. NoEcho
        BY <2>c, <3>1 DEF Deadlocked, FreshEcho, DeadEcho, PiBlocks, PiEcho, PiHeader
      <3>3. CASE ppc' = "die"
        <4>1. DeadEcho'
          BY <2>0, <2>a, <3>1, <3>3 DEF DeadEcho, LeftOver
        <4> QED BY <4>1 DEF Reading
      <3>4. CASE ppc' # "die"
        <4>1. NoEcho'
          BY <2>0, <3>1, <3>2, <3>4, ReadingBlocks
        <4> QED BY <4>1 DEF Reading
      <3> QED BY <3>3, <3>4
    <2>5. CASE Die
      <3>1. ppc' = "down" /\ p2u' = Append(Append(p2u, NAK), Junk)
        BY <2>5, <2>0 DEF Die, Reset
      <3> DEFINE once == Append(p2u, NAK)
      <3>2. once \in Seq(Word \cup {Junk}) /\ Len(once) = Len(p2u) + 1 /\ once[Len(p2u) + 1] = NAK /\ Len(p2u) \in Nat
            /\ \A i \in 1..Len(p2u) : once[i] = p2u[i]
        BY <2>0, AppendFacts, ControlWords
      <3>3. /\ Len(p2u') = Len(p2u) + 2 /\ p2u'[Len(p2u) + 1] = NAK /\ p2u'[Len(p2u) + 2] = Junk
            /\ \A i \in 1..Len(p2u) : p2u'[i] = p2u[i]
        <4> HIDE DEF once
        <4>1. p2u' = Append(once, Junk)
          BY <3>1 DEF once
        <4>2. Len(p2u') = Len(once) + 1 /\ p2u'[Len(once) + 1] = Junk /\ \A i \in 1..Len(once) : p2u'[i] = once[i]
          BY <3>2, <4>1, AppendFacts
        <4> QED BY <3>2, <4>2
      <3>4. ToThird \in 1..3 /\ NAK # ACK
        BY HeaderWordFacts DEF ToThird, WordsRead
      <3>5. LeftOver'
        <4>1. CASE Len(p2u) + 1 < ToThird
          BY <2>0, <3>2, <3>3, <3>4, <4>1 DEF LeftOver
        <4>2. CASE Len(p2u) + 1 = ToThird
          BY <2>0, <3>2, <3>3, <3>4, <4>2 DEF LeftOver
        <4>3. CASE Len(p2u) = ToThird
          BY <2>0, <3>2, <3>3, <3>4, <4>3 DEF LeftOver
        <4>4. CASE Len(p2u) = ToThird + 1
          BY <2>0, <3>2, <3>3, <3>4, <4>4 DEF LeftOver
        <4>5. CASE Len(p2u) > ToThird + 1
          <5>1. /\ p2u'[ToThird] = p2u[ToThird] /\ p2u'[ToThird + 1] = p2u[ToThird + 1]
                /\ p2u'[ToThird + 2] = p2u[ToThird + 2]
            <6>1. /\ ToThird \in 1..Len(p2u) /\ ToThird + 1 \in 1..Len(p2u)
                  /\ ToThird + 2 \in 1..Len(p2u)
              BY <3>2, <3>4, <4>5
            <6> QED BY <3>3, <6>1
          <5> QED BY <2>0, <2>a, <3>2, <3>3, <3>4, <4>5, <5>1 DEF LeftOver
        <4> QED BY <3>2, <3>4, <4>1, <4>2, <4>3, <4>4, <4>5
      <3> QED BY <3>1, <3>5 DEF Reading, DeadEcho
    <2>6. CASE ProgramEnds
      <3>1. ppc' = "down" /\ p2u' = Append(p2u, Junk)
        BY <2>6 DEF ProgramEnds, Reset, Say
      <3>2. LeftOver'
        BY <2>0, <2>a, <3>1, LeftOverAppend
      <3> QED BY <3>1, <3>2 DEF Reading, DeadEcho
    <2>7. CASE PowerCycle
      <3>1. ppc' = "down" /\ p2u' = p2u
        BY <2>7 DEF PowerCycle, Reset, wires
      <3>2. LeftOver'
        BY <2>0, <2>a, <3>1 DEF LeftOver
      <3> QED BY <3>1, <3>2 DEF Reading, DeadEcho
    <2>8. CASE Restart
      <3>1. ppc' = "delay" /\ u2p' = <<>> /\ UnixQuiet /\ p2u' = p2u
        BY <2>8 DEF Restart, wires
      <3>2. upc \in UnixWaits /\ NoWordYet
        BY <3>1 DEF UnixQuiet, UnixHeader, UnixOver
      <3>3. Deadlocked'
        BY <2>0, <3>1, <3>2 DEF Deadlocked, NoWordYet
      <3> QED BY <3>3 DEF Reading
    <2>9. CASE Listen
      <3>1. ppc = "delay" /\ ppc' = "gSoh" /\ u2p' = u2p /\ p2u' = p2u
        BY <2>9 DEF Listen, wires
      <3>2. CASE Deadlocked
        <4>1. Deadlocked'
          BY <2>0, <3>1, <3>2 DEF Deadlocked, NoWordYet
        <4> QED BY <4>1 DEF Reading
      <3>3. CASE FreshEcho
        <4>1. FreshEcho'
          BY <2>0, <3>1, <3>3, ReadingEchoKeeps DEF PiHeader
        <4> QED BY <4>1 DEF Reading
      <3> QED BY <2>c, <3>1, <3>2, <3>3 DEF NoEcho, DeadEcho, PiBlocks
    <2>10. CASE Unheard
      <3>1. UNCHANGED <<ppc, soh, n, checksum, p2u>> /\ u2p # <<>>
        BY <2>10 DEF Unheard, pi
      <3>2. Echo' = Echo /\ EchoWords' = EchoWords /\ EchoSaid' = EchoSaid /\ LeftOver' = LeftOver
        BY <2>0, <3>1, ReadingSame DEF EchoSaid
      <3>3. ~Deadlocked
        BY <3>1 DEF Deadlocked
      <3>4. (FreshEcho => FreshEcho') /\ (NoEcho => NoEcho') /\ (DeadEcho => DeadEcho')
        BY <2>0, <3>1, <3>2 DEF FreshEcho, NoEcho, DeadEcho
      <3> QED BY <2>c, <3>3, <3>4 DEF Reading
    <2> QED BY <1>3, <2>1, <2>2, <2>3, <2>4, <2>5, <2>6, <2>7, <2>8, <2>9, <2>10 DEF Bootloader, NotMain
  <1> QED BY <1>1, <1>2, <1>3 DEF Next, Running, Upset

\* What follows an image that is not of this session is no echo.
LEMMA NotOursStep ==
  ASSUME TypeInv, UpsetInv, Telling, Next, ~Garble
  PROVE  NotOurs'
  <1>0. AcceptedOnce /\ Reading /\ NotOurs /\ TypeOK /\ p2u \in Seq(Word \cup {Junk}) /\ Len(p2u) \in Nat
    BY PlaceTypes DEF UpsetInv, TypeInv, TypeOK
  <1>1. CASE SimpleBoot \/ Timeout \/ Interrupt
    <2>0. UNCHANGED accepted
      BY <1>1, UnixLeaves
    <2> SUFFICES ASSUME upc' \in UnixHeader, accepted # {} PROVE \A i \in ToThird'..Len(p2u') : p2u'[i] \in {ACK, NAK, Junk}
      BY <2>0 DEF NotOurs
    <2>1. CASE PutNext("soh", SOH, "n") \/ PutNext("n", Nbytes(prog), "ck") \/ PutNext("ck", Crc(prog, Nbytes(prog)), "wSoh")
      <3>1. p2u' = p2u /\ ToThird' = ToThird /\ upc \in UnixHeader
        BY <2>1 DEF PutNext, ToThird, WordsRead, UnixHeader
      <3> QED BY <1>0, <3>1 DEF NotOurs
    <2>2. CASE Expect("wSoh", SOH, "wN") \/ Expect("wN", Crc(<<Nbytes(prog)>>, 4), "wCk")
      <3>1. p2u # <<>> /\ p2u' = Tail(p2u) /\ ToThird' = ToThird - 1 /\ upc \in UnixHeader /\ ToThird \in 2..3
        BY <2>2 DEF Expect, ToThird, WordsRead, UnixHeader, NoWordYet
      <3>2. Len(p2u') = Len(p2u) - 1 /\ (\A i \in 1..Len(p2u') : p2u'[i] = p2u[i + 1])
        BY <1>0, <3>1, TailFacts
      <3>3. ASSUME NEW i \in (ToThird - 1)..(Len(p2u) - 1) PROVE p2u'[i] \in {ACK, NAK, Junk}
        <4>1. i + 1 \in ToThird..Len(p2u) /\ i \in 1..Len(p2u')
          BY <1>0, <3>1, <3>2
        <4> QED BY <1>0, <3>1, <3>2, <4>1 DEF NotOurs
      <3> QED BY <3>1, <3>2, <3>3
    <2>3. ASSUME \/ Expect("wCk", Crc(prog, Nbytes(prog)), "ack") \/ Expect("wAck", ACK, MoreToPut(put))
                 \/ Expect("wDone", ACK, "ok") \/ PutNext("ack", ACK, MoreToPut(0)) \/ SendBinary
                 \/ PutNext("eot", EOT, "wDone") \/ Timeout \/ Interrupt
          PROVE  FALSE
      BY <2>3, MoreToPutCases DEF Expect, PutNext, SendBinary, Timeout, Interrupt, UnixHeader
    <2> QED BY <1>1, <2>1, <2>2, <2>3 DEF SimpleBoot
  <1>2. CASE \E p \in Program : Start(p)
    BY <1>2 DEF Start, NotOurs
  <1>3. CASE Bootloader \/ ProgramEnds \/ PowerCycle \/ Unheard
    <2>0. upc' = upc /\ ToThird' = ToThird /\ ToThird \in 1..3
      BY <1>3, PiLeaves DEF WordsRead, ToThird
    <2>1. CASE Verify
      <3>1. upc \in UnixHeader => NoEcho
        BY <1>0, <2>1 DEF Reading, Deadlocked, FreshEcho, DeadEcho, Verify, PiHeader, PiEcho
      <3>2. accepted' # {} => Say(ACK) /\ ppc' \in PiBlocks
        BY <1>0, <2>1 DEF Verify, AcceptedOnce, PiBlocks
      <3>3. NoEcho /\ accepted' # {} => NoEcho'
        BY <2>0, <3>2, ReadingBlocks
      <3> QED BY <2>0, <3>1, <3>3 DEF NotOurs, NoEcho
    <2>2. CASE ProgramEnds
      <3>1. p2u' = Append(p2u, Junk) /\ accepted' = accepted
        BY <2>2 DEF ProgramEnds, Say, history
      <3>2. Len(p2u') = Len(p2u) + 1 /\ p2u'[Len(p2u) + 1] = Junk /\ (\A i \in 1..Len(p2u) : p2u'[i] = p2u[i])
        BY <1>0, <3>1, AppendFacts
      <3> QED BY <1>0, <2>0, <3>1, <3>2 DEF NotOurs
    <2>3. CASE ~Verify /\ ~ProgramEnds
      <3>1. accepted' = accepted
        BY <1>3, <2>3 DEF Bootloader, NotMain, HearSoh, HearSize, HearChecksum, SayNext, HearExpected, GetBinary, Branch,
               Die, Restart, Listen, PowerCycle, Unheard, history
      <3>2. accepted # {} => p2u' = p2u
        BY <1>0, <1>3, <2>3 DEF AcceptedOnce, Bootloader, NotMain, HearSoh, HearSize, HearChecksum, SayNext, HearExpected,
               GetBinary, Branch, Die, Restart, Listen, PowerCycle, Unheard, wires
      <3> QED BY <1>0, <2>0, <3>1, <3>2 DEF NotOurs
    <2> QED BY <2>1, <2>2, <2>3
  <1> QED BY <1>1, <1>2, <1>3 DEF Next, Running, Upset
-----------------------------------------------------------------------------
(* While my-install sends its program.                                      *)

\* More words on the way back leave my-install stuck.
LEMMA StuckKeeps ==
  ASSUME TypeOK, Stuck, Wanted' = Wanted, Len(p2u') \in Nat, Len(p2u') >= Len(p2u),
         \A i \in 1..Len(p2u) : p2u'[i] = p2u[i]
  PROVE  Stuck'
  <1>1. Len(p2u) \in Nat
    BY PlaceTypes
  <1>2. PICK j \in 1..Len(p2u) : j <= Wanted + 1 /\ p2u[j] # ACK
    BY DEF Stuck
  <1>3. j \in 1..Len(p2u') /\ p2u'[j] # ACK
    BY <1>1, <1>2
  <1> QED BY <1>2, <1>3 DEF Stuck

\* my-install has read the last word of the echo.
LEMMA ReplyingBegins ==
  ASSUME TypeInv, UpsetInv, Telling, StaleCap <= 2, Expect("wCk", Crc(prog, Nbytes(prog)), "ack"), upc' = "ack"
  PROVE  Replying'
  <1>0. /\ AcceptedOnce /\ EchoLast /\ HeaderHears /\ Reading /\ NotOurs /\ ImageFresh
        /\ TypeOK /\ prog \in Program /\ p2u \in Seq(Word \cup {Junk}) /\ p2u # <<>> /\ Len(p2u) \in Nat
        /\ StaleCap \in Nat /\ put = 0 /\ upc = "wCk" /\ WordsRead = 2 /\ ToThird = 1 /\ EchoSaid \in 0..3
    BY PlaceTypes, BoundAssumption
    DEF UpsetInv, TypeInv, TypeOK, PutInv, Expect, NoWordYet, WordsRead, ToThird
  <1>1. /\ p2u' = Tail(p2u) /\ Head(p2u) = Crc(prog, Size) /\ ~NoWordYet
        /\ UNCHANGED <<prog, put, ppc, soh, n, checksum, image, accepted>>
    BY <1>0 DEF Expect, Size, pi, history
  <1>2. /\ Len(p2u) >= 1 /\ Len(p2u') = Len(p2u) - 1 /\ p2u[1] = Crc(prog, Size)
        /\ \A i \in 1..Len(p2u') : p2u'[i] = p2u[i + 1]
    BY <1>0, <1>1, TailFacts
  <1>3. Wanted' = Cardinality(DueFrom(1)) /\ Wanted' \in Nat /\ Wanted' >= 1
    <2>1. Len(prog) \in Nat /\ Len(prog) >= 1
      <3>1. prog \in Seq(Word) /\ prog # <<>>
        BY <1>0, ProgramAssumption DEF Telling
      <3> QED BY <3>1
    <2>2. Cardinality(DueFrom(1)) >= 1 /\ Cardinality(DueFrom(1)) \in Nat
      BY <1>0, <2>1, DueEnds, DueFinite
    <2>3. put' + 1 = 1 /\ \A k : DueFrom(k)' = DueFrom(k)
      BY <1>0, <1>1, SameDue
    <2>4. Wanted' = 0 + Cardinality(DueFrom(1))
      BY <1>0, <1>1, <2>3 DEF Wanted
    <2> QED BY <2>2, <2>4
  <1>4. p2u[1] \notin {ACK, NAK, Junk}
    <2>1. Crc(prog, Size) \in Word /\ Crc(prog, Size) \notin {ACK, NAK}
      BY <1>0, ProgramAssumption DEF Telling, Size
    <2> QED BY <1>2, <2>1, NotJunk
  <1>5. accepted = {}
    BY <1>0, <1>2, <1>4 DEF NotOurs, UnixHeader
  <1>6. CASE FreshEcho
    <2>1. ppc \in PiEcho /\ EchoSaid >= 1 /\ Len(p2u) <= EchoSaid
      <3>1. Len(p2u) <= (IF ppc \in PiEcho THEN EchoSaid ELSE 0) + StaleCap - 2
        BY <1>0, <1>6 DEF FreshEcho
      <3> QED BY <1>0, <1>2, <3>1
    <2>2. CASE ppc = "sN"
      <3>1. EchoSaid = 1 /\ Len(p2u') = 0
        BY <1>0, <1>2, <2>1, <2>2 DEF EchoSaid
      <3>2. RestOfEcho'
        BY <1>1, <1>3, <2>2, <3>1 DEF RestOfEcho
      <3> QED BY <1>1, <1>5, <2>2, <3>2 DEF Replying
    <2>3. CASE ppc = "sCk"
      <3>1. EchoSaid = 2 /\ Len(p2u') <= 1
        BY <1>0, <1>2, <2>1, <2>3 DEF EchoSaid
      <3>2. RestOfEcho'
        BY <1>0, <1>1, <1>2, <1>3, <2>3, <3>1 DEF RestOfEcho
      <3> QED BY <1>1, <1>5, <2>3, <3>2 DEF Replying
    <2>4. CASE ppc = "gAck"
      <3>0. EchoSaid = 3
        BY <2>4 DEF EchoSaid
      <3>1. p2u[Len(p2u)] = checksum
        <4>1. p2u[Len(p2u) + 1 - 1] = Echo[EchoSaid + 1 - 1]
          BY <1>0, <1>2, <2>1 DEF EchoLast
        <4> QED BY <1>0, <3>0, <4>1 DEF Echo
      <3>2. CASE Len(p2u) >= 2
        <4>1. Len(p2u) - 1 \in 1..Len(p2u') /\ Len(p2u) - 1 <= Wanted' + 1 /\ p2u'[Len(p2u) - 1] = checksum
          BY <1>0, <1>2, <1>3, <2>1, <3>0, <3>1, <3>2
        <4>2. Stuck'
          BY <1>0, <4>1 DEF Stuck, HeaderHears
        <4> QED BY <1>1, <2>4, <4>2 DEF Replying
      <3>3. CASE Len(p2u) = 1
        <4>1. checksum = Crc(prog, Size)
          BY <1>2, <3>1, <3>3
        <4>2. n = Size
          <5>1. Echo[EchoSaid - Len(p2u)] = EchoWords[WordsRead]
            BY <1>0, <1>6, <2>1, <3>0, <3>3 DEF FreshEcho
          <5>2. Crc(<<n>>, 4) = Crc(<<Size>>, 4)
            BY <1>0, <3>0, <3>3, <5>1 DEF Echo, EchoWords
          <5>3. n \in Word /\ Size \in Word
            BY <1>0, ProgramAssumption DEF TypeOK, Size
          <5> QED BY <5>2, <5>3 DEF Telling
        <4>3. image' = <<>> /\ Len(image') + 1 = 1
          BY <1>0, <1>1, <2>4 DEF ImageFresh
        <4>4. StillDue' = Wanted'
          <5>1. \A k : DueFrom(k)' = DueFrom(k)
            BY <1>1, SameDue
          <5>2. StillDue' = 0 + Cardinality(DueFrom(1))
            BY <1>1, <2>4, <4>3, <5>1 DEF StillDue
          <5> QED BY <1>3, <5>2
        <4>5. InSession'
          <5>1. Len(p2u') = 0 /\ Size' = Size
            BY <1>1, <1>2, <3>3, SameProgram
          <5>2. Len(p2u') + StillDue' <= Wanted'
            BY <1>3, <4>4, <5>1
          <5>3. n' = Size' /\ checksum' = Crc(prog', Size')
            BY <1>1, <4>1, <4>2, <5>1
          <5> QED BY <1>1, <2>4, <5>2, <5>3 DEF InSession
        <4> QED BY <1>1, <1>5, <2>4, <4>5 DEF Replying
      <3> QED BY <1>2, <3>2, <3>3, <1>0
    <2> QED BY <2>1, <2>2, <2>3, <2>4 DEF PiEcho, EchoSaid
  <1>7. CASE DeadEcho
    <2>1. LeftOver /\ ppc \in {"die", "down"}
      BY <1>7 DEF DeadEcho
    <2>2. CASE Len(p2u) <= 2
      <3>1. DeadReplies'
        BY <1>0, <1>1, <1>2, <1>3, <2>1, <2>2 DEF DeadReplies
      <3> QED BY <1>1, <1>5, <2>1, <3>1 DEF Replying
    <2>3. CASE Len(p2u) > 2
      <3>1. \/ p2u'[1] # ACK
            \/ p2u'[2] # ACK /\ Len(p2u) >= 3
        <4>1. p2u[2] # ACK \/ (p2u[3] # ACK /\ Len(p2u) >= 3)
          BY <1>0, <1>4, <2>1, <2>3 DEF LeftOver
        <4> QED BY <1>0, <1>2, <2>3, <4>1
      <3>2. Stuck'
        BY <1>0, <1>2, <1>3, <2>3, <3>1 DEF Stuck
      <3> QED BY <1>1, <2>1, <3>2 DEF Replying
    <2> QED BY <1>0, <2>2, <2>3
  <1>8. ~NoEcho /\ ~Deadlocked
    BY <1>0, <1>1, <1>2, <1>4 DEF NoEcho, Deadlocked
  <1> QED BY <1>0, <1>6, <1>7, <1>8 DEF Reading, UnixHeader

\* my-install puts a word, and wants as many replies as before.
LEMMA ReplyingPut ==
  ASSUME TypeInv, Replying, upc \in UnixReplies \ UnixWaits, upc' \in UnixReplies, Wanted' = Wanted,
         UNCHANGED <<prog, p2u, ppc, soh, n, checksum, image, accepted>>
  PROVE  Replying'
  <1>1. ~Deadlocked
    BY DEF Deadlocked
  <1>2. Stuck => Stuck'
    BY DEF Stuck
  <1>3. (RestOfEcho => RestOfEcho') /\ (DeadReplies => DeadReplies')
    BY DEF RestOfEcho, DeadReplies
  <1>4. StillDue' = StillDue /\ Size' = Size
    <2>1. \A k : DueFrom(k)' = DueFrom(k)
      BY SameDue
    <2> QED BY <2>1, SameProgram DEF StillDue
  <1>5. InSession => InSession'
    BY <1>4 DEF InSession
  <1> QED BY <1>1, <1>2, <1>3, <1>5 DEF Replying

\* my-install reads an ACK for a block.
LEMMA ReplyingRead ==
  ASSUME TypeInv, Replying, Expect("wAck", ACK, MoreToPut(put)), upc' # "failed"
  PROVE  Replying'
  <1>0. /\ upc = "wAck" /\ upc' \in {"data", "eot"} /\ p2u # <<>> /\ ~NoWordYet /\ p2u' = Tail(p2u) /\ Head(p2u) = ACK
        /\ UNCHANGED <<prog, put, ppc, soh, n, checksum, image, accepted>>
    BY MoreToPutCases DEF Expect, NoWordYet, pi, history
  <1>1. /\ p2u \in Seq(Word \cup {Junk}) /\ Len(p2u) \in Nat /\ Wanted \in Nat /\ StillDue \in Nat
    BY PlaceTypes, WantedType DEF TypeInv, TypeOK
  <1>2. /\ Len(p2u) >= 1 /\ Len(p2u') = Len(p2u) - 1 /\ p2u[1] = ACK
        /\ \A i \in 1..Len(p2u') : p2u'[i] = p2u[i + 1]
    BY <1>0, <1>1, TailFacts
  <1>3. \A k : DueFrom(k)' = DueFrom(k)
    BY <1>0, SameDue
  <1>4. Wanted' = Wanted - 1 /\ StillDue' = StillDue /\ Size' = Size
    <2>1. Cardinality(DueFrom(put + 1)) \in Nat
      <3>1. put + 1 \in Nat
        BY PlaceTypes DEF TypeInv
      <3> QED BY <3>1, DueFinite DEF TypeInv
    <2>2. Wanted' = 0 + Cardinality(DueFrom(put + 1))
      BY <1>0, <1>3 DEF Wanted
    <2>3. Wanted = 1 + Cardinality(DueFrom(put + 1))
      BY <1>0 DEF Wanted
    <2>4. StillDue' = StillDue
      BY <1>0, <1>3 DEF StillDue
    <2> QED BY <1>0, <2>1, <2>2, <2>3, <2>4, SameProgram
  <1>5. ~Deadlocked
    BY <1>0 DEF Deadlocked
  <1>6. ASSUME Stuck PROVE Stuck'
    <2>1. PICK j \in 1..Len(p2u) : j <= Wanted + 1 /\ p2u[j] # ACK
      BY <1>6 DEF Stuck
    <2>2. j - 1 \in 1..Len(p2u') /\ j - 1 <= Wanted' + 1 /\ p2u'[j - 1] # ACK
      BY <1>1, <1>2, <1>4, <2>1
    <2> QED BY <2>2 DEF Stuck
  <1>7. RestOfEcho => RestOfEcho'
    BY <1>0, <1>1, <1>2, <1>4 DEF RestOfEcho
  <1>8. DeadReplies => DeadReplies'
    BY <1>0, <1>1, <1>2, <1>4 DEF DeadReplies
  <1>9. ASSUME InSession PROVE InSession'
    <2>1. Len(p2u') + StillDue' <= Wanted'
      BY <1>1, <1>2, <1>4, <1>9 DEF InSession
    <2>2. n' = Size' /\ checksum' = Crc(prog', Size')
      BY <1>0, <1>4, <1>9 DEF InSession
    <2> QED BY <1>0, <1>9, <2>1, <2>2 DEF InSession
  <1> QED BY <1>0, <1>5, <1>6, <1>7, <1>8, <1>9 DEF Replying, UnixReplies

\* The word my-install puts next is followed by a wait if an ACK is due for it.
LEMMA ReplyingSend ==
  ASSUME TypeInv, Replying, SendBinary
  PROVE  Replying'
  <1>1. /\ upc = "data" /\ put' = put + 1 /\ put \in Nat /\ put + 1 <= Len(prog)
        /\ UNCHANGED <<prog, p2u, ppc, soh, n, checksum, image, accepted>>
    BY PlaceTypes DEF SendBinary, TypeInv, PutInv, pi, history
  <1>2. /\ DueAfter(put + 1) => upc' = "wAck"
        /\ ~DueAfter(put + 1) => upc' \in {"data", "eot"}
    BY <1>1, MoreToPutCases DEF SendBinary, DueAfter, Size
  <1>3. Cardinality(DueFrom(put + 1)) = Cardinality(DueFrom((put + 1) + 1)) + (IF DueAfter(put + 1) THEN 1 ELSE 0)
    BY <1>1, DueOneOn DEF TypeInv
  <1>4. Cardinality(DueFrom((put + 1) + 1)) \in Nat
    BY <1>1, DueFinite DEF TypeInv
  <1>5. Wanted' = (IF upc' = "wAck" THEN 1 ELSE 0) + Cardinality(DueFrom((put + 1) + 1))
    <2>1. \A k : DueFrom(k)' = DueFrom(k)
      BY <1>1, SameDue
    <2> QED BY <1>1, <2>1 DEF Wanted
  <1>6. Wanted = 0 + Cardinality(DueFrom(put + 1))
    BY <1>1 DEF Wanted
  <1>7. Wanted' = Wanted
    BY <1>2, <1>3, <1>4, <1>5, <1>6
  <1> QED BY <1>1, <1>2, <1>7, ReplyingPut DEF UnixReplies, UnixWaits

LEMMA ReplyingUnix ==
  ASSUME TypeInv, UpsetInv, Telling, StaleCap <= 2, SimpleBoot
  PROVE  Replying'
  <1>0. Replying /\ UNCHANGED <<prog, ppc, soh, n, checksum, image, accepted>>
    BY UnixLeaves DEF UpsetInv
  <1> SUFFICES ASSUME upc' \in UnixReplies PROVE Replying'
    BY DEF Replying
  <1>1. CASE PutNext("ack", ACK, MoreToPut(0)) \/ PutNext("eot", EOT, "wDone")
    <2>1. /\ upc \in {"ack", "eot"} /\ upc' \in {"data", "eot", "wDone"} /\ UNCHANGED <<put, p2u>>
      BY <1>1, MoreToPutCases DEF PutNext
    <2>2. Wanted' = Wanted
      <3>1. \A k : DueFrom(k)' = DueFrom(k)
        BY <1>0, SameDue
      <3> QED BY <2>1, <3>1 DEF Wanted
    <2> QED BY <1>0, <2>1, <2>2, ReplyingPut DEF UnixReplies, UnixWaits
  <1>2. CASE Expect("wCk", Crc(prog, Nbytes(prog)), "ack")
    <2>1. upc' = "ack"
      BY <1>2 DEF Expect, UnixReplies
    <2> QED BY <1>2, <2>1, ReplyingBegins
  <1>3. CASE Expect("wAck", ACK, MoreToPut(put))
    BY <1>0, <1>3, ReplyingRead DEF UnixReplies
  <1>4. ASSUME \/ PutNext("soh", SOH, "n") \/ PutNext("n", Nbytes(prog), "ck") \/ PutNext("ck", Crc(prog, Nbytes(prog)), "wSoh")
               \/ Expect("wSoh", SOH, "wN") \/ Expect("wN", Crc(<<Nbytes(prog)>>, 4), "wCk") \/ Expect("wDone", ACK, "ok")
        PROVE  FALSE
    BY <1>4 DEF PutNext, Expect, UnixReplies
  <1> QED BY <1>0, <1>1, <1>2, <1>3, <1>4, ReplyingSend DEF SimpleBoot

\* my-install and the way back are left alone by the Pi: what the Pi has still to say
\* stays within what is wanted.
LEMMA ReplyingQuiet ==
  ASSUME TypeInv, Replying, upc \in UnixReplies, UNCHANGED <<upc, prog, put, p2u, accepted>>,
         ppc' \notin {"gN", "gCk", "sSoh", "delay", "gSoh"},
         RestOfEcho => RestOfEcho' \/ InSession' \/ DeadReplies',
         InSession => InSession' \/ DeadReplies',
         DeadReplies => DeadReplies'
  PROVE  Replying'
  <1>1. \A k : DueFrom(k)' = DueFrom(k)
    BY SameDue
  <1>2. Wanted' = Wanted
    BY <1>1 DEF Wanted
  <1>3. Stuck => Stuck'
    BY <1>2 DEF Stuck
  <1> QED BY <1>3 DEF Replying

LEMMA ReplyingPi ==
  ASSUME TypeInv, UpsetInv, Telling, upc \in UnixReplies, Bootloader \/ ProgramEnds \/ PowerCycle \/ Unheard, ~Collision
  PROVE  Replying'
  <1>0. /\ Replying /\ AcceptedOnce /\ HeaderHears /\ ImageLength /\ ImageFresh
        /\ TypeOK /\ prog \in Program /\ p2u \in Seq(Word \cup {Junk}) /\ Len(p2u) \in Nat
        /\ UNCHANGED <<upc, prog, put>> /\ Wanted \in Nat /\ StillDue \in Nat
        /\ Len(image) \in Nat /\ Len(prog) \in Nat
    BY PlaceTypes, WantedType, PiLeaves DEF UpsetInv, TypeInv, TypeOK
  <1>1. /\ ppc \notin {"gN", "gCk", "sSoh"}
        /\ ppc \in {"delay", "gSoh"} => Deadlocked
        /\ \/ Stuck
           \/ accepted = {prog}
           \/ accepted = {} /\ (RestOfEcho \/ InSession \/ DeadReplies)
    BY <1>0 DEF Replying
  <1>2. \A k : DueFrom(k)' = DueFrom(k)
    BY <1>0, SameDue
  <1>3. Wanted' = Wanted /\ Size' = Size
    BY <1>0, <1>2, SameProgram DEF Wanted
  <1>4. ASSUME NEW w \in Word \cup {Junk}, p2u' = Append(p2u, w)
        PROVE  /\ Len(p2u') = Len(p2u) + 1 /\ p2u'[Len(p2u) + 1] = w
               /\ Stuck => Stuck'
    <2>1. /\ Len(p2u') = Len(p2u) + 1 /\ p2u'[Len(p2u) + 1] = w
          /\ \A i \in 1..Len(p2u) : p2u'[i] = p2u[i]
      BY <1>0, <1>4, AppendFacts
    <2> QED BY <1>0, <1>3, <2>1, StuckKeeps
  <1>5. ASSUME NEW w \in Word \cup {Junk}, p2u' = Append(p2u, w), Len(p2u) <= Wanted, w # ACK
        PROVE  Stuck'
    <2>1. Len(p2u) + 1 \in 1..Len(p2u') /\ Len(p2u) + 1 <= Wanted' + 1 /\ p2u'[Len(p2u) + 1] # ACK
      BY <1>0, <1>3, <1>4, <1>5
    <2> QED BY <2>1 DEF Stuck
  <1>6. CASE HearSoh \/ HearSize \/ HearChecksum
    BY <1>1, <1>6 DEF HearSoh, HearSize, HearChecksum, Hear, Deadlocked
  <1>7. CASE SayNext("sSoh", soh, "sN")
    BY <1>1, <1>7 DEF SayNext
  <1>8. CASE SayNext("sN", Crc(<<n>>, 4), "sCk")
    <2>1. ppc = "sN" /\ ppc' = "sCk" /\ p2u' = Append(p2u, Crc(<<n>>, 4)) /\ accepted' = accepted
      BY <1>8 DEF SayNext, Say, history
    <2>2. Len(p2u') = Len(p2u) + 1 /\ (Stuck => Stuck')
      BY <1>0, <1>4, <2>1, EchoWordTypes
    <2>3. accepted = {} /\ ~InSession /\ ~DeadReplies
      BY <1>0, <2>1 DEF AcceptedOnce, InSession, DeadReplies
    <2>4. RestOfEcho => RestOfEcho'
      BY <1>0, <1>3, <2>1, <2>2 DEF RestOfEcho
    <2> QED BY <1>1, <2>1, <2>2, <2>3, <2>4 DEF Replying
  <1>9. CASE SayNext("sCk", checksum, "gAck")
    <2>1. ppc = "sCk" /\ ppc' = "gAck" /\ p2u' = Append(p2u, checksum) /\ accepted' = accepted /\ checksum # ACK
      BY <1>0, <1>9 DEF SayNext, Say, history, HeaderHears
    <2>2. accepted = {} /\ ~InSession /\ ~DeadReplies
      BY <1>0, <2>1 DEF AcceptedOnce, InSession, DeadReplies
    <2>3. RestOfEcho => Len(p2u) <= Wanted
      BY <1>0, <2>1 DEF RestOfEcho
    <2>4. Stuck'
      BY <1>0, <1>1, <1>4, <1>5, <2>1, <2>2, <2>3, EchoWordTypes
    <2> QED BY <2>1, <2>4 DEF Replying
  <1>10. CASE HearExpected("gAck", ACK, MoreToHear(0)) \/ HearExpected("gEot", EOT, "verify")
    <2>1. /\ ppc \in {"gAck", "gEot"} /\ UNCHANGED <<p2u, accepted, image, soh, n, checksum>>
          /\ ppc' \in {"data", "gEot", "verify", "die"} /\ (ppc' = "data" => ppc = "gAck")
      BY <1>10, MoreToHearCases DEF HearExpected, history
    <2>2. ~RestOfEcho /\ ~DeadReplies
      BY <2>1 DEF RestOfEcho, DeadReplies
    <2>3. ASSUME InSession PROVE InSession' \/ DeadReplies'
      <3>1. CASE ppc' = "die"
        BY <1>0, <1>3, <2>1, <2>3, <3>1 DEF InSession, DeadReplies
      <3>2. CASE ppc' # "die"
        <4>1. StillDue' <= StillDue /\ StillDue' \in Nat
          <5>1. CASE ppc' = "data"
            <6>1. StillDue = 0 + Cardinality(DueFrom(Len(image) + 1))
              BY <2>1, <5>1 DEF StillDue
            <6>2. StillDue' = 0 + Cardinality(DueFrom(Len(image) + 1))
              BY <1>2, <2>1, <5>1 DEF StillDue
            <6> QED BY <1>0, <6>1, <6>2
          <5>2. CASE ppc' # "data"
            BY <1>0, <2>1, <3>2, <5>2 DEF StillDue
          <5> QED BY <5>1, <5>2
        <4>2. Len(p2u') + StillDue' <= Wanted'
          BY <1>0, <1>3, <2>1, <2>3, <4>1 DEF InSession
        <4>3. n' = Size' /\ checksum' = Crc(prog', Size')
          BY <1>0, <1>3, <2>1, <2>3 DEF InSession
        <4> QED BY <2>1, <3>2, <4>2, <4>3 DEF InSession
      <3> QED BY <3>1, <3>2
    <2> QED BY <1>0, <2>1, <2>2, <2>3, ReplyingQuiet
  <1>11. CASE GetBinary
    <2>1. PICK w \in Word : image' = Append(image, w)
      BY <1>11 DEF GetBinary
    <2>2. Len(image') = Len(image) + 1
      BY <1>0, <2>1, AppendFacts DEF TypeOK
    <2>3. /\ ppc = "data" /\ UNCHANGED <<p2u, accepted, soh, n, checksum>>
          /\ ppc' = IF AckDue(n - 4 * (Len(image) + 1)) THEN "sAck" ELSE MoreToHear(Len(image) + 1)
      BY <1>11, <2>2 DEF GetBinary, history
    <2>4. ppc' \in {"sAck", "data", "gEot"}
      BY <2>3, MoreToHearCases
    <2>5. ~RestOfEcho /\ ~DeadReplies
      BY <2>3 DEF RestOfEcho, DeadReplies
    <2>6. ASSUME InSession PROVE InSession'
      <3>1. n = Size /\ Size = 4 * Len(prog) /\ Len(image) + 1 <= Len(prog)
        <4>1. n = Size /\ Size = 4 * Len(prog) /\ 4 * Len(image) < n
          BY <1>0, <2>3, <2>6 DEF InSession, Size, Nbytes, ImageLength
        <4> QED BY <1>0, <4>1
      <3>2. (ppc' = "sAck" <=> DueAfter(Len(image) + 1))
        BY <2>3, <3>1, MoreToHearCases DEF DueAfter
      <3>3. /\ Cardinality(DueFrom(Len(image) + 1)) =
                 Cardinality(DueFrom((Len(image) + 1) + 1)) + (IF DueAfter(Len(image) + 1) THEN 1 ELSE 0)
            /\ Cardinality(DueFrom((Len(image) + 1) + 1)) \in Nat
        BY <1>0, <3>1, DueOneOn, DueFinite
      <3>4. StillDue = 0 + Cardinality(DueFrom(Len(image) + 1))
        BY <2>3 DEF StillDue
      <3>5. StillDue' <= StillDue /\ StillDue' \in Nat
        <4>1. CASE ppc' = "gEot"
          BY <1>0, <4>1 DEF StillDue
        <4>2. CASE ppc' \in {"sAck", "data"}
          <5>1. StillDue' = (IF ppc' = "sAck" THEN 1 ELSE 0) + Cardinality(DueFrom((Len(image) + 1) + 1))
            BY <1>2, <2>2, <4>2 DEF StillDue
          <5> QED BY <3>2, <3>3, <3>4, <4>2, <5>1
        <4> QED BY <2>4, <4>1, <4>2
      <3>6. Len(p2u') + StillDue' <= Wanted'
        BY <1>0, <1>3, <2>3, <2>6, <3>5 DEF InSession
      <3>7. n' = Size' /\ checksum' = Crc(prog', Size')
        BY <1>0, <1>3, <2>3, <2>6 DEF InSession
      <3> QED BY <2>4, <3>6, <3>7 DEF InSession
    <2> QED BY <1>0, <2>3, <2>4, <2>5, <2>6, ReplyingQuiet
  <1>12. CASE SayNext("sAck", ACK, MoreToHear(Len(image)))
    <2>1. /\ ppc = "sAck" /\ ppc' \in {"data", "gEot"} /\ p2u' = Append(p2u, ACK)
          /\ UNCHANGED <<accepted, image, soh, n, checksum>>
      BY <1>12, MoreToHearCases DEF SayNext, Say, history
    <2>2. Len(p2u') = Len(p2u) + 1 /\ (Stuck => Stuck')
      BY <1>4, <2>1, ControlWords
    <2>3. accepted = {} /\ ~RestOfEcho /\ ~DeadReplies
      BY <1>0, <2>1 DEF AcceptedOnce, RestOfEcho, DeadReplies
    <2>4. ASSUME InSession PROVE InSession'
      <3>1. Cardinality(DueFrom(Len(image) + 1)) \in Nat
        <4>1. Len(image) + 1 \in Nat
          BY <1>0
        <4> QED BY <1>0, <4>1, DueFinite
      <3>2. StillDue = 1 + Cardinality(DueFrom(Len(image) + 1))
        BY <2>1 DEF StillDue
      <3>3. StillDue' <= Cardinality(DueFrom(Len(image) + 1)) /\ StillDue' \in Nat
        <4>1. CASE ppc' = "gEot"
          BY <3>1, <4>1 DEF StillDue
        <4>2. CASE ppc' = "data"
          <5>1. StillDue' = 0 + Cardinality(DueFrom(Len(image) + 1))
            BY <1>2, <2>1, <4>2 DEF StillDue
          <5> QED BY <3>1, <5>1
        <4> QED BY <2>1, <4>1, <4>2
      <3>4. Len(p2u') + StillDue' <= Wanted'
        <4>1. Len(p2u) + StillDue <= Wanted
          BY <2>4 DEF InSession
        <4>2. \A l, d, e, c, wanted \in Nat : d = 1 + c /\ e <= c /\ l + d <= wanted => (l + 1) + e <= wanted
          OBVIOUS
        <4>3. Len(p2u) \in Nat /\ StillDue \in Nat /\ StillDue' \in Nat /\ Wanted \in Nat
          BY <1>0, <3>3
        <4> QED BY ONLY <1>3, <2>2, <3>1, <3>2, <3>3, <4>1, <4>2, <4>3
      <3>5. n' = Size' /\ checksum' = Crc(prog', Size')
        BY <1>0, <1>3, <2>1, <2>4 DEF InSession
      <3> QED BY <2>1, <3>4, <3>5 DEF InSession
    <2> QED BY <1>1, <2>1, <2>2, <2>3, <2>4 DEF Replying
  <1>13. CASE Verify
    <2>1. ppc = "verify" /\ UNCHANGED <<image, soh, n, checksum>> /\ accepted = {}
      BY <1>0, <1>13 DEF Verify, AcceptedOnce
    <2>2. ~RestOfEcho /\ ~DeadReplies
      BY <2>1 DEF RestOfEcho, DeadReplies
    <2>3. CASE checksum = Crc(image, n)
      <3>1. p2u' = Append(p2u, ACK) /\ ppc' = "settle" /\ accepted' = {image}
        BY <1>13, <2>1, <2>3 DEF Verify, Say
      <3>2. Stuck => Stuck'
        BY <1>4, <3>1, ControlWords
      <3>3. ASSUME InSession PROVE image = prog
        <4>1. image \in Program
          BY <1>0, <2>1, <2>3 DEF Collision, TypeOK
        <4>2. n = 4 * Len(prog) /\ n <= 4 * Len(image) /\ 4 * Len(image) < n + 4
          BY <1>0, <2>1, <3>3 DEF InSession, Size, Nbytes, ImageLength
        <4>3. Nbytes(image) = Nbytes(prog) /\ n = Nbytes(prog) /\ n = Nbytes(image)
          BY <1>0, <4>2 DEF Nbytes
        <4>4. Crc(image, Nbytes(image)) = Crc(prog, Nbytes(prog))
          BY <2>3, <3>3, <4>3 DEF InSession, Size
        <4> QED BY <1>0, <4>1, <4>3, <4>4 DEF Telling
      <3> QED BY <1>0, <1>1, <2>1, <2>2, <3>1, <3>2, <3>3 DEF Replying
    <2>4. CASE checksum # Crc(image, n)
      <3>1. ppc' = "die" /\ UNCHANGED <<p2u, accepted>>
        BY <1>13, <2>4 DEF Verify
      <3>2. InSession => DeadReplies'
        BY <1>0, <1>3, <3>1 DEF InSession, DeadReplies
      <3> QED BY <1>0, <2>2, <3>1, <3>2, ReplyingQuiet
    <2> QED BY <2>3, <2>4
  <1>14. CASE Branch
    <2>1. ppc = "settle" /\ ppc' = "running" /\ UNCHANGED <<p2u, accepted>>
      BY <1>14 DEF Branch, wires, history
    <2>2. ~RestOfEcho /\ ~InSession /\ ~DeadReplies
      BY <2>1 DEF RestOfEcho, InSession, DeadReplies
    <2> QED BY <1>0, <2>1, <2>2, ReplyingQuiet
  <1>15. CASE Die
    <2>1. ppc = "die" /\ ppc' = "down" /\ p2u' = Append(Append(p2u, NAK), Junk) /\ accepted' = accepted
      BY <1>0, <1>15 DEF Die, Reset, history
    <2> DEFINE once == Append(p2u, NAK)
    <2>2. once \in Seq(Word \cup {Junk}) /\ Len(once) = Len(p2u) + 1 /\ once[Len(p2u) + 1] = NAK
          /\ \A i \in 1..Len(p2u) : once[i] = p2u[i]
      BY <1>0, AppendFacts, ControlWords
    <2>3. /\ Len(p2u') = Len(p2u) + 2 /\ p2u'[Len(p2u) + 1] = NAK
          /\ \A i \in 1..Len(p2u) : p2u'[i] = p2u[i]
      <3> HIDE DEF once
      <3>1. p2u' = Append(once, Junk)
        BY <2>1 DEF once
      <3>2. Len(p2u') = Len(once) + 1 /\ \A i \in 1..Len(once) : p2u'[i] = once[i]
        BY <2>2, <3>1, AppendFacts
      <3> QED BY <1>0, <2>2, <3>2
    <2>4. accepted = {} /\ ~RestOfEcho /\ ~InSession
      BY <1>0, <2>1 DEF AcceptedOnce, RestOfEcho, InSession
    <2>5. ASSUME DeadReplies PROVE Stuck'
      <3>1. Len(p2u) + 1 \in 1..Len(p2u') /\ Len(p2u) + 1 <= Wanted' + 1 /\ p2u'[Len(p2u) + 1] # ACK
        BY <1>0, <1>3, <2>3, <2>5 DEF DeadReplies, NAK, ACK
      <3> QED BY <3>1 DEF Stuck
    <2>6. Stuck => Stuck'
      BY <1>0, <1>3, <2>3, StuckKeeps
    <2> QED BY <1>1, <2>1, <2>4, <2>5, <2>6 DEF Replying
  <1>16. CASE ProgramEnds
    <2>1. ppc = "running" /\ ppc' = "down" /\ p2u' = Append(p2u, Junk) /\ accepted' = accepted
      BY <1>16 DEF ProgramEnds, Reset, Say, history
    <2>2. ~RestOfEcho /\ ~InSession /\ ~DeadReplies
      BY <2>1 DEF RestOfEcho, InSession, DeadReplies
    <2> QED BY <1>0, <1>1, <1>4, <2>1, <2>2 DEF Replying
  <1>17. CASE PowerCycle
    <2>1. ppc' = "down" /\ UNCHANGED <<p2u, accepted>>
      BY <1>17 DEF PowerCycle, Reset, wires
    <2>2. RestOfEcho \/ InSession \/ DeadReplies => DeadReplies'
      BY <1>0, <1>3, <2>1 DEF RestOfEcho, InSession, DeadReplies
    <2> QED BY <1>0, <2>1, <2>2, ReplyingQuiet
  <1>18. CASE Restart \/ Listen
    <2>1. ppc' \in {"delay", "gSoh"} /\ UNCHANGED <<p2u, u2p, accepted>> /\ ppc \in {"down", "delay"}
      BY <1>18 DEF Restart, Listen, wires, history
    <2>2. Deadlocked'
      <3>1. CASE Restart
        <4>1. u2p = <<>> /\ upc \in UnixWaits /\ NoWordYet
          BY <3>1 DEF Restart, UnixQuiet, UnixReplies, UnixOver
        <4> QED BY <1>0, <2>1, <4>1 DEF Deadlocked, NoWordYet
      <3>2. CASE Listen
        <4>1. Deadlocked
          BY <1>1, <3>2 DEF Listen
        <4> QED BY <1>0, <2>1, <4>1 DEF Deadlocked, NoWordYet
      <3> QED BY <1>18, <3>1, <3>2
    <2>3. Stuck => Stuck'
      BY <1>3, <2>1 DEF Stuck
    <2>4. ~RestOfEcho /\ ~InSession /\ (DeadReplies => DeadReplies')
      BY <1>3, <2>1 DEF RestOfEcho, InSession, DeadReplies
    <2> QED BY <1>0, <1>1, <2>1, <2>2, <2>3, <2>4 DEF Replying
  <1>19. CASE Unheard
    <2>1. u2p # <<>> /\ UNCHANGED <<ppc, soh, n, checksum, image, p2u, accepted>>
      BY <1>19 DEF Unheard, pi, history
    <2>2. ~Deadlocked
      BY <2>1 DEF Deadlocked
    <2>3. StillDue' = StillDue
      BY <1>2, <2>1 DEF StillDue
    <2>4. (RestOfEcho => RestOfEcho') /\ (DeadReplies => DeadReplies')
      BY <1>3, <2>1 DEF RestOfEcho, DeadReplies
    <2>5. InSession => InSession'
      BY <1>0, <1>3, <2>1, <2>3 DEF InSession
    <2> QED BY <1>0, <1>1, <2>1, <2>2, <2>4, <2>5, ReplyingQuiet
  <1> QED BY <1>6, <1>7, <1>8, <1>9, <1>10, <1>11, <1>12, <1>13, <1>14, <1>15, <1>16, <1>17, <1>18, <1>19
      DEF Bootloader, NotMain

LEMMA ReplyingStep ==
  ASSUME TypeInv, UpsetInv, Telling, StaleCap <= 2, ~Collision, Next, ~Garble
  PROVE  Replying'
  <1>1. CASE SimpleBoot
    BY <1>1, ReplyingUnix
  <1>2. CASE Timeout \/ Interrupt
    BY <1>2 DEF Timeout, Interrupt, Replying, UnixReplies
  <1>3. CASE \E p \in Program : Start(p)
    BY <1>3 DEF Start, Replying, UnixReplies
  <1>4. CASE Bootloader \/ ProgramEnds \/ PowerCycle \/ Unheard
    <2>1. CASE upc \in UnixReplies
      BY <1>4, <2>1, ReplyingPi
    <2>2. CASE upc \notin UnixReplies
      BY <1>4, <2>2, PiLeaves DEF Replying
    <2> QED BY <2>1, <2>2
  <1> QED BY <1>1, <1>2, <1>3, <1>4 DEF Next, Running, Upset
-----------------------------------------------------------------------------
(* The invariant, and what follows from it.                                *)

LEMMA InitUpset ==
  ASSUME Init
  PROVE  UpsetInv
  <1>1. upc = "idle" /\ ppc = "delay" /\ u2p = <<>> /\ p2u = <<>> /\ image = <<>> /\ checksum = 0 /\ accepted = {}
    BY DEF Init
  <1>2. HeaderHears
    BY <1>1 DEF HeaderHears, UnixHeader, ACK
  <1>3. AcceptedOnce /\ EchoLast /\ ImageLength /\ AllPut /\ ImageFresh /\ Reading /\ NotOurs /\ Replying
    BY <1>1 DEF AcceptedOnce, EchoLast, ImageLength, AllPut, ImageFresh, Reading, NotOurs, Replying,
       PiEcho, UnixHeader, UnixReplies
  <1> QED BY <1>2, <1>3 DEF UpsetInv

LEMMA StutterUpset ==
  ASSUME UpsetInv, UNCHANGED vars
  PROVE  UpsetInv'
  <1>1. UNCHANGED <<upc, prog, put, ppc, soh, n, checksum, image, u2p, p2u, accepted>>
    BY DEF vars, unix, pi, wires, history
  <1>2. \A k : DueFrom(k)' = DueFrom(k)
    BY <1>1, SameDue
  <1>3. /\ Wanted' = Wanted /\ StillDue' = StillDue /\ Deadlocked' = Deadlocked /\ Size' = Size
        /\ WordsRead' = WordsRead /\ ToThird' = ToThird /\ EchoSaid' = EchoSaid
        /\ Echo' = Echo /\ EchoWords' = EchoWords
    BY <1>1, <1>2 DEF Wanted, StillDue, Deadlocked, NoWordYet, WordsRead, ToThird, EchoSaid, Echo, EchoWords, Size
  <1>4. AcceptedOnce' /\ HeaderHears' /\ ImageLength' /\ AllPut' /\ ImageFresh'
    BY <1>1 DEF UpsetInv, AcceptedOnce, HeaderHears, ImageLength, AllPut, ImageFresh, UnixQuiet, NoWordYet, HeaderWord
  <1>5. EchoLast' /\ NotOurs'
    BY <1>1, <1>3 DEF UpsetInv, EchoLast, NotOurs
  <1>6. Reading'
    <2>1. (FreshEcho => FreshEcho') /\ (NoEcho => NoEcho') /\ (DeadEcho => DeadEcho')
      BY <1>1, <1>3 DEF FreshEcho, NoEcho, DeadEcho, LeftOver
    <2> QED BY <1>1, <1>3, <2>1 DEF UpsetInv, Reading
  <1>7. Replying'
    <2>1. (Stuck => Stuck') /\ (RestOfEcho => RestOfEcho') /\ (InSession => InSession') /\ (DeadReplies => DeadReplies')
      BY <1>1, <1>3 DEF Stuck, RestOfEcho, InSession, DeadReplies
    <2> QED BY <1>1, <1>3, <2>1 DEF UpsetInv, Replying
  <1> QED BY <1>4, <1>5, <1>6, <1>7 DEF UpsetInv

\* A garbled word is counted.
LEMMA NoGarble ==
  ASSUME TypeOK, garbled' = 0
  PROVE  ~Garble
  <1>1. garbled \in Nat
    BY BoundAssumption DEF TypeOK
  <1> QED BY <1>1 DEF Garble

LEMMA UpsetStep ==
  ASSUME Telling, StaleCap <= 2, TypeInv, UpsetInv, [Next]_vars, garbled' = 0, ~Collision
  PROVE  UpsetInv'
  <1>1. CASE Next
    <2>1. ~Garble
      BY NoGarble DEF TypeInv
    <2>2. AcceptedOnce' /\ ImageLength' /\ AllPut' /\ ImageFresh'
      BY <1>1, AcceptedOnceStep, ImageLengthStep, AllPutStep, FreshStep DEF UpsetInv
    <2>3. EchoLast' /\ HeaderHears'
      BY <1>1, <2>1, EchoLastStep, HeaderHearsStep DEF UpsetInv
    <2>4. Reading' /\ NotOurs' /\ Replying'
      BY <1>1, <2>1, ReadingStep, NotOursStep, ReplyingStep
    <2> QED BY <2>2, <2>3, <2>4 DEF UpsetInv
  <1>2. CASE UNCHANGED vars
    BY <1>2, StutterUpset
  <1> QED BY <1>1, <1>2

\* my-install believes no ACK but that of a Pi that has its program.
LEMMA UpsetBelieves ==
  ASSUME TypeInv, UpsetInv, Believing, SimpleBoot
  PROVE  accepted = {prog}
  <1>1. upc = "wDone" /\ ~NoWordYet /\ Head(p2u) = ACK
    BY DEF Believing, SimpleBoot, PutNext, Expect, SendBinary
  <1>2. Replying /\ put = Len(prog) /\ upc \in UnixReplies /\ Len(prog) \in Nat
    BY <1>1, PlaceTypes DEF UpsetInv, AllPut, TypeInv, UnixReplies
  <1>3. Wanted = 0
    <2>1. Cardinality(DueFrom(put + 1)) = 0
      BY <1>2, DueEnds DEF TypeInv
    <2> QED BY <1>1, <2>1 DEF Wanted
  <1>4. p2u \in Seq(Word \cup {Junk}) /\ p2u # <<>> /\ Len(p2u) >= 1 /\ p2u[1] = ACK /\ Len(p2u) \in Nat
    BY <1>1, TailFacts, PlaceTypes DEF TypeInv, TypeOK, NoWordYet
  <1>5. ~Stuck /\ ~DeadReplies
    BY <1>3, <1>4 DEF Stuck, DeadReplies
  <1>6. ~RestOfEcho
    BY <1>3, <1>4 DEF RestOfEcho
  <1>7. ~InSession
    <2>1. StillDue \in Nat
      BY WantedType DEF TypeInv
    <2> QED BY <1>3, <1>4, <2>1 DEF InSession
  <1> QED BY <1>2, <1>5, <1>6, <1>7 DEF Replying

\* The step that BootSpec makes for one of the protocol.
LEMMA UpsetPromise ==
  ASSUME TypeInv, UpsetInv, ~Collision, [Next]_vars
  PROVE  [Promise!Next]_(Promise!vars)
  <1>1. CASE \E p \in Program : Start(p)
    <2>1. PICK p \in Program : Start(p)
      BY <1>1
    <2>2. /\ upc \in UnixOver /\ upc' = "soh" /\ prog' = p /\ offered' = offered \cup {p} /\ accepted' = {}
          /\ UNCHANGED <<ppc, image>>
      BY <2>1 DEF Start, pi
    <2> QED BY <2>2 DEF Promise!Next, Promise!Begin, UnixOver, UnixBusy, UnixWaits
  <1>2. CASE SimpleBoot \/ Timeout \/ Interrupt
    <2>1. Believing => SimpleBoot
      BY <1>2 DEF Timeout, Interrupt, Believing
    <2> QED BY <1>2, <2>1, UpsetBelieves, UnixPromise
  <1>3. CASE Bootloader \/ ProgramEnds \/ PowerCycle
    <2>1. Accepting => accepted = {}
      BY DEF Accepting, UpsetInv, AcceptedOnce
    <2>2. Accepting => image \in offered
      <3>1. Accepting => checksum = Crc(image, n)
        BY <1>3 DEF Accepting, Bootloader, NotMain, HearSoh, HearSize, HearChecksum, SayNext, HearExpected, GetBinary,
           Verify, Branch, Die, Restart, Listen, ProgramEnds, PowerCycle, Reset
      <3> QED BY <3>1 DEF Accepting, Collision
    <2> QED BY <1>3, <2>1, <2>2, PiPromise
  <1>4. CASE Unheard \/ Garble \/ UNCHANGED vars
    BY <1>4 DEF Unheard, Garble, Promise!vars, vars, unix, pi, history
  <1> QED BY <1>1, <1>2, <1>3, <1>4 DEF Next, Running, Upset

\* As long as no word is garbled and no mixture of words passes the checksum,
\* the invariant of the upsets holds, however often sessions are
\* interrupted, run again or lose the Pi.
THEOREM UpsetsHold ==
  ASSUME Telling, StaleCap <= 2
  PROVE  Spec /\ [](garbled = 0 /\ ~Collision) => []UpsetInv
  <1> DEFINE Calm == garbled = 0 /\ ~Collision
  <1>1. Init => UpsetInv
    BY InitUpset
  <1>2. TypeInv /\ UpsetInv /\ [Next]_vars /\ Calm /\ Calm' => UpsetInv'
    BY UpsetStep
  <1> HIDE DEF Calm
  <1>3. Spec /\ []Calm => []UpsetInv
    BY <1>1, <1>2, TypeCorrect, PTL DEF Spec
  <1> QED BY <1>3 DEF Calm

\* So BootProtocol implements BootSpec: the Pi accepts at most one image in a session,
\* and one that was offered; my-install reports success after the Pi has
\* accepted its program and never without it; the Pi runs nothing else.
THEOREM UpsetsKeepPromise ==
  ASSUME Telling, StaleCap <= 2
  PROVE  Spec /\ [](garbled = 0 /\ ~Collision) => KeepsPromise
  <1>1. Init => Promise!Init
    BY DEF Init, Promise!Init, UnixBusy, UnixWaits
  <1>2. TypeInv /\ UpsetInv /\ ~Collision /\ [Next]_vars => [Promise!Next]_(Promise!vars)
    BY UpsetPromise
  <1> QED BY <1>1, <1>2, UpsetsHold, TypeCorrect, PTL DEF Spec, KeepsPromise, Promise!Spec

-----------------------------------------------------------------------------
(* The size of an image.                                                   *)

\* The words that remain on the line after one has been taken or put.
LEMMA AckFacts ==
  ASSUME TypeOK
  PROVE  /\ u2p # <<>> /\ u2p' = Tail(u2p) /\ (\E i \in 1..Len(u2p') : u2p'[i] = ACK) =>
              \E i \in 1..Len(u2p) : u2p[i] = ACK
         /\ \A w \in Word :
              u2p' = Append(u2p, w) /\ w # ACK /\ (\E i \in 1..Len(u2p') : u2p'[i] = ACK) =>
                \E i \in 1..Len(u2p) : u2p[i] = ACK
  <1>0. u2p \in Seq(Word) /\ Len(u2p) \in Nat
    BY PlaceTypes DEF TypeOK
  <1>1. ASSUME u2p # <<>>, u2p' = Tail(u2p), NEW i \in 1..Len(u2p'), u2p'[i] = ACK
        PROVE  \E j \in 1..Len(u2p) : u2p[j] = ACK
    <2>1. Len(u2p') = Len(u2p) - 1 /\ u2p'[i] = u2p[i + 1]
      BY <1>0, <1>1, TailFacts
    <2>2. i + 1 \in 1..Len(u2p)
      BY <1>0, <2>1
    <2> QED BY <1>1, <2>1, <2>2
  <1>2. ASSUME NEW w \in Word, u2p' = Append(u2p, w), w # ACK, NEW i \in 1..Len(u2p'), u2p'[i] = ACK
        PROVE  \E j \in 1..Len(u2p) : u2p[j] = ACK
    <2>1. /\ Len(u2p') = Len(u2p) + 1 /\ u2p'[Len(u2p) + 1] = w
          /\ \A j \in 1..Len(u2p) : u2p'[j] = u2p[j]
      BY <1>0, <1>2, AppendFacts
    <2>2. i \in 1..Len(u2p)
      BY <1>0, <1>2, <2>1
    <2> QED BY <1>2, <2>1, <2>2
  <1> QED BY <1>1, <1>2

\* my-install has read its own size back when it takes the echo for read.
LEMMA SizeRead ==
  ASSUME TypeInv, UpsetInv, Telling, StaleCap = 0, Expect("wCk", Crc(prog, Nbytes(prog)), "ack"), ppc \in PiEcho
  PROVE  n = Size
  <1>1. /\ TypeOK /\ Reading /\ upc = "wCk" /\ ~NoWordYet /\ p2u # <<>> /\ Len(p2u) \in Nat /\ Len(p2u) >= 1
        /\ EchoSaid \in 0..3 /\ WordsRead = 2
    <2>1. TypeOK /\ Reading /\ upc = "wCk" /\ ~NoWordYet /\ p2u # <<>>
      BY DEF TypeInv, UpsetInv, Expect, NoWordYet
    <2> QED BY <2>1, PlaceTypes, TailFacts DEF TypeOK, WordsRead
  <1>2. FreshEcho
    BY <1>1 DEF Reading, UnixHeader, Deadlocked, NoEcho, DeadEcho, PiEcho, PiBlocks
  <1>3. EchoSaid = 3 /\ Len(p2u) = 1
    <2>1. Len(p2u) <= EchoSaid + 0 - 2
      BY <1>1, <1>2 DEF FreshEcho
    <2>2. \A l, e \in Int : l >= 1 /\ e <= 3 /\ l <= e + 0 - 2 => e = 3 /\ l = 1
      OBVIOUS
    <2>3. Len(p2u) \in Int /\ EchoSaid \in Int /\ EchoSaid <= 3 /\ Len(p2u) >= 1
      BY <1>1
    <2> QED BY ONLY <2>1, <2>2, <2>3
  <1>4. Echo[2] = EchoWords[2]
    BY <1>1, <1>2, <1>3 DEF FreshEcho
  <1>5. Crc(<<n>>, 4) = Crc(<<Size>>, 4)
    BY <1>4 DEF Echo, EchoWords
  <1>6. n \in Word /\ Size \in Word
    BY <1>1, ProgramAssumption DEF TypeOK, Size
  <1> QED BY <1>5, <1>6 DEF Telling

LEMMA SizeUnix ==
  ASSUME TypeInv, UpsetInv, SizeChecked, Telling, StaleCap = 0, SimpleBoot \/ Timeout \/ Interrupt
  PROVE  SizeChecked'
  <1>0. TypeOK /\ prog \in Program /\ UNCHANGED <<prog, ppc, n>> /\ Size' = Size
    BY UnixLeaves, SameProgram DEF TypeInv, TypeOK
  <1>1. upc' \in UnixReplies /\ ppc \in PiEcho => n = Size
    <2>1. CASE upc \in UnixReplies
      BY <2>1 DEF SizeChecked
    <2>2. CASE upc \notin UnixReplies
      <3>1. upc' \in UnixReplies => Expect("wCk", Crc(prog, Nbytes(prog)), "ack")
        BY <2>2, MoreToPutCases DEF SimpleBoot, PutNext, Expect, SendBinary, Timeout, Interrupt, UnixReplies
      <3> QED BY <3>1, SizeRead
    <2> QED BY <2>1, <2>2
  <1>2. ppc \in PiEcho /\ (\E i \in 1..Len(u2p') : u2p'[i] = ACK) => \E p \in Program : n = Nbytes(p)
    <2> SUFFICES ASSUME ppc \in PiEcho, \E i \in 1..Len(u2p') : u2p'[i] = ACK
                 PROVE  \E p \in Program : n = Nbytes(p)
      OBVIOUS
    <2>1. (\E i \in 1..Len(u2p) : u2p[i] = ACK) => \E p \in Program : n = Nbytes(p)
      BY DEF SizeChecked
    <2>2. CASE upc \in UnixReplies
      BY <1>0, <2>2 DEF SizeChecked, Size
    <2>3. CASE upc \notin UnixReplies
      <3>1. \/ u2p' = u2p
            \/ \E w \in HeaderWord : u2p' = Append(u2p, w)
        <4>1. /\ SOH \in HeaderWord /\ NAK \in HeaderWord /\ Nbytes(prog) \in HeaderWord
              /\ Crc(prog, Nbytes(prog)) \in HeaderWord
          BY <1>0 DEF HeaderWord
        <4> QED BY <2>3, <4>1 DEF SimpleBoot, PutNext, Put, Expect, SendBinary, Timeout, Interrupt, wires, UnixReplies
      <3>2. \A w \in HeaderWord : w \in Word /\ w # ACK
        BY HeaderWordFacts, WordAssumption, ControlWords, ProgramAssumption DEF HeaderWord
      <3> QED BY <1>0, <2>1, <3>1, <3>2, AckFacts
    <2> QED BY <2>2, <2>3
  <1> QED BY <1>0, <1>1, <1>2 DEF SizeChecked, Fits

LEMMA SizePi ==
  ASSUME TypeInv, UpsetInv, SizeChecked, Telling, Bootloader \/ ProgramEnds \/ PowerCycle \/ Unheard
  PROVE  SizeChecked'
  <1>0. /\ TypeOK /\ HeaderHears /\ Replying /\ UNCHANGED <<upc, prog>> /\ Size' = Size
        /\ u2p \in Seq(Word) /\ Len(u2p) \in Nat
    BY PiLeaves, SameProgram, PlaceTypes DEF TypeInv, TypeOK, UpsetInv
  <1>1. CASE HearSoh \/ HearSize
    BY <1>1 DEF HearSoh, HearSize, SizeChecked, PiEcho
  <1>2. CASE HearChecksum
    <2>1. ppc = "gCk" /\ ((ppc' = "sSoh" /\ Fits(n)) \/ ppc' = "die") /\ u2p # <<>> /\ u2p' = Tail(u2p) /\ n' = n
      BY <1>2 DEF HearChecksum, Hear
    <2>2. upc \notin UnixReplies
      BY <1>0, <2>1 DEF Replying
    <2>3. \A i \in 1..Len(u2p) : u2p[i] # ACK
      BY <1>0, <2>1, HeaderWordFacts DEF HeaderHears, PiHeader
    <2>4. ~\E i \in 1..Len(u2p') : u2p'[i] = ACK
      BY <1>0, <2>1, <2>3, AckFacts
    <2> QED BY <1>0, <2>1, <2>2, <2>4 DEF SizeChecked, PiEcho, Fits
  <1>3. CASE SayNext("sSoh", soh, "sN") \/ SayNext("sN", Crc(<<n>>, 4), "sCk") \/ SayNext("sCk", checksum, "gAck")
    <2>1. ppc \in PiEcho /\ ppc' \in PiEcho /\ UNCHANGED <<u2p, n>>
      BY <1>3 DEF SayNext, PiEcho
    <2> QED BY <1>0, <2>1 DEF SizeChecked, PiEcho, Fits
  <1>4. CASE HearExpected("gAck", ACK, MoreToHear(0))
    <2>1. ppc = "gAck" /\ ppc' \in {"data", "gEot", "die"} /\ (ppc' # "die" => Head(u2p) = ACK) /\ u2p # <<>> /\ n' = n
      BY <1>4, MoreToHearCases DEF HearExpected, Hear
    <2>2. Head(u2p) = ACK => \E p \in Program : n = Nbytes(p)
      <3>1. 1 \in 1..Len(u2p) /\ Head(u2p) = u2p[1]
        BY <1>0, <2>1, TailFacts
      <3> QED BY <2>1, <3>1 DEF SizeChecked, PiEcho
    <2> QED BY <1>0, <2>1, <2>2 DEF SizeChecked, PiEcho, Fits
  <1>5. CASE GetBinary \/ SayNext("sAck", ACK, MoreToHear(Len(image)))
    <2>1. ppc \in {"data", "sAck"} /\ ppc' \in {"data", "sAck", "gEot"} /\ n' = n
      BY <1>5, MoreToHearCases DEF GetBinary, SayNext
    <2> QED BY <1>0, <2>1 DEF SizeChecked, PiEcho, Fits
  <1>6. CASE HearExpected("gEot", EOT, "verify") \/ Verify \/ Branch \/ Die \/ ProgramEnds \/ PowerCycle \/ Restart \/ Listen
    <2>1. ppc' \notin PiEcho \cup {"data", "sAck"}
      BY <1>6 DEF HearExpected, Verify, Branch, Die, ProgramEnds, PowerCycle, Restart, Listen, Reset, PiEcho
    <2> QED BY <2>1 DEF SizeChecked
  <1>7. CASE Unheard
    <2>1. UNCHANGED <<ppc, n>> /\ u2p # <<>> /\ u2p' = Tail(u2p)
      BY <1>7 DEF Unheard, pi
    <2> QED BY <1>0, <2>1, AckFacts DEF SizeChecked, Fits
  <1> QED BY <1>1, <1>2, <1>3, <1>4, <1>5, <1>6, <1>7 DEF Bootloader, NotMain

LEMMA SizeStep ==
  ASSUME Telling, StaleCap = 0, TypeInv, UpsetInv, SizeChecked, [Next]_vars, garbled' = 0
  PROVE  SizeChecked'
  <1>1. CASE \E p \in Program : Start(p)
    <2>1. upc' = "soh" /\ UNCHANGED <<ppc, n>> /\ u2p' = u2p
      BY <1>1 DEF Start, pi
    <2> QED BY <2>1 DEF SizeChecked, UnixReplies, Fits
  <1>2. CASE SimpleBoot \/ Timeout \/ Interrupt
    BY <1>2, SizeUnix
  <1>3. CASE Bootloader \/ ProgramEnds \/ PowerCycle \/ Unheard
    BY <1>3, SizePi
  <1>4. CASE UNCHANGED vars
    <2>1. UNCHANGED <<upc, prog, ppc, n, u2p>> /\ Size' = Size
      BY <1>4, SameProgram DEF vars, unix, pi, wires
    <2> QED BY <2>1 DEF SizeChecked, Fits
  <1>5. ~Garble
    BY NoGarble DEF TypeInv
  <1> QED BY <1>1, <1>2, <1>3, <1>4, <1>5 DEF Next, Running, Upset

\* A size that would wrap does not get past the echo: with a tty that holds
\* nothing of an earlier session and no word garbled, what the Pi stores words for
\* is the size of a program, whatever word of which session it took for one; and
\* a size of a program does not wrap.
THEOREM SizeAlwaysHolds ==
  ASSUME Telling, StaleCap = 0, \A p \in Program : ARMBASE + Nbytes(p) < WordMod
  PROVE  Spec /\ [](garbled = 0 /\ ~Collision) => []SizeHolds
  <1> DEFINE Calm == garbled = 0 /\ ~Collision
  <1>1. Init => SizeChecked
    BY DEF Init, SizeChecked, PiEcho
  <1>2. TypeInv /\ UpsetInv /\ SizeChecked /\ [Next]_vars /\ Calm' => SizeChecked'
    BY SizeStep
  <1>3. SizeChecked => SizeHolds
    <2> SUFFICES ASSUME SizeChecked, ppc = "data" PROVE ARMBASE + n < ADDR_LIMIT
      BY DEF SizeHolds
    <2>1. PICK p \in Program : n = Nbytes(p)
      BY DEF SizeChecked
    <2>2. Fits(n) /\ n \in Nat /\ ARMBASE + n < WordMod
      BY <2>1, ProgramAssumption, WordAssumption DEF SizeChecked, Word
    <2>3. (ARMBASE + n) % WordMod = ARMBASE + n
      BY <2>2, LayoutAssumption, WordAssumption
    <2> QED BY <2>2, <2>3 DEF Fits
  <1>4. Spec /\ []Calm => []UpsetInv
    BY UpsetsHold
  <1> HIDE DEF Calm
  <1>5. Spec /\ []Calm => []SizeHolds
    BY <1>1, <1>2, <1>3, <1>4, TypeCorrect, PTL DEF Spec
  <1> QED BY <1>5 DEF Calm

-----------------------------------------------------------------------------
\* In a session the Pi accepts one image at most, whatever is garbled, interrupted
\* or left in the tty: once it has, it hears nothing more of the session.
THEOREM AcceptsOnce == Spec => [][Accepting => accepted = {}]_vars
  <1>1. Init => AcceptedOnce
    BY DEF Init, AcceptedOnce
  <1>2. TypeInv /\ AcceptedOnce /\ [Next]_vars => AcceptedOnce'
    <2>1. ASSUME AcceptedOnce, UNCHANGED vars PROVE AcceptedOnce'
      BY <2>1 DEF AcceptedOnce, UnixQuiet, NoWordYet, vars, unix, pi, wires, history
    <2> QED BY <2>1, AcceptedOnceStep
  <1>3. AcceptedOnce => [Accepting => accepted = {}]_vars
    BY DEF AcceptedOnce, Accepting
  <1> QED BY <1>1, <1>2, <1>3, TypeCorrect, PTL DEF Spec
=============================================================================
