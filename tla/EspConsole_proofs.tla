------------------------- MODULE EspConsole_proofs -------------------------
(***************************************************************************)
(* What the Pi and the console of the ESP do is proved here for every size *)
(* of the FIFO, every command, every answer and all that a reset leaves.   *)
(***************************************************************************)
EXTENDS EspConsole, TLAPS

-----------------------------------------------------------------------------
(* What is under way, where the session is calm.                           *)

Kinds == {"junk", "echo", "answer", "prompt"}
Said == [of : Kinds, row : Nat, text : Seq(Chars), at : Nat]
Ch == Chars \cup {NUL}
Inside(b) == b.at \in 1..Len(b.text)

Typed ==
  /\ pc \in Reading \cup {"idle", "put", "print", "end"}
  /\ cmd \in Commands /\ i \in 0..(Len(cmd) + 2) /\ (pc \in {"put", "get"} => i <= Len(cmd) + 1)
  /\ line \in Seq(Ch) /\ stale \in Ch /\ shown \in Seq(Seq(Ch)) /\ busy \in Nat
  /\ (pc = "rest" => line # <<>>)
  /\ out \in Seq(Said) /\ fifo \in Seq(Said) /\ Len(fifo) <= FifoSize
  /\ answer \in Answers /\ calm \in BOOLEAN
  /\ \A k \in 1..Len(out) : Inside(out[k])
  /\ \A k \in 1..Len(fifo) : Inside(fifo[k])

NoLF(b) == \A j \in 1..Len(b.text) : b.text[j] # LF
FifoNoLF == \A k \in 1..Len(fifo) : NoLF(fifo[k])

\* Until the LF of the command has been put, nothing under way has a line end.
Quiet == FifoNoLF /\ \A k \in 1..Len(out) : NoLF(out[k])

\* Then nothing before its echo has, and the answer is all that follows it.
Left == Len(out) - (Len(answer) + 1)
EchoAhead ==
  \/ fifo = <<Echo(LF)>> /\ out = Script(answer)
  \/ /\ FifoNoLF /\ Left >= 1 /\ out[Left] = Echo(LF)
     /\ \A k \in 1..(Left - 1) : NoLF(out[k])
     /\ \A k \in 1..(Len(answer) + 1) : out[Left + k] = Row(answer, k)

\* The first row that the ESP has still to send, and its next byte.
OutRow == Len(answer) + 2 - Len(out)
OutAt == IF out = <<>> THEN 1 ELSE out[1].at

\* Byte b is one of answer a, and (k, j) is the place after it.
OfAnswer(a, b) == b.row \in 1..(Len(a) + 1) /\ b = [Row(a, b.row) EXCEPT !.at = b.at]
Before(b, k, j) == IF b.at < Len(b.text) THEN k = b.row /\ j = b.at + 1 ELSE k = b.row + 1 /\ j = 1

OutIsRest ==
  /\ Len(out) <= Len(answer) + 1
  /\ \A k \in 1..Len(out) : OfAnswer(answer, out[k]) /\ out[k].row = OutRow + k - 1
  /\ \A k \in 2..Len(out) : out[k].at = 1
FifoIsRest ==
  /\ \A k \in 1..Len(fifo) : OfAnswer(answer, fifo[k]) /\ fifo[k].row <= OutRow
  /\ \A k, l \in 1..Len(fifo) : k <= l => fifo[k].row <= fifo[l].row
  /\ \A k \in 1..(Len(fifo) - 1) : Before(fifo[k], fifo[k + 1].row, fifo[k + 1].at)
  /\ fifo # <<>> => Before(fifo[Len(fifo)], OutRow, OutAt)

\* What is under way is the answer from this place on.
IsRest == OutIsRest /\ FifoIsRest
PlaceRow == IF fifo = <<>> THEN OutRow ELSE fifo[1].row
PlaceAt == IF fifo = <<>> THEN OutAt ELSE fifo[1].at
From(k, j) == IsRest /\ PlaceRow = k /\ PlaceAt = j

AllPlain == \A k \in 1..Len(answer) : Plain(answer[k])
ShownSoFar == Len(shown) <= Len(answer) /\ \A k \in 1..Len(shown) : shown[k] = answer[k]
Now == Len(shown) + 1

\* The bytes of a line that have been read, and room for what comes while it is
\* printed.
LineSoFar ==
  /\ Now <= Len(answer) /\ Len(line) \in 1..(Len(answer[Now]) + 1)
  /\ \A j \in 1..Len(line) : line[j] = Row(answer, Now).text[j]
  /\ Len(fifo) <= 1 \/ Len(fifo) + Len(line) <= FifoSize

LfPut == pc = "align" \/ (pc = "get" /\ i = Len(cmd) + 1)
Calm ==
  /\ pc \in {"idle", "put", "end"} \/ (pc = "get" /\ i <= Len(cmd)) => Quiet
  /\ LfPut => AllPlain /\ EchoAhead
  /\ pc \in {"put", "get", "align"} => shown = <<>>
  /\ pc \in {"first", "rest", "print"} => AllPlain /\ ShownSoFar
  /\ pc = "first" => From(Now, 1)
  /\ pc = "rest" => LineSoFar /\ From(Now, Len(line) + 1)
  /\ pc = "print" => From(Now, 1) /\ Len(fifo) + busy <= FifoSize
  /\ pc = "end" => shown = answer

Inv == Typed /\ (calm => Calm)
-----------------------------------------------------------------------------
(* Sequences and what they are made of.                                    *)

\* What is in a sequence over a set is in the set.
LEMMA InSeq == ASSUME NEW S, NEW s \in Seq(S), NEW k \in 1..Len(s) PROVE s[k] \in S
OBVIOUS

\* The tail of a sequence.
LEMMA TailIs ==
  ASSUME NEW S, NEW s \in Seq(S), s # <<>>
  PROVE /\ Tail(s) \in Seq(S) /\ Len(Tail(s)) = Len(s) - 1 /\ Len(s) >= 1
        /\ \A k \in 1..(Len(s) - 1) : Tail(s)[k] = s[k + 1]
        /\ Head(s) = s[1] /\ s[1] \in S
OBVIOUS

\* The sequence with one more at its end.
LEMMA AppendIs ==
  ASSUME NEW S, NEW s \in Seq(S), NEW e \in S
  PROVE /\ Append(s, e) \in Seq(S) /\ Len(Append(s, e)) = Len(s) + 1
        /\ \A k \in 1..Len(s) : Append(s, e)[k] = s[k]
        /\ Append(s, e)[Len(s) + 1] = e
OBVIOUS

\* Two sequences, one after the other.
LEMMA ConcatIs ==
  ASSUME NEW S, NEW s \in Seq(S), NEW t \in Seq(S)
  PROVE /\ s \o t \in Seq(S) /\ Len(s \o t) = Len(s) + Len(t)
        /\ \A k \in 1..Len(s) : (s \o t)[k] = s[k]
        /\ \A k \in 1..Len(t) : (s \o t)[Len(s) + k] = t[k]
OBVIOUS

\* A sequence with another first element.
LEMMA ExceptIs ==
  ASSUME NEW S, NEW s \in Seq(S), NEW e \in S, Len(s) >= 1
  PROVE LET t == [s EXCEPT ![1] = e]
        IN  t \in Seq(S) /\ Len(t) = Len(s) /\ t[1] = e /\ \A k \in 2..Len(s) : t[k] = s[k]
<1> DEFINE t == [s EXCEPT ![1] = e]
<1>1. Len(s) \in Nat /\ DOMAIN s = 1..Len(s) /\ s \in [1..Len(s) -> S]
  OBVIOUS
<1>2. t \in [1..Len(s) -> S] /\ t[1] = e /\ \A k \in 2..Len(s) : t[k] = s[k]
  BY <1>1
<1>3. t \in Seq(S) /\ Len(t) = Len(s)
  BY <1>1, <1>2
<1> QED
  BY <1>2, <1>3

\* An echo is one byte.
LEMMA EchoIs ==
  ASSUME NEW c \in Chars
  PROVE /\ Echo(c) \in Said /\ Inside(Echo(c)) /\ Echo(c).at = 1 /\ Echo(c).of = "echo"
        /\ Len(Echo(c).text) = 1 /\ Echo(c).text[1] = c
<1>1. <<c>> \in Seq(Chars) /\ Len(<<c>>) = 1 /\ <<c>>[1] = c
  OBVIOUS
<1> QED
  BY <1>1 DEF Echo, Piece, Said, Kinds, Inside

\* The rows of an answer: its lines with their ends, and the prompt.
LEMMA RowIs ==
  ASSUME NEW a \in Answers, NEW k \in 1..(Len(a) + 1)
  PROVE /\ a \in Seq(Seq(Chars)) /\ Len(a) \in Nat
        /\ Row(a, k) \in Said /\ Row(a, k).at = 1 /\ Row(a, k).row = k
        /\ Row(a, k).of \in {"answer", "prompt"}
        /\ k <= Len(a) =>
             /\ a[k] \in Seq(Chars) /\ Len(Row(a, k).text) = Len(a[k]) + 2
             /\ \A j \in 1..Len(a[k]) : Row(a, k).text[j] = a[k][j]
             /\ Row(a, k).text[Len(a[k]) + 1] = CR /\ Row(a, k).text[Len(a[k]) + 2] = LF
        /\ k = Len(a) + 1 =>
             /\ Len(Row(a, k).text) = 2 /\ Row(a, k).text[1] = GT /\ Row(a, k).text[2] = SP
<1>1. a \in Seq(Seq(Chars)) /\ Len(a) \in Nat
  BY EspAssumption
<1>2. <<CR, LF>> \in Seq(Chars) /\ Len(<<CR, LF>>) = 2 /\ <<CR, LF>>[1] = CR /\ <<CR, LF>>[2] = LF
  BY CharAssumption
<1>3. CASE k <= Len(a)
  <2>1. a[k] \in Seq(Chars)
    BY <1>1, <1>3, InSeq
  <2> DEFINE t == a[k] \o <<CR, LF>>
  <2>2. /\ t \in Seq(Chars) /\ Len(t) = Len(a[k]) + 2
        /\ \A j \in 1..Len(a[k]) : t[j] = a[k][j]
        /\ \A j \in 1..2 : t[Len(a[k]) + j] = <<CR, LF>>[j]
    BY <2>1, <1>2, ConcatIs
  <2>3. t[Len(a[k]) + 1] = CR /\ t[Len(a[k]) + 2] = LF
    BY <2>2, <1>2
  <2>4. Row(a, k) = Piece("answer", k, t)
    BY <1>3 DEF Row
  <2> HIDE DEF t
  <2> QED
    BY <1>1, <1>3, <2>1, <2>2, <2>3, <2>4 DEF Piece, Said, Kinds
<1>4. CASE k = Len(a) + 1
  <2>1. /\ <<GT, SP>> \in Seq(Chars) /\ Len(<<GT, SP>>) = 2
        /\ <<GT, SP>>[1] = GT /\ <<GT, SP>>[2] = SP
    BY CharAssumption
  <2>2. Row(a, k) = Piece("prompt", k, <<GT, SP>>)
    BY <1>1, <1>4 DEF Row
  <2>3. ~(k <= Len(a)) /\ k \in Nat
    BY <1>1, <1>4
  <2> QED
    BY <1>1, <2>1, <2>2, <2>3 DEF Piece, Said, Kinds
<1> QED
  BY <1>1, <1>3, <1>4

\* They begin at their first byte.
LEMMA RowInside ==
  ASSUME NEW a \in Answers, NEW k \in 1..(Len(a) + 1)
  PROVE Inside(Row(a, k))
<1>1. CASE k <= Len(a)
  <2>1. Len(a[k]) \in Nat
    BY <1>1, RowIs
  <2> QED
    BY <1>1, <2>1, RowIs DEF Inside
<1>2. CASE k = Len(a) + 1
  BY <1>2, RowIs DEF Inside
<1> QED
  BY <1>1, <1>2, RowIs

\* The answer as the ESP says it.
LEMMA ScriptIs ==
  ASSUME NEW a \in Answers
  PROVE /\ Script(a) \in Seq(Said) /\ Len(Script(a)) = Len(a) + 1
        /\ \A k \in 1..(Len(a) + 1) : Script(a)[k] = Row(a, k) /\ Inside(Script(a)[k])
<1>1. Len(a) \in Nat
  BY EspAssumption
<1>2. \A k \in 1..(Len(a) + 1) : Row(a, k) \in Said /\ Inside(Row(a, k))
  BY RowIs, RowInside
<1> QED
  BY <1>1, <1>2 DEF Script

\* A byte that is not the last of what it belongs to.
LEMMA RestSame ==
  ASSUME NEW o \in Seq(Said), o # <<>>, Inside(o[1]), o[1].at < Len(o[1].text)
  PROVE /\ Rest(o) \in Seq(Said) /\ Len(Rest(o)) = Len(o)
        /\ Rest(o)[1] = [o[1] EXCEPT !.at = o[1].at + 1] /\ Inside(Rest(o)[1])
        /\ Rest(o)[1].text = o[1].text /\ Rest(o)[1].at = o[1].at + 1
        /\ \A k \in 2..Len(o) : Rest(o)[k] = o[k]
<1>1. Len(o) \in Nat /\ Len(o) >= 1 /\ o[1] \in Said
  BY TailIs
<1>2. o[1].at \in Nat /\ Len(o[1].text) \in Nat /\ o[1].text \in Seq(Chars)
  BY <1>1 DEF Said
<1> DEFINE b == [o[1] EXCEPT !.at = o[1].at + 1]
<1>3. o[1].at + 1 \in Nat /\ o[1].at + 1 \in 1..Len(o[1].text)
  BY <1>2
<1>4. b \in Said
  BY <1>1, <1>3 DEF Said
<1>5. b.at = o[1].at + 1 /\ b.text = o[1].text
  BY <1>1 DEF Said
<1>6. Rest(o) = [o EXCEPT ![1] = b]
  BY DEF Rest
<1> HIDE DEF b
<1>7. Rest(o) \in Seq(Said) /\ Len(Rest(o)) = Len(o) /\ Rest(o)[1] = b
      /\ \A k \in 2..Len(o) : Rest(o)[k] = o[k]
  BY <1>1, <1>4, <1>6, ExceptIs
<1>8. Inside(b)
  BY <1>3, <1>5 DEF Inside
<1> QED
  BY <1>5, <1>7, <1>8 DEF b

\* And one that is.
LEMMA RestTail ==
  ASSUME NEW o \in Seq(Said), o # <<>>, ~(o[1].at < Len(o[1].text))
  PROVE /\ Rest(o) \in Seq(Said) /\ Len(Rest(o)) = Len(o) - 1
        /\ \A k \in 1..(Len(o) - 1) : Rest(o)[k] = o[k + 1]
<1>1. Rest(o) = Tail(o)
  BY DEF Rest
<1> QED
  BY <1>1, TailIs

\* What the ESP has to send keeps its type.
LEMMA RestIs ==
  ASSUME NEW o \in Seq(Said), o # <<>>, \A k \in 1..Len(o) : Inside(o[k])
  PROVE /\ Rest(o) \in Seq(Said) /\ \A k \in 1..Len(Rest(o)) : Inside(Rest(o)[k])
        /\ Len(o) >= 1 /\ o[1] \in Said /\ Inside(o[1])
<1>1. Len(o) \in Nat /\ Len(o) >= 1 /\ o[1] \in Said /\ Inside(o[1])
  BY TailIs
<1>2. CASE o[1].at < Len(o[1].text)
  <2>1. /\ Rest(o) \in Seq(Said) /\ Len(Rest(o)) = Len(o) /\ Inside(Rest(o)[1])
        /\ \A k \in 2..Len(o) : Rest(o)[k] = o[k]
    BY <1>1, <1>2, RestSame
  <2>2. \A k \in 1..Len(o) : Inside(Rest(o)[k])
    <3>1. TAKE k \in 1..Len(o)
    <3>2. CASE k = 1
      BY <2>1, <3>2
    <3>3. CASE k # 1
      <4>1. k \in 2..Len(o)
        BY <3>3, <1>1
      <4>2. Rest(o)[k] = o[k] /\ Inside(o[k])
        BY <4>1, <2>1
      <4> QED
        BY <4>2
    <3> QED
      BY <3>2, <3>3
  <2> QED
    BY <1>1, <2>1, <2>2
<1>3. CASE ~(o[1].at < Len(o[1].text))
  <2>1. /\ Rest(o) \in Seq(Said) /\ Len(Rest(o)) = Len(o) - 1
        /\ \A k \in 1..(Len(o) - 1) : Rest(o)[k] = o[k + 1]
    BY <1>3, RestTail
  <2>2. \A k \in 1..(Len(o) - 1) : Inside(Rest(o)[k])
    BY <2>1, <1>1
  <2> QED
    BY <1>1, <2>1, <2>2
<1> QED
  BY <1>2, <1>3
-----------------------------------------------------------------------------
(* Types.                                                                  *)

\* The Pi takes the first byte of the FIFO.
LEMMA GetIs ==
  ASSUME Typed, NEW ch, Get(ch)
  PROVE /\ fifo' \in Seq(Said) /\ Len(fifo) >= 1 /\ Len(fifo') = Len(fifo) - 1
        /\ \A k \in 1..Len(fifo') : fifo'[k] = fifo[k + 1]
        /\ \A k \in 1..Len(fifo') : Inside(fifo'[k])
        /\ fifo[1] \in Said /\ Inside(fifo[1]) /\ ch = Char(fifo[1]) /\ ch \in Chars
        /\ out' = out /\ answer' = answer /\ calm' = calm
<1>1. fifo \in Seq(Said) /\ fifo # <<>> /\ fifo' = Tail(fifo) /\ ch = Char(Head(fifo))
  BY DEF Typed, Get
<1>2. /\ fifo' \in Seq(Said) /\ Len(fifo) >= 1 /\ Len(fifo') = Len(fifo) - 1
      /\ \A k \in 1..Len(fifo') : fifo'[k] = fifo[k + 1]
      /\ fifo[1] \in Said /\ ch = Char(fifo[1])
  BY <1>1, TailIs
<1>3. Inside(fifo[1]) /\ \A k \in 1..Len(fifo') : Inside(fifo'[k])
  BY <1>1, <1>2 DEF Typed
<1>4. ch \in Chars
  BY <1>2, <1>3, InSeq DEF Said, Inside, Char
<1> QED
  BY <1>2, <1>3, <1>4 DEF Get

\* The FIFO takes the next byte of the ESP, when it has room.
LEMMA ArriveIs ==
  ASSUME Typed, Arrive
  PROVE /\ out' = Rest(out) /\ out # <<>>
        /\ out' \in Seq(Said) /\ \A k \in 1..Len(out') : Inside(out'[k])
        /\ fifo' \in Seq(Said) /\ Len(fifo') <= FifoSize
        /\ \A k \in 1..Len(fifo') : Inside(fifo'[k])
        /\ \/ fifo' = fifo /\ Len(fifo) = FifoSize
           \/ /\ fifo' = Append(fifo, out[1]) /\ Len(fifo') = Len(fifo) + 1 /\ Len(fifo) < FifoSize
              /\ fifo'[Len(fifo) + 1] = out[1]
              /\ \A k \in 1..Len(fifo) : fifo'[k] = fifo[k]
<1>1. out \in Seq(Said) /\ out # <<>> /\ out' = Rest(out) /\ fifo \in Seq(Said)
      /\ Len(fifo) \in Nat /\ Len(fifo) <= FifoSize /\ FifoSize \in Nat
  BY FifoAssumption DEF Typed, Arrive
<1>2. \A k \in 1..Len(out) : Inside(out[k])
  BY DEF Typed
<1>3. /\ out' \in Seq(Said) /\ \A k \in 1..Len(out') : Inside(out'[k])
      /\ Len(out) >= 1 /\ out[1] \in Said /\ Inside(out[1]) /\ Head(out) = out[1]
  <2>1. Rest(out) \in Seq(Said) /\ \A k \in 1..Len(Rest(out)) : Inside(Rest(out)[k])
    BY <1>1, <1>2, RestIs
  <2>2. Len(out) >= 1 /\ out[1] \in Said /\ Head(out) = out[1]
    BY <1>1, TailIs
  <2>3. Inside(out[1])
    BY <1>1, <1>2, <2>2
  <2> QED
    BY <1>1, <2>1, <2>2, <2>3
<1>4. CASE Len(fifo) < FifoSize
  <2>1. fifo' = Append(fifo, out[1])
    BY <1>3, <1>4 DEF Arrive
  <2>2. /\ fifo' \in Seq(Said) /\ Len(fifo') = Len(fifo) + 1 /\ fifo'[Len(fifo) + 1] = out[1]
        /\ \A k \in 1..Len(fifo) : fifo'[k] = fifo[k]
    BY <1>1, <1>3, <2>1, AppendIs
  <2>3. \A k \in 1..Len(fifo') : Inside(fifo'[k])
    <3>1. TAKE k \in 1..Len(fifo')
    <3>2. k \in 1..Len(fifo) \/ k = Len(fifo) + 1
      BY <1>1, <2>2
    <3> QED
      BY <3>2, <2>2, <1>3 DEF Typed
  <2> QED
    BY <1>1, <1>3, <1>4, <2>1, <2>2, <2>3
<1>5. CASE ~(Len(fifo) < FifoSize)
  <2>1. fifo' = fifo /\ Len(fifo) = FifoSize
    BY <1>1, <1>5 DEF Arrive
  <2> QED
    BY <1>1, <1>3, <2>1 DEF Typed
<1> QED
  BY <1>4, <1>5

\* The ESP gets a character.
LEMMA RespondIs ==
  ASSUME Typed, NEW c \in Chars, Respond(c)
  PROVE /\ out' \in Seq(Said) /\ \A k \in 1..Len(out') : Inside(out'[k])
        /\ answer' \in Answers /\ calm' \in BOOLEAN
        /\ c # LF => /\ out' = Append(out, Echo(c)) /\ answer' = answer /\ calm' = calm
        /\ c = LF => /\ Len(out') = Len(out) + Len(answer') + 2 /\ (calm' => calm /\ AllPlain')
                     /\ out'[Len(out) + 1] = Echo(LF)
                     /\ \A k \in 1..Len(out) : out'[k] = out[k]
                     /\ \A k \in 1..(Len(answer') + 1) : out'[Len(out) + 1 + k] = Row(answer', k)
<1>1. out \in Seq(Said) /\ Len(out) \in Nat /\ \A k \in 1..Len(out) : Inside(out[k])
  BY DEF Typed
<1> DEFINE e == Append(out, Echo(c))
<1>2. /\ e \in Seq(Said) /\ Len(e) = Len(out) + 1 /\ e[Len(out) + 1] = Echo(c)
      /\ \A k \in 1..Len(out) : e[k] = out[k]
  BY <1>1, EchoIs, AppendIs
<1>3. \A k \in 1..Len(e) : Inside(e[k])
  <2>1. TAKE k \in 1..Len(e)
  <2>2. k \in 1..Len(out) \/ k = Len(out) + 1
    BY <1>1, <1>2
  <2> QED
    BY <2>2, <1>1, <1>2, EchoIs
<1> HIDE DEF e
<1>4. CASE c # LF
  <2>1. out' = e /\ answer' = answer /\ calm' = calm
    BY <1>4 DEF Respond, e
  <2> QED
    BY <2>1, <1>2, <1>3, <1>4 DEF Typed, e
<1>5. CASE c = LF
  <2>1. PICK a \in Answers : /\ answer' = a /\ calm' = (calm /\ \A k \in 1..Len(a) : Plain(a[k]))
                             /\ out' = e \o Script(a)
    BY <1>5 DEF Respond, e
  <2>2. Len(a) \in Nat
    BY EspAssumption
  <2>3. /\ out' \in Seq(Said) /\ Len(out') = Len(e) + Len(Script(a))
        /\ \A k \in 1..Len(e) : out'[k] = e[k]
        /\ \A k \in 1..Len(Script(a)) : out'[Len(e) + k] = Script(a)[k]
    <3> DEFINE t == Script(a)
    <3>1. t \in Seq(Said) /\ e \in Seq(Said)
      BY <1>2, ScriptIs
    <3> HIDE DEF t
    <3>2. /\ e \o t \in Seq(Said) /\ Len(e \o t) = Len(e) + Len(t)
          /\ \A k \in 1..Len(e) : (e \o t)[k] = e[k]
          /\ \A k \in 1..Len(t) : (e \o t)[Len(e) + k] = t[k]
      BY <3>1, ConcatIs
    <3>3. out' = e \o t
      BY <2>1 DEF t
    <3> QED
      BY <3>2, <3>3 DEF t
  <2>4. /\ Len(out') = Len(out) + Len(a) + 2 /\ out'[Len(out) + 1] = Echo(LF)
        /\ \A k \in 1..Len(out) : out'[k] = out[k]
        /\ \A k \in 1..(Len(a) + 1) : out'[Len(out) + 1 + k] = Row(a, k) /\ Inside(Row(a, k))
    <3>1. /\ Len(Script(a)) = Len(a) + 1 /\ Len(e) = Len(out) + 1
          /\ \A k \in 1..(Len(a) + 1) : Script(a)[k] = Row(a, k) /\ Inside(Script(a)[k])
      BY <1>2, ScriptIs
    <3>2. Len(out') = Len(out) + Len(a) + 2
      BY <3>1, <2>3, <2>2, <1>1
    <3>3. out'[Len(out) + 1] = Echo(LF) /\ \A k \in 1..Len(out) : out'[k] = out[k]
      BY <2>3, <1>1, <1>2, <1>5
    <3> QED
      BY <3>1, <3>2, <3>3, <2>3
  <2>5. \A k \in 1..Len(out') : Inside(out'[k])
    <3>1. TAKE k \in 1..Len(out')
    <3>2. CASE k \in 1..Len(e)
      BY <3>2, <2>3, <1>3
    <3>3. CASE k \notin 1..Len(e)
      <4>1. k - Len(e) \in 1..(Len(a) + 1) /\ k = Len(out) + 1 + (k - Len(e))
        BY <3>3, <1>1, <1>2, <2>2, <2>4
      <4> QED
        BY <4>1, <2>4
    <3> QED
      BY <3>2, <3>3
  <2> QED
    BY <1>5, <2>1, <2>3, <2>4, <2>5 DEF AllPlain
<1> QED
  BY <1>4, <1>5

\* A line without its last byte.
LEMMA FrontIs ==
  ASSUME NEW S, NEW s \in Seq(S), s # <<>>
  PROVE /\ Front(s) \in Seq(S) /\ Len(Front(s)) = Len(s) - 1 /\ Len(s) >= 1
        /\ \A k \in 1..(Len(s) - 1) : Front(s)[k] = s[k]
        /\ Last(s) = s[Len(s)]
<1>1. Len(s) \in Nat /\ Len(s) >= 1 /\ \A k \in 1..(Len(s) - 1) : s[k] \in S
  OBVIOUS
<1> DEFINE n == Len(s) - 1
<1>2. n \in Nat /\ \A k \in 1..n : s[k] \in S
  BY <1>1
<1> HIDE DEF n
<1>3. SubSeq(s, 1, n) = [k \in 1..n |-> s[k]]
  BY <1>2
<1>4. Front(s) = [k \in 1..n |-> s[k]]
  BY <1>3 DEF Front, n
<1>5. Front(s) \in Seq(S) /\ Len(Front(s)) = n
  BY <1>2, <1>4
<1> QED
  BY <1>1, <1>4, <1>5 DEF Last, n

\* The command with its line end.
LEMMA LineIs ==
  ASSUME NEW c \in Commands, NEW k \in 0..(Len(c) + 1)
  PROVE /\ Len(c) \in Nat \ {0} /\ (c \o <<CR, LF>>)[k + 1] \in Chars /\ Head(c) \in Chars
        /\ (c \o <<CR, LF>>)[k + 1] = LF <=> k = Len(c) + 1
<1>1. c \in Seq(Chars \ {LF}) /\ c # <<>> /\ c \in Seq(Chars)
  BY CommandAssumption
<1>2. Len(c) \in Nat /\ Len(c) >= 1 /\ c[1] = Head(c) /\ \A j \in 1..Len(c) : c[j] \in Chars \ {LF}
  BY <1>1
<1>3. <<CR, LF>> \in Seq(Chars) /\ Len(<<CR, LF>>) = 2 /\ <<CR, LF>>[1] = CR /\ <<CR, LF>>[2] = LF
  BY CharAssumption
<1>4. /\ \A j \in 1..Len(c) : (c \o <<CR, LF>>)[j] = c[j]
      /\ \A j \in 1..2 : (c \o <<CR, LF>>)[Len(c) + j] = <<CR, LF>>[j]
  BY <1>1, <1>3, ConcatIs
<1>5. CASE k < Len(c)
  <2>1. k + 1 \in 1..Len(c)
    BY <1>2, <1>5
  <2> QED
    BY <2>1, <1>2, <1>4
<1>6. CASE k = Len(c)
  <2>1. (c \o <<CR, LF>>)[k + 1] = CR
    BY <1>3, <1>4, <1>6
  <2> QED
    BY <2>1, <1>2, <1>6, CharAssumption
<1>7. CASE k = Len(c) + 1
  <2>1. Len(c) + 2 = k + 1
    BY <1>2, <1>7
  <2>2. (c \o <<CR, LF>>)[k + 1] = LF
    BY <1>3, <1>4, <2>1
  <2> QED
    BY <2>2, <1>2, <1>7, CharAssumption
<1> QED
  BY <1>2, <1>5, <1>6, <1>7

\* Types hold at first.
LEMMA InitTyped == Init => Typed
<1> SUFFICES ASSUME Init PROVE Typed
  OBVIOUS
<1>1. PICK s \in Junk : /\ out = IF s = <<>> THEN <<>> ELSE <<Piece("junk", 0, s)>>
                       /\ calm = \A k \in 1..Len(s) : s[k] # LF
  BY DEF Init
<1>2. s \in Seq(Chars) /\ Len(s) \in Nat
  BY EspAssumption
<1>3. out \in Seq(Said) /\ \A k \in 1..Len(out) : Inside(out[k])
  <2>1. CASE s = <<>>
    BY <1>1, <2>1
  <2>2. CASE s # <<>>
    <3> DEFINE p == Piece("junk", 0, s)
    <3>1. p \in Said /\ Inside(p)
      BY <1>2, <2>2 DEF Piece, Said, Kinds, Inside
    <3>2. out = <<p>>
      BY <1>1, <2>2
    <3> HIDE DEF p
    <3> QED
      BY <3>1, <3>2
  <2> QED
    BY <2>1, <2>2
<1>4. fifo \in Seq(Said) /\ Len(fifo) = 0 /\ line \in Seq(Ch) /\ shown \in Seq(Seq(Ch))
  BY DEF Init
<1>5. Len(cmd) \in Nat
  BY CommandAssumption DEF Init
<1>6. calm \in BOOLEAN
  BY <1>1
<1> QED
  BY <1>3, <1>4, <1>5, <1>6, FifoAssumption, CharAssumption DEF Init, Typed, Reading, Ch

\* What Typed says of the Pi.
TypedPi ==
  /\ pc \in Reading \cup {"idle", "put", "print", "end"}
  /\ cmd \in Commands /\ i \in 0..(Len(cmd) + 2) /\ (pc \in {"put", "get"} => i <= Len(cmd) + 1)
  /\ line \in Seq(Ch) /\ stale \in Ch /\ shown \in Seq(Seq(Ch)) /\ busy \in Nat
  /\ (pc = "rest" => line # <<>>)

\* What it says of the ESP and of the FIFO.
TypedEsp ==
  /\ out \in Seq(Said) /\ fifo \in Seq(Said) /\ Len(fifo) <= FifoSize
  /\ answer \in Answers /\ calm \in BOOLEAN
  /\ \A k \in 1..Len(out) : Inside(out[k])
  /\ \A k \in 1..Len(fifo) : Inside(fifo[k])

\* Each step keeps the types.
LEMMA NextTyped == Typed /\ [Next]_vars => Typed'
<1> SUFFICES ASSUME Typed, [Next]_vars PROVE Typed'
  OBVIOUS
<1> USE DEF TypedPi
<1>1. TypedPi /\ TypedEsp /\ Len(cmd) \in Nat /\ FifoSize \in Nat
  BY CommandAssumption, FifoAssumption DEF Typed, TypedEsp
<1>2. TypedPi' /\ TypedEsp' => Typed'
  BY DEF Typed, TypedEsp
<1>3. ASSUME NEW ch, Get(ch) PROVE TypedEsp' /\ ch \in Ch
  <2>1. /\ fifo' \in Seq(Said) /\ Len(fifo') = Len(fifo) - 1 /\ ch \in Chars
        /\ \A k \in 1..Len(fifo') : Inside(fifo'[k])
        /\ out' = out /\ answer' = answer /\ calm' = calm
    BY <1>3, GetIs
  <2>2. Len(fifo) \in Nat /\ Len(fifo) <= FifoSize
    BY <1>1 DEF TypedEsp
  <2>3. Len(fifo') <= FifoSize
    BY <2>1, <2>2, <1>1
  <2> QED
    BY <1>1, <2>1, <2>3 DEF TypedEsp, Ch
<1>4. ASSUME Arrive \/ UNCHANGED <<out, fifo>>, UNCHANGED <<answer, calm>> PROVE TypedEsp'
  <2>1. CASE Arrive
    BY <1>1, <1>4, <2>1, ArriveIs DEF TypedEsp
  <2>2. CASE UNCHANGED <<out, fifo>>
    BY <1>1, <1>4, <2>2 DEF TypedEsp
  <2> QED
    BY <1>4, <2>1, <2>2
<1>5. CASE Command
  <2>1. cmd' \in Commands /\ Head(cmd') \in Ch /\ Len(cmd') \in Nat
    BY <1>5, LineIs, CommandAssumption DEF Command, Ch
  <2>2. TypedPi'
    BY <1>1, <1>5, <2>1 DEF Command, Reading
  <2>3. TypedEsp'
    BY <1>1, <1>5 DEF Command, TypedEsp, esp
  <2> QED
    BY <2>2, <2>3, <1>2
<1>6. CASE PutByte
  <2>1. i \in 0..(Len(cmd) + 1)
    BY <1>1, <1>6 DEF PutByte
  <2>2. PICK c \in Chars : Respond(c)
    BY <1>1, <1>6, <2>1, LineIs DEF PutByte
  <2>3. TypedEsp'
    BY <1>1, <1>6, <2>2, RespondIs DEF PutByte, TypedEsp
  <2>4. TypedPi'
    BY <1>1, <1>6 DEF PutByte, pi, Reading
  <2> QED
    BY <2>3, <2>4, <1>2
<1>7. CASE GetEcho
  <2>1. TypedEsp'
    BY <1>7, <1>3 DEF GetEcho
  <2>2. i \in 0..(Len(cmd) + 1) /\ i' = i + 1 /\ pc' \in {"put", "first", "align"} /\ cmd' = cmd
        /\ (pc' = "put" => i' < Len(cmd) + 2)
    BY <1>1, <1>7 DEF GetEcho
  <2>3. i + 1 \in 0..(Len(cmd) + 2) /\ (i + 1 < Len(cmd) + 2 => i + 1 <= Len(cmd) + 1)
    BY <1>1, <2>2
  <2>4. i' \in 0..(Len(cmd') + 2) /\ (pc' \in {"put", "get"} => i' <= Len(cmd') + 1)
    BY <2>2, <2>3
  <2>5. TypedPi'
    BY <1>1, <1>7, <2>2, <2>4 DEF GetEcho, Reading
  <2> QED
    BY <2>1, <2>5, <1>2
<1>8. CASE Align
  <2>1. TypedEsp'
    BY <1>8, <1>3 DEF Align
  <2>2. TypedPi'
    BY <1>1, <1>8 DEF Align, Reading, pi
  <2> QED
    BY <2>1, <2>2, <1>2
<1>9. ASSUME NEW ch \in Ch, First(ch) PROVE TypedPi'
  <2>1. <<ch>> \in Seq(Ch)
    OBVIOUS
  <2>2. line' \in Seq(Ch) /\ pc' \in {"end", "rest"} /\ busy' \in Nat /\ (pc' = "rest" => line' # <<>>)
    <3>1. CASE ch = GT
      <4>1. pc' = "end" /\ busy' = 4 /\ line' = line
        BY <1>9, <3>1 DEF First
      <4>2. line \in Seq(Ch) /\ 4 \in Nat
        BY <1>1
      <4> QED
        BY <4>1, <4>2
    <3>2. CASE ch # GT
      <4>1. pc' = "rest" /\ line' = <<ch>> /\ busy' = busy
        BY <1>9, <3>2 DEF First
      <4>2. <<ch>> # <<>> /\ busy \in Nat
        BY <1>1
      <4> QED
        BY <2>1, <4>1, <4>2
    <3> QED
      BY <3>1, <3>2
  <2> QED
    BY <1>1, <1>9, <2>2 DEF First, Reading
<1>10. CASE ReadFirst
  <2>1. TypedEsp' /\ Next1 \in Ch
    BY <1>10, <1>3 DEF ReadFirst
  <2>2. TypedPi'
    BY <1>10, <2>1, <1>9 DEF ReadFirst
  <2> QED
    BY <2>1, <2>2, <1>2
<1>11. CASE FirstGaveUp
  <2>1. TypedEsp'
    BY <1>1, <1>11 DEF FirstGaveUp, GaveUp, TypedEsp
  <2>2. TypedPi'
    BY <1>1, <1>11, <1>9 DEF FirstGaveUp
  <2> QED
    BY <2>1, <2>2, <1>2
<1>12. CASE ReadRest
  <2>1. TypedEsp' /\ Next1 \in Ch
    BY <1>12, <1>3 DEF ReadRest
  <2>2. CASE Next1 = LF /\ Last(line) = CR /\ line # <<>>
    <3>1. Front(line) \in Seq(Ch) /\ Len(line) \in Nat
      BY <1>1, <2>2, FrontIs
    <3>2. Append(shown, Front(line)) \in Seq(Seq(Ch))
      BY <1>1, <3>1, AppendIs
    <3>3. /\ pc' = "print" /\ shown' = Append(shown, Front(line)) /\ busy' = Len(line)
          /\ line' = line /\ stale' \in Ch /\ cmd' = cmd /\ i' = i
      BY <1>1, <1>12, <2>2 DEF ReadRest, Ch
    <3>4. TypedPi'
      BY <1>1, <3>1, <3>2, <3>3 DEF Reading
    <3> QED
      BY <2>1, <3>4, <1>2
  <2>3. CASE ~(Next1 = LF /\ Last(line) = CR)
    <3>1. Append(line, Next1) \in Seq(Ch) /\ Append(line, Next1) # <<>>
      BY <1>1, <2>1, AppendIs
    <3>2. /\ pc' = pc /\ shown' = shown /\ busy' = busy /\ line' = Append(line, Next1)
          /\ stale' = stale /\ cmd' = cmd /\ i' = i
      BY <1>12, <2>3 DEF ReadRest
    <3>3. TypedPi'
      BY <1>1, <3>1, <3>2
    <3> QED
      BY <2>1, <3>3, <1>2
  <2>4. line # <<>>
    BY <1>1, <1>12 DEF ReadRest
  <2> QED
    BY <2>2, <2>3, <2>4
<1>13. CASE RestGaveUp
  <2>1. TypedEsp'
    BY <1>1, <1>13 DEF RestGaveUp, GaveUp, TypedEsp
  <2>2. TypedPi'
    BY <1>1, <1>13 DEF RestGaveUp, pi
  <2> QED
    BY <2>1, <2>2, <1>2
<1>14. CASE Print1
  <2>1. TypedEsp'
    BY <1>14, <1>4 DEF Print1
  <2>2. busy - 1 \in Nat
    BY <1>1, <1>14 DEF Print1
  <2>3. TypedPi'
    BY <1>1, <1>14, <2>2 DEF Print1, pi
  <2> QED
    BY <2>1, <2>3, <1>2
<1>15. CASE Printed
  <2>1. TypedEsp'
    BY <1>1, <1>15 DEF Printed, TypedEsp, esp
  <2>2. TypedPi'
    BY <1>1, <1>15 DEF Printed, pi, Reading
  <2> QED
    BY <2>1, <2>2, <1>2
<1>16. CASE Deliver
  <2>1. TypedEsp'
    BY <1>16, <1>4 DEF Deliver
  <2>2. TypedPi'
    BY <1>1, <1>16 DEF Deliver, pi
  <2> QED
    BY <2>1, <2>2, <1>2
<1>17. CASE UNCHANGED vars
  BY <1>1, <1>17, <1>2 DEF vars, pi, esp, TypedEsp
<1> QED
  BY <1>5, <1>6, <1>7, <1>8, <1>10, <1>11, <1>12, <1>13, <1>14, <1>15, <1>16, <1>17 DEF Next, Talk

\* The types hold, whatever the ESP says and whenever it says it.
THEOREM EspTypes == Spec => []TypeOK
<1>1. Typed => TypeOK
  BY DEF Typed, TypeOK
<1> QED
  BY <1>1, InitTyped, NextTyped, PTL DEF Spec
-----------------------------------------------------------------------------
(* A byte moves from the ESP to the FIFO, or is taken by the Pi.           *)

\* What has no line end gets none.
LEMMA ArriveQuiet ==
  ASSUME Typed, Quiet, Arrive
  PROVE Quiet'
<1>1. /\ out \in Seq(Said) /\ out # <<>> /\ fifo \in Seq(Said) /\ out' = Rest(out)
      /\ \A k \in 1..Len(out) : Inside(out[k])
  BY DEF Typed, Arrive
<1>2. /\ NoLF(out[1]) /\ Len(out) >= 1 /\ out[1] \in Said /\ Len(out) \in Nat /\ Len(fifo) \in Nat
      /\ Inside(out[1])
  <2>1. Len(out) >= 1 /\ out[1] \in Said /\ Len(out) \in Nat
    BY <1>1, TailIs
  <2> QED
    BY <1>1, <2>1 DEF Quiet
<1>3. \A k \in 1..Len(Rest(out)) : NoLF(Rest(out)[k])
  <2>1. CASE out[1].at < Len(out[1].text)
    <3>1. Len(Rest(out)) = Len(out) /\ \A k \in 2..Len(out) : Rest(out)[k] = out[k]
      BY <1>1, <1>2, <2>1, RestSame
    <3>2. Rest(out)[1].text = out[1].text
      BY <1>1, <1>2, <2>1, RestSame
    <3>3. TAKE k \in 1..Len(Rest(out))
    <3>4. CASE k = 1
      BY <3>2, <3>4, <1>2 DEF NoLF
    <3>5. CASE k # 1
      <4>1. k \in 2..Len(out) /\ k \in 1..Len(out)
        BY <3>1, <3>5
      <4> QED
        BY <4>1, <3>1 DEF Quiet
    <3> QED
      BY <3>4, <3>5
  <2>2. CASE ~(out[1].at < Len(out[1].text))
    <3>1. Len(Rest(out)) = Len(out) - 1 /\ \A k \in 1..(Len(out) - 1) : Rest(out)[k] = out[k + 1]
      BY <1>1, <2>2, RestTail
    <3> QED
      BY <3>1, <1>2 DEF Quiet
  <2> QED
    BY <2>1, <2>2
<1>4. \A k \in 1..Len(fifo') : NoLF(fifo'[k])
  <2>1. CASE fifo' = fifo
    BY <2>1 DEF Quiet, FifoNoLF
  <2>2. CASE /\ Len(fifo') = Len(fifo) + 1 /\ fifo'[Len(fifo) + 1] = out[1]
             /\ \A k \in 1..Len(fifo) : fifo'[k] = fifo[k]
    <3>1. TAKE k \in 1..Len(fifo')
    <3>2. k \in 1..Len(fifo) \/ k = Len(fifo) + 1
      BY <1>2, <2>2
    <3> QED
      BY <3>2, <2>2, <1>2 DEF Quiet, FifoNoLF
  <2> QED
    BY <2>1, <2>2, ArriveIs
<1> QED
  BY <1>1, <1>3, <1>4 DEF Quiet, FifoNoLF

\* And the Pi leaves none.
LEMMA GetQuiet ==
  ASSUME Typed, Quiet, NEW ch, Get(ch)
  PROVE Quiet'
<1>1. Len(fifo) \in Nat /\ Len(fifo') = Len(fifo) - 1 /\ out' = out
      /\ \A k \in 1..Len(fifo') : fifo'[k] = fifo[k + 1]
  BY GetIs DEF Typed
<1> QED
  BY <1>1 DEF Quiet, FifoNoLF

\* A sequence of one.
LEMMA OneIs == ASSUME NEW S, NEW s \in Seq(S), Len(s) = 1 PROVE s = <<s[1]>>
OBVIOUS

\* Sequences that agree.
LEMMA SameSeq ==
  ASSUME NEW S, NEW T, NEW s \in Seq(S), NEW t \in Seq(T), Len(s) = Len(t), \A k \in 1..Len(s) : s[k] = t[k]
  PROVE s = t
OBVIOUS

\* The echo of LF stays where the echo ends.
LEMMA ArriveEcho ==
  ASSUME Typed, EchoAhead, fifo = <<>>, Arrive, answer' = answer
  PROVE EchoAhead'
<1>1. Len(answer) \in Nat /\ answer \in Answers /\ LF \in Chars
  BY EspAssumption, CharAssumption DEF Typed
<1>2. /\ out \in Seq(Said) /\ out # <<>> /\ out' = Rest(out) /\ out' \in Seq(Said)
      /\ \A k \in 1..Len(out) : Inside(out[k])
  BY ArriveIs DEF Typed
<1>3. Len(out) >= 1 /\ out[1] \in Said /\ Len(out) \in Nat /\ Inside(out[1])
      /\ out[1].at \in Nat /\ Len(out[1].text) \in Nat
  <2>1. Len(out) >= 1 /\ out[1] \in Said /\ Len(out) \in Nat
    BY <1>2, TailIs
  <2> QED
    BY <1>2, <2>1 DEF Said
<1>4. Left \in Int /\ Left >= 1 /\ out[Left] = Echo(LF) /\ Left = Len(out) - (Len(answer) + 1)
      /\ (\A k \in 1..(Left - 1) : NoLF(out[k]))
      /\ \A k \in 1..(Len(answer) + 1) : out[Left + k] = Row(answer, k)
  BY <1>1, <1>3 DEF EchoAhead, Left
<1>5. fifo' \in Seq(Said) /\ Len(fifo') = 1 /\ fifo'[1] = out[1]
  <2>1. Len(fifo) = 0 /\ FifoSize \in Nat \ {0}
    BY FifoAssumption
  <2> QED
    BY <2>1, ArriveIs
<1>6. CASE Left = 1
  <2>1. fifo' = <<Echo(LF)>>
    BY <1>4, <1>5, <1>6, OneIs
  <2>2. ~(out[1].at < Len(out[1].text))
    <3>1. out[1] = Echo(LF)
      BY <1>4, <1>6
    <3>2. Echo(LF).at = 1 /\ Len(Echo(LF).text) = 1
      BY <1>1, EchoIs
    <3> QED
      BY <3>1, <3>2
  <2>3. Len(out') = Len(answer) + 1 /\ \A k \in 1..(Len(out) - 1) : out'[k] = out[k + 1]
    <3>1. Len(out') = Len(out) - 1 /\ \A k \in 1..(Len(out) - 1) : out'[k] = out[k + 1]
      BY <1>2, <2>2, RestTail
    <3>2. Len(out) - 1 = Len(answer) + 1
      BY <1>1, <1>3, <1>4, <1>6
    <3> QED
      BY <3>1, <3>2
  <2>4. \A k \in 1..Len(out') : out'[k] = Script(answer)[k]
    <3>1. TAKE k \in 1..Len(out')
    <3>2. k \in 1..(Len(answer) + 1) /\ k \in 1..(Len(out) - 1) /\ k + 1 = Left + k
      <4>1. Len(out') = Len(answer) + 1 /\ Len(out) - 1 = Len(answer) + 1
        BY <1>1, <1>3, <1>4, <1>6, <2>3
      <4>2. k \in 1..(Len(answer) + 1)
        BY <3>1, <4>1
      <4> QED
        BY <4>1, <4>2, <1>1, <1>6
    <3>3. out'[k] = Row(answer, k)
      BY <3>2, <2>3, <1>4
    <3> QED
      BY <3>2, <3>3, <1>1, ScriptIs
  <2>5. Script(answer) \in Seq(Said) /\ Len(Script(answer)) = Len(answer) + 1
    BY <1>1, ScriptIs
  <2>6. out' = Script(answer)
    BY <1>2, <2>3, <2>4, <2>5, SameSeq
  <2> QED
    BY <2>1, <2>6 DEF EchoAhead
<1>7. CASE Left > 1
  <2>1. NoLF(out[1])
    BY <1>4, <1>7
  <2>2. \A k \in 1..Len(fifo') : NoLF(fifo'[k])
    BY <1>5, <2>1
  <2> DEFINE n == Len(Rest(out)) - (Len(answer) + 1)
  <2>3. n >= 1 /\ Rest(out)[n] = Echo(LF) /\ (\A k \in 1..(n - 1) : NoLF(Rest(out)[k]))
        /\ \A k \in 1..(Len(answer) + 1) : Rest(out)[n + k] = Row(answer, k)
    <3>1. CASE out[1].at < Len(out[1].text)
      <4>1. /\ Len(Rest(out)) = Len(out) /\ Rest(out)[1] = [out[1] EXCEPT !.at = out[1].at + 1]
            /\ \A k \in 2..Len(out) : Rest(out)[k] = out[k]
        BY <1>2, <1>3, <3>1, RestSame
      <4>2. n = Left /\ Left \in 2..Len(out)
        BY <4>1, <1>1, <1>3, <1>4, <1>7
      <4> HIDE DEF n
      <4>3. NoLF(Rest(out)[1])
        BY <4>1, <2>1, <1>3 DEF NoLF, Said
      <4>4. \A k \in 1..(n - 1) : NoLF(Rest(out)[k])
        <5>1. TAKE k \in 1..(n - 1)
        <5>2. k = 1 \/ (k \in 2..Len(out) /\ k \in 1..(Left - 1))
          BY <4>2, <1>3
        <5> QED
          BY <5>2, <4>1, <4>3, <1>4
      <4>5. \A k \in 1..(Len(answer) + 1) : Rest(out)[n + k] = Row(answer, k)
        <5>1. TAKE k \in 1..(Len(answer) + 1)
        <5>2. n + k \in 2..Len(out) /\ n + k = Left + k
          BY <4>2, <1>1, <1>3, <1>4
        <5> QED
          BY <5>2, <4>1, <1>4
      <4> QED
        BY <4>1, <4>2, <4>4, <4>5, <1>4
    <3>2. CASE ~(out[1].at < Len(out[1].text))
      <4>1. Len(Rest(out)) = Len(out) - 1 /\ \A k \in 1..(Len(out) - 1) : Rest(out)[k] = out[k + 1]
        BY <1>2, <3>2, RestTail
      <4>2. n = Left - 1 /\ n \in 1..(Len(out) - 1)
        BY <4>1, <1>1, <1>3, <1>4, <1>7
      <4> HIDE DEF n
      <4>3. \A k \in 1..(n - 1) : NoLF(Rest(out)[k])
        <5>1. TAKE k \in 1..(n - 1)
        <5>2. k \in 1..(Len(out) - 1) /\ k + 1 \in 1..(Left - 1)
          BY <4>2, <1>3
        <5> QED
          BY <5>2, <4>1, <1>4
      <4>4. \A k \in 1..(Len(answer) + 1) : Rest(out)[n + k] = Row(answer, k)
        <5>1. TAKE k \in 1..(Len(answer) + 1)
        <5>2. n + k \in 1..(Len(out) - 1) /\ n + k + 1 = Left + k
          BY <4>2, <1>1, <1>3, <1>4
        <5> QED
          BY <5>2, <4>1, <1>4
      <4>5. Rest(out)[n] = Echo(LF)
        <5>1. n + 1 = Left
          BY <4>2, <1>4
        <5>2. Rest(out)[n] = out[n + 1]
          BY <4>1, <4>2
        <5> QED
          BY <5>1, <5>2, <1>4
      <4> QED
        BY <4>2, <4>3, <4>4, <4>5
    <3> QED
      BY <3>1, <3>2
  <2>4. Left' = n
    BY <1>2 DEF Left
  <2> HIDE DEF n
  <2> QED
    BY <1>2, <2>2, <2>3, <2>4 DEF EchoAhead, FifoNoLF
<1> QED
  BY <1>4, <1>6, <1>7

\* The Pi takes a byte before the echo of LF, or that.
LEMMA GetEchoAhead ==
  ASSUME Typed, EchoAhead, NEW ch, Get(ch)
  PROVE \/ ch = LF /\ fifo' = <<>> /\ out' = Script(answer)
        \/ ch # LF /\ EchoAhead'
<1>1. LF \in Chars
  BY CharAssumption
<1>2. /\ fifo \in Seq(Said) /\ fifo' \in Seq(Said) /\ Len(fifo) \in Nat /\ Len(fifo) >= 1
      /\ Len(fifo') = Len(fifo) - 1 /\ \A k \in 1..Len(fifo') : fifo'[k] = fifo[k + 1]
      /\ fifo[1] \in Said /\ Inside(fifo[1]) /\ ch = Char(fifo[1]) /\ out' = out /\ answer' = answer
  BY GetIs DEF Typed
<1>3. CASE fifo = <<Echo(LF)>> /\ out = Script(answer)
  <2>1. Len(fifo) = 1 /\ fifo[1] = Echo(LF)
    BY <1>3
  <2>2. ch = LF
    BY <1>1, <1>2, <2>1, EchoIs DEF Char
  <2>3. Len(fifo') = 0
    BY <1>2, <2>1
  <2> QED
    BY <1>2, <1>3, <2>2, <2>3
<1>4. CASE /\ FifoNoLF /\ Left >= 1 /\ out[Left] = Echo(LF)
           /\ \A k \in 1..(Left - 1) : NoLF(out[k])
           /\ \A k \in 1..(Len(answer) + 1) : out[Left + k] = Row(answer, k)
  <2>1. ch # LF
    BY <1>2, <1>4 DEF FifoNoLF, NoLF, Inside, Char
  <2>2. FifoNoLF'
    BY <1>2, <1>4 DEF FifoNoLF
  <2>3. Left' = Left
    BY <1>2 DEF Left
  <2>4. EchoAhead'
    BY <1>2, <1>4, <2>2, <2>3 DEF EchoAhead
  <2> QED
    BY <2>1, <2>4
<1> QED
  BY <1>3, <1>4 DEF EchoAhead

\* The LF of the command is put: its echo and the answer are what comes last.
LEMMA LfIsPut ==
  ASSUME Typed, Quiet, Respond(LF), fifo' = fifo
  PROVE EchoAhead' /\ (calm' => AllPlain')
<1>1. /\ Len(out') = Len(out) + Len(answer') + 2 /\ (calm' => AllPlain')
      /\ out'[Len(out) + 1] = Echo(LF)
      /\ \A k \in 1..Len(out) : out'[k] = out[k]
      /\ \A k \in 1..(Len(answer') + 1) : out'[Len(out) + 1 + k] = Row(answer', k)
      /\ answer' \in Answers /\ Len(out) \in Nat
  BY RespondIs, CharAssumption DEF Typed
<1>2. Len(answer') \in Nat
  BY <1>1, EspAssumption
<1>3. Left' = Len(out) + 1
  BY <1>1, <1>2 DEF Left
<1>4. \A k \in 1..(Left' - 1) : NoLF(out'[k])
  <2>1. Left' - 1 = Len(out)
    BY <1>1, <1>3
  <2> QED
    BY <2>1, <1>1 DEF Quiet
<1>5. Left' >= 1 /\ FifoNoLF'
  BY <1>1, <1>3 DEF Quiet, FifoNoLF
<1> QED
  BY <1>1, <1>3, <1>4, <1>5 DEF EchoAhead

\* Another character of it is put.
LEMMA CharIsPut ==
  ASSUME Typed, Quiet, NEW c \in Chars \ {LF}, Respond(c), fifo' = fifo
  PROVE Quiet' /\ calm' = calm
<1>1. out \in Seq(Said) /\ Len(out) \in Nat /\ out' = Append(out, Echo(c)) /\ calm' = calm
  BY RespondIs DEF Typed
<1>2. NoLF(Echo(c))
  BY EchoIs DEF NoLF
<1>3. Len(out') = Len(out) + 1 /\ out'[Len(out) + 1] = Echo(c) /\ \A k \in 1..Len(out) : out'[k] = out[k]
  BY <1>1, EchoIs, AppendIs
<1>4. \A k \in 1..Len(out') : NoLF(out'[k])
  <2>1. TAKE k \in 1..Len(out')
  <2>2. k \in 1..Len(out) \/ k = Len(out) + 1
    BY <1>1, <1>3
  <2> QED
    BY <2>2, <1>2, <1>3 DEF Quiet
<1> QED
  BY <1>1, <1>4 DEF Quiet, FifoNoLF

\* With the echo taken, what is under way is the answer from its first byte on.
EchoTaken == fifo = <<>> /\ out = Script(answer)
AnswerBegins == From(1, 1)
LEMMA EchoDone == Typed /\ EchoTaken => AnswerBegins
<1> SUFFICES ASSUME Typed, fifo = <<>>, out = Script(answer) PROVE From(1, 1)
  BY DEF EchoTaken, AnswerBegins
<1>1. answer \in Answers /\ Len(answer) \in Nat
  BY EspAssumption DEF Typed
<1>2. /\ Len(out) = Len(answer) + 1 /\ \A k \in 1..(Len(answer) + 1) : out[k] = Row(answer, k)
  BY <1>1, ScriptIs
<1>3. OutRow = 1 /\ OutAt = 1 /\ out # <<>>
  <2>1. OutRow = 1
    BY <1>1, <1>2 DEF OutRow
  <2>2. 1 \in 1..(Len(answer) + 1) /\ out # <<>>
    BY <1>1, <1>2
  <2>3. out[1].at = 1
    BY <1>1, <1>2, <2>2, RowIs
  <2> QED
    BY <2>1, <2>2, <2>3 DEF OutAt
<1>4. OutIsRest
  <2>1. \A k \in 1..(Len(answer) + 1) : Row(answer, k) \in Said /\ Row(answer, k).row = k /\ Row(answer, k).at = 1
    BY <1>1, RowIs
  <2>2. ASSUME NEW k \in 1..Len(out)
        PROVE OfAnswer(answer, out[k]) /\ out[k].row = k /\ out[k].at = 1
    <3>1. k \in 1..(Len(answer) + 1) /\ out[k] = Row(answer, k)
      BY <1>2
    <3>2. Row(answer, k) = [Row(answer, k) EXCEPT !.at = 1]
      BY <2>1, <3>1 DEF Said
    <3> QED
      BY <2>1, <3>1, <3>2 DEF OfAnswer
  <2>3. Len(out) <= Len(answer) + 1
    BY <1>1, <1>2
  <2> QED
    BY <1>1, <1>3, <2>2, <2>3 DEF OutIsRest
<1>5. FifoIsRest
  <2>1. Len(fifo) = 0
    OBVIOUS
  <2> QED
    BY <2>1 DEF FifoIsRest
<1> QED
  BY <1>3, <1>4, <1>5 DEF From, IsRest, PlaceRow, PlaceAt

\* A byte of the answer that is not the last of its row has one after it.
LEMMA NextOfAnswer ==
  ASSUME NEW a \in Answers, NEW b \in Said, OfAnswer(a, b)
  PROVE OfAnswer(a, [b EXCEPT !.at = b.at + 1]) /\ [b EXCEPT !.at = b.at + 1].row = b.row
<1>1. b.row \in 1..(Len(a) + 1) /\ b = [Row(a, b.row) EXCEPT !.at = b.at] /\ Row(a, b.row) \in Said
  BY RowIs DEF OfAnswer
<1> DEFINE n == b.at + 1
           c == [b EXCEPT !.at = n]
<1>2. c.row = b.row /\ c.at = n
  BY DEF Said
<1>3. c = [Row(a, b.row) EXCEPT !.at = n]
  BY <1>1 DEF Said
<1> QED
  BY <1>1, <1>2, <1>3 DEF OfAnswer

\* What is under way stays the rest of the answer, from the same place on, when a
\* byte moves from the ESP to the FIFO.
LEMMA ArriveRest ==
  ASSUME Typed, IsRest, Len(fifo) < FifoSize, Arrive, answer' = answer
  PROVE IsRest' /\ PlaceRow' = PlaceRow /\ PlaceAt' = PlaceAt
<1>1. Len(answer) \in Nat /\ answer \in Answers
  BY EspAssumption DEF Typed
<1>2. /\ out \in Seq(Said) /\ out # <<>> /\ out' = Rest(out) /\ out' \in Seq(Said) /\ Len(out) \in Nat
      /\ fifo \in Seq(Said) /\ Len(fifo) \in Nat /\ FifoSize \in Nat
  BY ArriveIs, FifoAssumption DEF Typed
<1>3. Len(out) >= 1 /\ out[1] \in Said /\ Inside(out[1])
  BY <1>2, RestIs DEF Typed
<1>4. /\ fifo' \in Seq(Said) /\ Len(fifo') = Len(fifo) + 1 /\ fifo'[Len(fifo) + 1] = out[1]
      /\ \A k \in 1..Len(fifo) : fifo'[k] = fifo[k]
  BY <1>2, ArriveIs
<1>5. /\ Len(out) <= Len(answer) + 1 /\ OfAnswer(answer, out[1]) /\ out[1].row = OutRow
      /\ out[1].at = OutAt /\ OutRow \in Nat /\ OutAt \in Nat
      /\ \A k \in 1..Len(out) : OfAnswer(answer, out[k]) /\ out[k].row = OutRow + k - 1
      /\ \A k \in 2..Len(out) : out[k].at = 1
  <2>1. OutRow = Len(answer) + 2 - Len(out) /\ OutRow \in Int
    BY <1>1, <1>2 DEF OutRow
  <2>2. OutAt = out[1].at
    BY <1>2 DEF OutAt
  <2>3. 1 \in 1..Len(out) /\ Len(out) <= Len(answer) + 1
    BY <1>2, <1>3 DEF IsRest, OutIsRest
  <2>4. out[1].row = OutRow /\ out[1].at \in Nat
    BY <1>3, <2>1, <2>3 DEF IsRest, OutIsRest, Said
  <2>5. OutRow \in Nat
    BY <2>1, <2>3, <1>1, <1>2
  <2> QED
    BY <2>2, <2>3, <2>4, <2>5 DEF IsRest, OutIsRest
<1>6. OutIsRest' /\ Before(out[1], OutRow', OutAt') /\ OutRow <= OutRow'
  <2>1. CASE out[1].at < Len(out[1].text)
    <3> DEFINE b == [out[1] EXCEPT !.at = out[1].at + 1]
    <3>1. /\ Len(out') = Len(out) /\ out'[1] = b /\ out'[1].at = out[1].at + 1
          /\ \A k \in 2..Len(out) : out'[k] = out[k]
      BY <1>2, <1>3, <2>1, RestSame
    <3>2. OfAnswer(answer, b) /\ b.row = OutRow
      BY <1>1, <1>3, <1>5, NextOfAnswer
    <3> HIDE DEF b
    <3>3. OutRow' = OutRow
      BY <1>2, <3>1 DEF OutRow
    <3>4. OutAt' = out[1].at + 1
      <4>1. out' # <<>>
        BY <1>2, <1>3, <3>1
      <4> QED
        BY <3>1, <4>1 DEF OutAt
    <3>5. ASSUME NEW k \in 1..Len(out') PROVE OfAnswer(answer, out'[k]) /\ out'[k].row = OutRow + k - 1
      <4>1. CASE k = 1
        <5>1. OutRow + k - 1 = OutRow
          BY <4>1, <1>5
        <5> QED
          BY <4>1, <5>1, <3>1, <3>2
      <4>2. CASE k # 1
        <5>1. k \in 2..Len(out) /\ k \in 1..Len(out)
          BY <4>2, <3>1, <1>2
        <5> QED
          BY <5>1, <3>1, <1>5
      <4> QED
        BY <4>1, <4>2
    <3>6. \A k \in 2..Len(out') : out'[k].at = 1
      BY <3>1, <1>5
    <3>7. OutIsRest'
      BY <3>1, <3>3, <3>5, <3>6, <1>5 DEF OutIsRest
    <3> QED
      BY <2>1, <3>3, <3>4, <3>7, <1>5 DEF Before
  <2>2. CASE ~(out[1].at < Len(out[1].text))
    <3>1. Len(out') = Len(out) - 1 /\ \A k \in 1..(Len(out) - 1) : out'[k] = out[k + 1]
      BY <1>2, <2>2, RestTail
    <3>2. OutRow' = OutRow + 1
      <4>1. OutRow' = Len(answer) + 2 - (Len(out) - 1)
        BY <3>1 DEF OutRow
      <4> QED
        BY <4>1, <1>1, <1>2 DEF OutRow
    <3>3. OutAt' = 1
      <4>1. CASE out' = <<>>
        BY <4>1 DEF OutAt
      <4>2. CASE out' # <<>>
        <5>1. Len(out') \in Nat /\ Len(out') >= 1
          BY <4>2, <1>2
        <5>2. 1 \in 1..(Len(out) - 1) /\ 2 \in 2..Len(out)
          BY <5>1, <3>1, <1>2
        <5>3. out'[1] = out[2]
          BY <5>2, <3>1
        <5> QED
          BY <4>2, <5>2, <5>3, <1>5 DEF OutAt
      <4> QED
        BY <4>1, <4>2
    <3>4. ASSUME NEW k \in 1..Len(out')
          PROVE OfAnswer(answer, out'[k]) /\ out'[k].row = OutRow + 1 + k - 1 /\ out'[k].at = 1
      <4>1. k \in 1..(Len(out) - 1) /\ k + 1 \in 1..Len(out) /\ k + 1 \in 2..Len(out)
        BY <3>1, <1>2
      <4>2. out'[k] = out[k + 1]
        BY <4>1, <3>1
      <4>3. OutRow + (k + 1) - 1 = OutRow + 1 + k - 1
        BY <1>5, <4>1
      <4> QED
        BY <4>1, <4>2, <4>3, <1>5
    <3>5. Len(out') <= Len(answer) + 1
      BY <3>1, <1>1, <1>2, <1>5
    <3>6. \A k \in 2..Len(out') : out'[k].at = 1
      <4>1. TAKE k \in 2..Len(out')
      <4>2. k \in 1..Len(out')
        BY <3>1, <1>2
      <4> QED
        BY <4>2, <3>4
    <3>7. OutIsRest'
      BY <3>2, <3>4, <3>5, <3>6 DEF OutIsRest
    <3> QED
      BY <2>2, <3>2, <3>3, <3>7, <1>5 DEF Before
  <2> QED
    BY <2>1, <2>2
<1>7. FifoIsRest'
  <2> DEFINE n == Len(fifo)
  <2>1. ASSUME NEW k \in 1..n
        PROVE OfAnswer(answer, fifo[k]) /\ fifo[k].row <= OutRow /\ fifo[k].row \in Nat
    <3>1. fifo[k] \in Said
      BY <1>2, InSeq
    <3>2. fifo[k].row \in Nat
      BY <3>1 DEF Said
    <3> QED
      BY <3>2 DEF IsRest, FifoIsRest
  <2>2. \A k, l \in 1..n : k <= l => fifo[k].row <= fifo[l].row
    BY DEF IsRest, FifoIsRest
  <2>3. \A k \in 1..(n - 1) : Before(fifo[k], fifo[k + 1].row, fifo[k + 1].at)
    BY DEF IsRest, FifoIsRest
  <2>4. n >= 1 => Before(fifo[n], out[1].row, out[1].at)
    <3>1. n >= 1 => fifo # <<>>
      OBVIOUS
    <3> QED
      BY <3>1, <1>5 DEF IsRest, FifoIsRest
  <2>5. /\ n \in Nat /\ Len(fifo') = n + 1 /\ fifo'[n + 1] = out[1]
        /\ \A k \in 1..n : fifo'[k] = fifo[k]
    BY <1>2, <1>4
  <2> HIDE DEF n
  <2>6. OutRow' \in Nat
    <3>1. Len(out') \in Nat /\ Len(out') <= Len(answer) + 1
      BY <1>2, <1>6 DEF OutIsRest
    <3> QED
      BY <3>1, <1>1 DEF OutRow
  <2>7. ASSUME NEW k \in 1..(n + 1) PROVE OfAnswer(answer, fifo'[k]) /\ fifo'[k].row <= OutRow'
    <3>1. CASE k \in 1..n
      BY <3>1, <2>1, <2>5, <2>6, <1>5, <1>6
    <3>2. CASE k = n + 1
      BY <3>2, <2>5, <1>5, <1>6
    <3> QED
      BY <3>1, <3>2, <2>5
  <2>8. ASSUME NEW k \in 1..(n + 1), NEW l \in 1..(n + 1), k <= l PROVE fifo'[k].row <= fifo'[l].row
    <3>1. CASE l \in 1..n
      <4>1. k \in 1..n
        BY <3>1, <2>5, <2>8
      <4> QED
        BY <3>1, <4>1, <2>2, <2>5, <2>8
    <3>2. CASE l = n + 1
      <4>1. CASE k \in 1..n
        BY <3>2, <4>1, <2>1, <2>5, <1>5
      <4>2. CASE k = n + 1
        BY <3>2, <4>2, <2>5, <1>5
      <4> QED
        BY <4>1, <4>2, <2>5
    <3> QED
      BY <3>1, <3>2, <2>5
  <2>9. ASSUME NEW k \in 1..n PROVE Before(fifo'[k], fifo'[k + 1].row, fifo'[k + 1].at)
    <3>1. CASE k \in 1..(n - 1)
      <4>1. k + 1 \in 1..n
        BY <3>1, <2>5
      <4> QED
        BY <3>1, <4>1, <2>3, <2>5
    <3>2. CASE k = n
      <4>1. n >= 1
        BY <3>2, <2>5
      <4> QED
        BY <3>2, <4>1, <2>4, <2>5
    <3> QED
      BY <3>1, <3>2, <2>5
  <2>10. Before(fifo'[n + 1], OutRow', OutAt')
    BY <2>5, <1>6
  <2>11. Len(fifo') - 1 = n
    BY <2>5
  <2> QED
    BY <2>5, <2>7, <2>8, <2>9, <2>10, <2>11 DEF FifoIsRest
<1>8. PlaceRow' = PlaceRow /\ PlaceAt' = PlaceAt
  <2>1. fifo' # <<>>
    BY <1>2, <1>4
  <2>2. CASE fifo = <<>>
    <3>1. fifo'[1] = out[1]
      BY <2>2, <1>4
    <3> QED
      BY <2>1, <2>2, <3>1, <1>5 DEF PlaceRow, PlaceAt
  <2>3. CASE fifo # <<>>
    <3>1. 1 \in 1..Len(fifo)
      BY <2>3, <1>2
    <3> QED
      BY <2>1, <2>3, <3>1, <1>4 DEF PlaceRow, PlaceAt
  <2> QED
    BY <2>2, <2>3
<1> QED
  BY <1>6, <1>7, <1>8 DEF IsRest

\* When the Pi takes a byte, it is the one at that place, and the rest of the answer
\* begins at the next.
LEMMA GetRest ==
  ASSUME Typed, IsRest, NEW ch, Get(ch)
  PROVE /\ IsRest' /\ OfAnswer(answer, fifo[1]) /\ fifo[1].row = PlaceRow /\ fifo[1].at = PlaceAt
        /\ ch = Char(fifo[1]) /\ Before(fifo[1], PlaceRow', PlaceAt')
<1>1. /\ fifo \in Seq(Said) /\ fifo' \in Seq(Said) /\ Len(fifo) \in Nat /\ Len(fifo) >= 1
      /\ Len(fifo') = Len(fifo) - 1 /\ \A k \in 1..Len(fifo') : fifo'[k] = fifo[k + 1]
      /\ ch = Char(fifo[1]) /\ out' = out /\ answer' = answer
  BY GetIs DEF Typed
<1>2. fifo # <<>> /\ 1 \in 1..Len(fifo)
  BY <1>1
<1>3. OfAnswer(answer, fifo[1]) /\ fifo[1].row = PlaceRow /\ fifo[1].at = PlaceAt
  BY <1>2 DEF IsRest, FifoIsRest, PlaceRow, PlaceAt
<1>4. OutRow' = OutRow /\ OutAt' = OutAt
  BY <1>1 DEF OutRow, OutAt
<1>5. OutIsRest'
  BY <1>1, <1>4 DEF IsRest, OutIsRest
<1>6. ASSUME NEW k \in 1..Len(fifo')
      PROVE k + 1 \in 1..Len(fifo) /\ fifo'[k] = fifo[k + 1] /\ k \in 1..Len(fifo)
  BY <1>1
<1>7. FifoIsRest'
  <2>1. ASSUME NEW k \in 1..Len(fifo') PROVE OfAnswer(answer, fifo'[k]) /\ fifo'[k].row <= OutRow
    BY <1>6 DEF IsRest, FifoIsRest
  <2>2. ASSUME NEW k \in 1..Len(fifo'), NEW l \in 1..Len(fifo'), k <= l
        PROVE fifo'[k].row <= fifo'[l].row
    <3>1. k + 1 \in 1..Len(fifo) /\ l + 1 \in 1..Len(fifo) /\ k + 1 <= l + 1
          /\ fifo'[k] = fifo[k + 1] /\ fifo'[l] = fifo[l + 1]
      BY <1>6, <2>2
    <3> QED
      BY <3>1 DEF IsRest, FifoIsRest
  <2>3. ASSUME NEW k \in 1..(Len(fifo') - 1) PROVE Before(fifo'[k], fifo'[k + 1].row, fifo'[k + 1].at)
    <3>1. k + 1 \in 1..(Len(fifo) - 1) /\ k \in 1..Len(fifo') /\ k + 1 \in 1..Len(fifo')
      BY <1>1
    <3>2. fifo'[k] = fifo[k + 1] /\ fifo'[k + 1] = fifo[k + 1 + 1]
      BY <3>1, <1>1
    <3> QED
      BY <3>1, <3>2 DEF IsRest, FifoIsRest
  <2>4. ASSUME fifo' # <<>> PROVE Before(fifo'[Len(fifo')], OutRow, OutAt)
    <3>1. Len(fifo') \in 1..Len(fifo') /\ Len(fifo') + 1 = Len(fifo)
      BY <1>1, <2>4
    <3>2. fifo'[Len(fifo')] = fifo[Len(fifo)]
      BY <3>1, <1>1
    <3> QED
      BY <3>2, <1>2 DEF IsRest, FifoIsRest
  <2> QED
    BY <1>1, <1>4, <2>1, <2>2, <2>3, <2>4 DEF FifoIsRest
<1>8. Before(fifo[1], PlaceRow', PlaceAt')
  <2>1. CASE fifo' = <<>>
    <3>1. Len(fifo) = 1
      BY <2>1, <1>1
    <3> QED
      BY <2>1, <3>1, <1>2, <1>4 DEF IsRest, FifoIsRest, PlaceRow, PlaceAt
  <2>2. CASE fifo' # <<>>
    <3>1. 1 \in 1..Len(fifo') /\ 1 \in 1..(Len(fifo) - 1)
      BY <2>2, <1>1
    <3>2. fifo'[1] = fifo[1 + 1]
      BY <3>1, <1>1
    <3>3. Before(fifo[1], fifo[1 + 1].row, fifo[1 + 1].at)
      BY <3>1 DEF IsRest, FifoIsRest
    <3> QED
      BY <2>2, <3>2, <3>3 DEF PlaceRow, PlaceAt
  <2> QED
    BY <2>1, <2>2
<1> QED
  BY <1>1, <1>3, <1>5, <1>7, <1>8 DEF IsRest
-----------------------------------------------------------------------------
(* The calm session.                                                       *)

\* The character of a byte of the answer.
LEMMA CharOf ==
  ASSUME NEW a \in Answers, NEW b, OfAnswer(a, b)
  PROVE /\ b.row \in 1..(Len(a) + 1) /\ b.text = Row(a, b.row).text
        /\ Char(b) = Row(a, b.row).text[b.at]
<1>1. b.row \in 1..(Len(a) + 1) /\ b = [Row(a, b.row) EXCEPT !.at = b.at] /\ Row(a, b.row) \in Said
  BY RowIs DEF OfAnswer
<1>2. b.text = Row(a, b.row).text
  BY <1>1 DEF Said
<1> QED
  BY <1>1, <1>2 DEF Char

\* When the place is in the prompt, all that is under way is.
LEMMA OnlyPrompt ==
  ASSUME Typed, IsRest, PlaceRow = Len(answer) + 1
  PROVE Quiet
<1>1. answer \in Answers /\ Len(answer) \in Nat /\ Len(out) \in Nat /\ Len(fifo) \in Nat
  BY EspAssumption DEF Typed
<1>2. ASSUME NEW b, OfAnswer(answer, b), b.row = Len(answer) + 1 PROVE NoLF(b)
  <2>1. b.text = Row(answer, Len(answer) + 1).text
    BY <1>1, <1>2, CharOf
  <2>2. Len(b.text) = 2 /\ b.text[1] = GT /\ b.text[2] = SP
    BY <1>1, <2>1, RowIs
  <2> QED
    BY <2>2, CharAssumption DEF NoLF
<1>3. OutRow >= Len(answer) + 1 /\ OutRow \in Int
  <2>1. OutRow \in Int
    BY <1>1 DEF OutRow
  <2>2. CASE fifo = <<>>
    BY <2>1, <2>2, <1>1 DEF PlaceRow
  <2>3. CASE fifo # <<>>
    <3>1. 1 \in 1..Len(fifo) /\ fifo[1].row = Len(answer) + 1
      BY <2>3, <1>1 DEF PlaceRow
    <3>2. fifo[1].row <= OutRow
      BY <3>1 DEF IsRest, FifoIsRest
    <3> QED
      BY <2>1, <3>1, <3>2, <1>1
  <2> QED
    BY <2>2, <2>3
<1>4. ASSUME NEW k \in 1..Len(out) PROVE NoLF(out[k])
  <2>1. OfAnswer(answer, out[k]) /\ out[k].row = OutRow + k - 1
    BY DEF IsRest, OutIsRest
  <2>2. out[k].row \in 1..(Len(answer) + 1)
    BY <2>1 DEF OfAnswer
  <2>3. out[k].row = Len(answer) + 1
    BY <2>1, <2>2, <1>1, <1>3
  <2> QED
    BY <1>2, <2>1, <2>3
<1>5. ASSUME NEW k \in 1..Len(fifo) PROVE NoLF(fifo[k])
  <2>1. fifo # <<>> /\ 1 \in 1..Len(fifo) /\ 1 <= k
    BY <1>1
  <2>2. fifo[1].row = Len(answer) + 1 /\ fifo[1].row <= fifo[k].row
    BY <2>1 DEF PlaceRow, IsRest, FifoIsRest
  <2>3. OfAnswer(answer, fifo[k])
    BY DEF IsRest, FifoIsRest
  <2>4. fifo[k].row \in 1..(Len(answer) + 1)
    BY <2>3 DEF OfAnswer
  <2>5. fifo[k].row = Len(answer) + 1
    BY <2>2, <2>4, <1>1
  <2> QED
    BY <1>2, <2>3, <2>5
<1> QED
  BY <1>4, <1>5 DEF Quiet, FifoNoLF

\* The session is calm at first.
LEMMA InitCalm == Init /\ calm => Calm
<1> SUFFICES ASSUME Init, calm PROVE Calm
  OBVIOUS
<1>1. PICK s \in Junk : /\ out = IF s = <<>> THEN <<>> ELSE <<Piece("junk", 0, s)>>
                       /\ \A k \in 1..Len(s) : s[k] # LF
  BY DEF Init
<1>2. \A k \in 1..Len(out) : NoLF(out[k])
  <2>1. CASE s = <<>>
    BY <1>1, <2>1
  <2>2. CASE s # <<>>
    <3> DEFINE p == Piece("junk", 0, s)
    <3>1. NoLF(p)
      BY <1>1 DEF NoLF, Piece
    <3>2. out = <<p>>
      BY <1>1, <2>2
    <3> HIDE DEF p
    <3> QED
      BY <3>1, <3>2
  <2> QED
    BY <2>1, <2>2
<1>3. Quiet
  BY <1>2 DEF Quiet, FifoNoLF, Init
<1> QED
  BY <1>3 DEF Calm, LfPut, Init

\* A command is put, character by character, and echoed.
LEMMA PutCalm == ASSUME Typed, Typed', Calm, Command \/ PutByte, calm' PROVE Calm'
<1>1. Len(cmd) \in Nat
  BY CommandAssumption DEF Typed
<1>2. CASE Command
  <2>1. Quiet
    BY <1>2 DEF Command, Calm
  <2>2. Quiet'
    BY <1>2, <2>1 DEF Command, esp, Quiet, FifoNoLF
  <2> QED
    BY <1>2, <2>2 DEF Command, Calm, LfPut
<1>3. CASE PutByte
  <2>1. i \in 0..(Len(cmd) + 1) /\ pc = "put" /\ pc' = "get" /\ i' = i /\ cmd' = cmd
        /\ shown' = shown /\ fifo' = fifo /\ Respond((cmd \o <<CR, LF>>)[i + 1])
    BY <1>1, <1>3 DEF PutByte, pi, Typed
  <2>2. Quiet /\ shown' = <<>>
    BY <2>1 DEF Calm
  <2>3. CASE i = Len(cmd) + 1
    <3>1. Respond(LF)
      BY <2>1, <2>3, LineIs DEF Typed
    <3>2. EchoAhead' /\ AllPlain'
      BY <2>1, <2>2, <3>1, LfIsPut
    <3>3. ~(i' <= Len(cmd'))
      BY <2>1, <2>3, <1>1
    <3> QED
      BY <2>1, <2>2, <3>2, <3>3 DEF Calm, LfPut
  <2>4. CASE i # Len(cmd) + 1
    <3>1. (cmd \o <<CR, LF>>)[i + 1] \in Chars \ {LF}
      BY <2>1, <2>4, LineIs DEF Typed
    <3>2. Quiet'
      BY <2>1, <2>2, <3>1, CharIsPut
    <3> QED
      BY <2>1, <2>2, <2>4, <3>2 DEF Calm, LfPut
  <2> QED
    BY <2>3, <2>4
<1> QED
  BY <1>2, <1>3

\* The echo is taken, to its end.
LEMMA EchoCalm == ASSUME Typed, Typed', Calm, GetEcho \/ Align, calm' PROVE Calm'
<1>1. Len(cmd) \in Nat
  BY CommandAssumption DEF Typed
<1>2. Get(Next1) /\ shown' = shown /\ answer' = answer /\ cmd' = cmd /\ pc \in {"get", "align"}
  BY DEF GetEcho, Align, Get, pi
<1>3. shown' = <<>>
  BY <1>2 DEF Calm
<1>4. ASSUME AllPlain, EchoAhead, pc' = IF Next1 = LF THEN "first" ELSE "align" PROVE Calm'
  <2>1. AllPlain'
    BY <1>2, <1>4 DEF AllPlain
  <2>2. CASE Next1 = LF /\ fifo' = <<>> /\ out' = Script(answer)
    <3>1. EchoTaken'
      BY <1>2, <2>2 DEF EchoTaken
    <3>2. AnswerBegins'
      BY <3>1, EchoDone, PTL
    <3>3. Now' = 1 /\ ShownSoFar'
      <4>1. Len(shown') = 0
        BY <1>3
      <4>2. Len(answer') \in Nat
        BY EspAssumption DEF Typed
      <4> QED
        BY <4>1, <4>2 DEF Now, ShownSoFar
    <3>4. From(Now, 1)'
      BY <3>2, <3>3 DEF AnswerBegins, From
    <3>5. pc' = "first"
      BY <1>4, <2>2
    <3> QED
      BY <1>3, <2>1, <3>3, <3>4, <3>5 DEF Calm, LfPut
  <2>3. CASE Next1 # LF /\ EchoAhead'
    <3>1. pc' = "align"
      BY <1>4, <2>3
    <3> QED
      BY <1>3, <2>1, <2>3, <3>1 DEF Calm, LfPut
  <2> QED
    BY <1>2, <1>4, <2>2, <2>3, GetEchoAhead
<1>5. CASE GetEcho
  <2>1. /\ pc = "get" /\ i' = i + 1 /\ i \in 0..(Len(cmd) + 1)
        /\ pc' = IF i' < Len(cmd) + 2 THEN "put" ELSE IF Next1 = LF THEN "first" ELSE "align"
    BY <1>1, <1>5 DEF GetEcho, Typed
  <2>2. CASE i = Len(cmd) + 1
    <3>1. AllPlain /\ EchoAhead
      BY <2>1, <2>2 DEF Calm, LfPut
    <3>2. ~(i + 1 < Len(cmd) + 2)
      BY <2>2, <1>1
    <3> QED
      BY <1>4, <2>1, <3>1, <3>2
  <2>3. CASE i # Len(cmd) + 1
    <3>1. i <= Len(cmd) /\ i + 1 < Len(cmd) + 2
      BY <2>1, <2>3, <1>1
    <3>2. pc' = "put"
      BY <2>1, <3>1
    <3>3. Quiet
      BY <2>1, <3>1 DEF Calm
    <3>4. Quiet'
      BY <1>2, <3>3, GetQuiet
    <3> QED
      BY <1>3, <3>2, <3>4 DEF Calm, LfPut
  <2> QED
    BY <2>2, <2>3
<1>6. CASE Align
  <2>1. pc = "align" /\ pc' = IF Next1 = LF THEN "first" ELSE "align"
    BY <1>6 DEF Align
  <2>2. AllPlain /\ EchoAhead
    BY <2>1 DEF Calm, LfPut
  <2> QED
    BY <1>4, <2>1, <2>2
<1> QED
  BY <1>5, <1>6

\* The first byte of a line tells it from the prompt.
LEMMA FirstCalm == ASSUME Typed, Typed', Calm, ReadFirst PROVE Calm'
<1>1. /\ answer \in Answers /\ Len(answer) \in Nat /\ answer' = answer /\ shown' = shown
      /\ Len(shown) \in Nat /\ Len(fifo) \in Nat /\ FifoSize \in Nat /\ Len(fifo) <= FifoSize
      /\ answer \in Seq(Seq(Chars)) /\ shown \in Seq(Seq(Ch))
  BY EspAssumption, FifoAssumption DEF Typed, ReadFirst, First, Get
<1>2. pc = "first" /\ AllPlain /\ ShownSoFar /\ From(Now, 1) /\ Get(Next1) /\ First(Next1)
  BY DEF ReadFirst, First, Calm
<1>3. /\ IsRest' /\ OfAnswer(answer, fifo[1]) /\ fifo[1].row = Now /\ fifo[1].at = 1
      /\ Next1 = Char(fifo[1]) /\ Before(fifo[1], PlaceRow', PlaceAt')
  BY <1>2, GetRest DEF From
<1>4. /\ Now = Len(shown) + 1 /\ Now \in 1..(Len(answer) + 1) /\ fifo[1].text = Row(answer, Now).text
      /\ Next1 = Row(answer, Now).text[1]
  BY <1>1, <1>3, CharOf DEF Now
<1>5. AllPlain' /\ ShownSoFar' /\ Now' = Now
  BY <1>1, <1>2 DEF AllPlain, ShownSoFar, Now
<1>6. CASE Now = Len(answer) + 1
  <2>1. Next1 = GT
    BY <1>1, <1>4, <1>6, RowIs
  <2>2. pc' = "end"
    BY <1>2, <2>1 DEF First
  <2>3. shown = answer
    <3>1. Len(shown) = Len(answer) /\ \A k \in 1..Len(shown) : shown[k] = answer[k]
      BY <1>1, <1>2, <1>4, <1>6 DEF ShownSoFar
    <3> QED
      BY <1>1, <3>1, SameSeq
  <2>4. Quiet
    BY <1>2, <1>6, OnlyPrompt DEF From
  <2>5. Quiet'
    BY <1>2, <2>4, GetQuiet
  <2> QED
    BY <1>1, <2>2, <2>3, <2>5 DEF Calm, LfPut
<1>7. CASE Now \in 1..Len(answer)
  <2> DEFINE s == answer[Now]
  <2>1. /\ s \in Seq(Chars) /\ Len(s) \in Nat /\ Plain(s) /\ Len(Row(answer, Now).text) = Len(s) + 2
        /\ \A j \in 1..Len(s) : Row(answer, Now).text[j] = s[j]
        /\ Row(answer, Now).text[Len(s) + 1] = CR
    <3>1. s \in Seq(Chars) /\ Plain(s)
      BY <1>1, <1>2, <1>7, InSeq DEF AllPlain
    <3>2. Now \in 1..(Len(answer) + 1) /\ Now <= Len(answer)
      BY <1>1, <1>7
    <3>3. Row(answer, Now).text = s \o <<CR, LF>>
      BY <1>1, <3>2 DEF Row, Piece
    <3> HIDE DEF s
    <3> QED
      BY <3>1, <3>3
  <2>2. Next1 # GT
    <3>1. CASE Len(s) = 0
      BY <1>4, <2>1, <3>1, CharAssumption
    <3>2. CASE Len(s) # 0
      <4>1. 1 \in 1..Len(s) /\ s # <<>>
        BY <2>1, <3>2
      <4> QED
        BY <1>4, <2>1, <4>1 DEF Plain
    <3> QED
      BY <3>1, <3>2
  <2>3. pc' = "rest" /\ line' = <<Next1>>
    BY <1>2, <2>2 DEF First
  <2>4. Len(line') = 1 /\ line'[1] = Next1
    BY <2>3
  <2>5. PlaceRow' = Now /\ PlaceAt' = 2
    BY <1>3, <1>4, <2>1 DEF Before
  <2>6. From(Now, Len(line) + 1)'
    BY <1>3, <1>5, <2>4, <2>5 DEF From
  <2>7. Len(fifo') = Len(fifo) - 1
    BY <1>2, GetIs
  <2>8. LineSoFar'
    <3>1. Now' <= Len(answer') /\ Len(line') \in 1..(Len(answer'[Now']) + 1)
      BY <1>1, <1>5, <1>7, <2>1, <2>4
    <3>2. \A j \in 1..Len(line') : line'[j] = Row(answer', Now').text[j]
      BY <1>1, <1>4, <1>5, <2>4
    <3>3. Len(fifo') + Len(line') <= FifoSize
      BY <1>1, <2>4, <2>7
    <3> QED
      BY <3>1, <3>2, <3>3 DEF LineSoFar
  <2> QED
    BY <1>5, <2>3, <2>6, <2>8 DEF Calm, LfPut
<1> QED
  BY <1>1, <1>4, <1>6, <1>7

\* A line is read to its end, and no further; what comes while it is printed has
\* room.
LEMMA LineCalm == ASSUME Typed, Typed', Calm, ReadRest PROVE Calm'
<1>1. /\ answer \in Answers /\ Len(answer) \in Nat /\ answer' = answer
      /\ Len(shown) \in Nat /\ Len(fifo) \in Nat /\ FifoSize \in Nat
      /\ answer \in Seq(Seq(Chars)) /\ shown \in Seq(Seq(Ch)) /\ line \in Seq(Ch)
  <2>1. answer \in Answers /\ answer' = answer
    BY DEF Typed, ReadRest, Get
  <2>2. fifo \in Seq(Said) /\ shown \in Seq(Seq(Ch)) /\ line \in Seq(Ch)
    BY DEF Typed
  <2> QED
    BY <2>1, <2>2, EspAssumption, FifoAssumption
<1>2. /\ pc = "rest" /\ AllPlain /\ ShownSoFar /\ LineSoFar /\ From(Now, Len(line) + 1)
      /\ Get(Next1)
  BY DEF ReadRest, Calm
<1>3. /\ IsRest' /\ OfAnswer(answer, fifo[1]) /\ fifo[1].row = Now /\ fifo[1].at = Len(line) + 1
      /\ Next1 = Char(fifo[1]) /\ Before(fifo[1], PlaceRow', PlaceAt')
  BY <1>2, GetRest DEF From
<1>4. Now = Len(shown) + 1 /\ Now \in 1..Len(answer) /\ Now \in 1..(Len(answer) + 1)
  BY <1>1, <1>2 DEF Now, LineSoFar
<1> DEFINE s == answer[Now]
           t == Row(answer, Now).text
           n == Len(line)
<1>5. fifo[1].text = t /\ Next1 = t[n + 1]
  BY <1>1, <1>3, CharOf
<1>6. /\ s \in Seq(Chars) /\ Len(s) \in Nat /\ Len(t) = Len(s) + 2
      /\ \A j \in 1..Len(s) : t[j] = s[j]
      /\ t[Len(s) + 1] = CR /\ t[Len(s) + 2] = LF
  <2>1. s \in Seq(Chars)
    BY <1>1, <1>4, InSeq
  <2>2. answer \in Answers /\ Now \in 1..(Len(answer) + 1) /\ Now <= Len(answer)
    BY <1>1, <1>4
  <2>3. /\ Len(t) = Len(s) + 2 /\ \A j \in 1..Len(s) : t[j] = s[j]
        /\ t[Len(s) + 1] = CR /\ t[Len(s) + 2] = LF
    BY <2>2, RowIs
  <2> QED
    BY <2>1, <2>3
<1>7. Plain(s)
  BY <1>2, <1>4 DEF AllPlain
<1>8. n \in 1..(Len(s) + 1) /\ \A j \in 1..n : line[j] = t[j]
  BY <1>2 DEF LineSoFar
<1>9. Len(fifo) <= 1 \/ Len(fifo) + n <= FifoSize
  BY <1>2 DEF LineSoFar
<1>10. Len(fifo') = Len(fifo) - 1 /\ Len(fifo) >= 1
  BY <1>2, GetIs
<1>11. Last(line) = t[n]
  <2>1. n \in 1..n
    BY <1>6, <1>8
  <2>2. line # <<>>
    BY <1>8
  <2> QED
    BY <1>1, <1>8, <2>1, <2>2, FrontIs
<1>12. fifo[1].at = n + 1
  BY <1>3
<1> HIDE DEF t
<1>13. CASE Next1 = LF /\ Last(line) = CR
  <2>1. n = Len(s) + 1
    <3>1. CASE n < Len(s)
      <4>1. n \in 1..(Len(s) - 1) /\ n \in 1..Len(s) /\ n + 1 \in 1..Len(s)
        BY <1>6, <1>8, <3>1
      <4>2. s[n] = CR /\ s[n + 1] = LF
        BY <1>5, <1>6, <1>11, <1>13, <4>1
      <4> QED
        BY <1>7, <4>1, <4>2 DEF Plain
    <3>2. CASE n = Len(s)
      BY <1>5, <1>6, <1>13, <3>2, CharAssumption
    <3> QED
      BY <1>6, <1>8, <3>1, <3>2
  <2>2. /\ pc' = "print" /\ shown' = Append(shown, Front(line)) /\ busy' = n
    BY <1>13 DEF ReadRest
  <2>3. Front(line) \in Seq(Ch) /\ Front(line) = s
    <3>1. line # <<>>
      BY <1>8
    <3>2. Front(line) \in Seq(Ch) /\ Len(Front(line)) = n - 1 /\ \A k \in 1..(n - 1) : Front(line)[k] = line[k]
      BY <1>1, <3>1, FrontIs
    <3>3. n - 1 = Len(s)
      BY <2>1, <1>6
    <3>4. \A k \in 1..Len(s) : Front(line)[k] = s[k]
      <4>1. TAKE k \in 1..Len(s)
      <4>2. k \in 1..(n - 1) /\ k \in 1..n
        BY <1>6, <2>1
      <4> QED
        BY <4>2, <3>2, <1>6, <1>8
    <3> HIDE DEF n, s
    <3>5. Len(Front(line)) = Len(s)
      BY <3>2, <3>3
    <3> QED
      BY <3>2, <3>4, <3>5, <1>6, SameSeq
  <2>4. Len(shown') = Len(shown) + 1 /\ (\A k \in 1..Len(shown) : shown'[k] = shown[k])
        /\ shown'[Now] = s
    BY <1>1, <1>4, <2>2, <2>3, AppendIs
  <2>5. Now' = Now + 1
    BY <1>4, <2>4 DEF Now
  <2>6. ShownSoFar'
    <3>1. ASSUME NEW k \in 1..Len(shown') PROVE shown'[k] = answer'[k]
      <4>1. k \in 1..Len(shown) \/ k = Now
        BY <1>1, <1>4, <2>4
      <4> QED
        BY <1>1, <1>2, <2>4, <4>1 DEF ShownSoFar
    <3>2. Len(shown') <= Len(answer')
      BY <1>1, <1>4, <2>4
    <3> QED
      BY <3>1, <3>2 DEF ShownSoFar
  <2>7. AllPlain'
    BY <1>1, <1>2 DEF AllPlain
  <2>8. PlaceRow' = Now + 1 /\ PlaceAt' = 1
    <3>1. ~(fifo[1].at < Len(fifo[1].text))
      BY <1>5, <1>6, <1>12, <2>1
    <3> QED
      BY <1>3, <3>1 DEF Before
  <2>9. From(Now, 1)'
    BY <1>3, <2>5, <2>8 DEF From
  <2>10. Len(fifo') + busy' <= FifoSize
    <3>1. n <= FifoSize /\ n \in Nat
      BY <1>1, <1>6, <1>7, <2>1 DEF Plain
    <3> HIDE DEF n
    <3>2. CASE Len(fifo) <= 1
      BY <1>1, <1>10, <2>2, <3>1, <3>2
    <3>3. CASE Len(fifo) + n <= FifoSize
      BY <1>1, <1>10, <2>2, <3>1, <3>3
    <3> QED
      BY <1>9, <3>2, <3>3
  <2> QED
    BY <2>2, <2>6, <2>7, <2>9, <2>10 DEF Calm, LfPut
<1>14. CASE ~(Next1 = LF /\ Last(line) = CR)
  <2>1. n \in 1..Len(s)
    <3>1. n # Len(s) + 1
      BY <1>5, <1>6, <1>11, <1>14
    <3> QED
      BY <1>6, <1>8, <3>1
  <2>2. pc' = "rest" /\ shown' = shown /\ line' = Append(line, Next1)
    BY <1>2, <1>14 DEF ReadRest
  <2>3. Next1 \in Ch
    BY <1>2, GetIs DEF Ch
  <2>4. Len(line') = n + 1 /\ line'[n + 1] = t[n + 1] /\ \A j \in 1..n : line'[j] = t[j]
    BY <1>1, <1>5, <1>8, <2>2, <2>3, AppendIs
  <2>5. Now' = Now /\ AllPlain' /\ ShownSoFar'
    BY <1>1, <1>2, <2>2 DEF Now, AllPlain, ShownSoFar
  <2>6. PlaceRow' = Now /\ PlaceAt' = n + 2
    <3>1. fifo[1].at < Len(fifo[1].text)
      BY <1>5, <1>6, <1>12, <2>1
    <3>2. fifo[1].at + 1 = n + 2
      BY <1>12, <2>1
    <3> QED
      BY <1>3, <3>1, <3>2 DEF Before
  <2>7. From(Now, Len(line) + 1)'
    <3>1. Len(line') + 1 = n + 2
      BY <2>1, <2>4
    <3> QED
      BY <1>3, <2>5, <2>6, <3>1 DEF From
  <2>8. LineSoFar'
    <3>1. Now' <= Len(answer') /\ Len(line') \in 1..(Len(answer'[Now']) + 1)
      BY <1>1, <1>4, <1>6, <2>1, <2>4, <2>5
    <3>2. ASSUME NEW j \in 1..Len(line') PROVE line'[j] = Row(answer', Now').text[j]
      <4>1. j \in 1..n \/ j = n + 1
        BY <2>1, <2>4
      <4> QED
        BY <1>1, <2>4, <2>5, <4>1 DEF t
    <3>3. Len(fifo') <= 1 \/ Len(fifo') + Len(line') <= FifoSize
      BY <1>1, <1>9, <1>10, <2>1, <2>4
    <3> QED
      BY <3>1, <3>2, <3>3 DEF LineSoFar
  <2> QED
    BY <2>2, <2>5, <2>7, <2>8 DEF Calm, LfPut
<1> QED
  BY <1>13, <1>14

\* Printing, and bytes that come meanwhile.
LEMMA PrintCalm == ASSUME Typed, Typed', Calm, Print1 \/ Printed PROVE Calm'
<1>1. /\ answer \in Answers /\ Len(answer) \in Nat /\ answer' = answer
      /\ Len(fifo) \in Nat /\ FifoSize \in Nat /\ busy \in Nat /\ busy' \in Nat
      /\ shown' = shown /\ cmd' = cmd /\ i' = i
  BY EspAssumption, FifoAssumption DEF Typed, Print1, Printed, pi, esp
<1>2. AllPlain /\ ShownSoFar => AllPlain' /\ ShownSoFar'
  BY <1>1 DEF AllPlain, ShownSoFar
<1>3. Now' = Now
  BY <1>1 DEF Now
<1>4. ASSUME UNCHANGED <<out, fifo>>
      PROVE (Quiet => Quiet') /\ (IsRest => IsRest') /\ PlaceRow' = PlaceRow /\ PlaceAt' = PlaceAt
  <2>1. OutRow' = OutRow /\ OutAt' = OutAt
    BY <1>1, <1>4 DEF OutRow, OutAt
  <2>2. PlaceRow' = PlaceRow /\ PlaceAt' = PlaceAt
    BY <1>4, <2>1 DEF PlaceRow, PlaceAt
  <2>3. IsRest => IsRest'
    BY <1>1, <1>4, <2>1 DEF IsRest, OutIsRest, FifoIsRest
  <2>4. Quiet => Quiet'
    BY <1>4 DEF Quiet, FifoNoLF
  <2> QED
    BY <2>2, <2>3, <2>4
<1>5. CASE Print1
  <2>1. /\ pc \in {"print", "end"} /\ pc' = pc /\ busy > 0 /\ busy' = busy - 1
        /\ Arrive \/ UNCHANGED <<out, fifo>>
    BY <1>5 DEF Print1
  <2>2. CASE pc = "print"
    <3>1. AllPlain /\ ShownSoFar /\ From(Now, 1) /\ Len(fifo) + busy <= FifoSize
      BY <2>2 DEF Calm
    <3>2. From(Now, 1)' /\ Len(fifo') + busy' <= FifoSize
      <4>1. CASE Arrive
        <5>1. Len(fifo) < FifoSize
          BY <1>1, <2>1, <3>1
        <5>2. IsRest' /\ PlaceRow' = PlaceRow /\ PlaceAt' = PlaceAt
          BY <1>1, <3>1, <4>1, <5>1, ArriveRest DEF From
        <5>3. Len(fifo') = Len(fifo) + 1
          BY <1>1, <4>1, <5>1, ArriveIs
        <5>4. Len(fifo) + 1 + (busy - 1) <= FifoSize
          BY <1>1, <3>1
        <5> QED
          BY <1>3, <2>1, <3>1, <5>2, <5>3, <5>4 DEF From
      <4>2. CASE UNCHANGED <<out, fifo>>
        <5>1. Len(fifo) + (busy - 1) <= FifoSize
          BY <1>1, <3>1
        <5> QED
          BY <1>3, <1>4, <2>1, <3>1, <4>2, <5>1 DEF From
      <4> QED
        BY <2>1, <4>1, <4>2
    <3> QED
      BY <1>2, <2>1, <2>2, <3>1, <3>2 DEF Calm, LfPut
  <2>3. CASE pc = "end"
    <3>1. Quiet /\ shown = answer
      BY <2>3 DEF Calm
    <3>2. Quiet'
      BY <1>4, <2>1, <3>1, ArriveQuiet
    <3> QED
      BY <1>1, <2>1, <2>3, <3>1, <3>2 DEF Calm, LfPut
  <2> QED
    BY <2>1, <2>2, <2>3
<1>6. CASE Printed
  <2>1. /\ pc \in {"print", "end"} /\ pc' = (IF pc = "print" THEN "first" ELSE "idle")
        /\ UNCHANGED <<out, fifo>>
    BY <1>6 DEF Printed, esp
  <2>2. CASE pc = "print"
    <3>1. AllPlain /\ ShownSoFar /\ From(Now, 1)
      BY <2>2 DEF Calm
    <3>2. From(Now, 1)'
      BY <1>3, <1>4, <2>1, <3>1 DEF From
    <3>3. pc' = "first"
      BY <2>1, <2>2
    <3> QED
      BY <1>2, <3>1, <3>2, <3>3 DEF Calm, LfPut
  <2>3. CASE pc = "end"
    <3>1. Quiet' /\ pc' = "idle"
      BY <1>4, <2>1, <2>3 DEF Calm
    <3> QED
      BY <3>1 DEF Calm, LfPut
  <2> QED
    BY <2>1, <2>2, <2>3
<1> QED
  BY <1>5, <1>6

\* Bytes come while the Pi waits.
LEMMA DeliverCalm == ASSUME Typed, Typed', Calm, Deliver PROVE Calm'
<1>1. /\ answer \in Answers /\ Len(answer) \in Nat /\ answer' = answer /\ FifoSize \in Nat \ {0}
      /\ shown' = shown /\ cmd' = cmd /\ i' = i /\ pc' = pc /\ line' = line /\ busy' = busy
  BY EspAssumption, FifoAssumption DEF Typed, Deliver, pi
<1>2. Arrive /\ (pc = "idle" \/ (pc \in Reading /\ fifo = <<>>))
  BY DEF Deliver
<1>3. Quiet => Quiet'
  BY <1>2, ArriveQuiet
<1>4. AllPlain' = AllPlain /\ ShownSoFar' = ShownSoFar /\ Now' = Now
  BY <1>1 DEF AllPlain, ShownSoFar, Now
<1>5. CASE pc = "idle" \/ (pc = "get" /\ i <= Len(cmd))
  BY <1>1, <1>3, <1>5 DEF Calm, LfPut
<1>6. CASE LfPut
  <2>1. fifo = <<>> /\ EchoAhead /\ AllPlain /\ pc \in {"get", "align"} /\ ~(pc = "get" /\ i <= Len(cmd))
    <3>1. Len(cmd) \in Nat
      BY CommandAssumption DEF Typed
    <3> QED
      BY <1>2, <1>6, <3>1 DEF Calm, LfPut
  <2>2. EchoAhead'
    BY <1>1, <1>2, <2>1, ArriveEcho
  <2> QED
    BY <1>1, <1>4, <2>1, <2>2 DEF Calm, LfPut
<1>7. CASE pc \in {"first", "rest"}
  <2>1. fifo = <<>> /\ Len(fifo) = 0 /\ Len(fifo) < FifoSize /\ AllPlain /\ ShownSoFar /\ IsRest
    BY <1>1, <1>2, <1>7 DEF Calm, From
  <2>2. IsRest' /\ PlaceRow' = PlaceRow /\ PlaceAt' = PlaceAt
    BY <1>1, <1>2, <2>1, ArriveRest
  <2>3. Len(fifo') = 1
    BY <1>1, <1>2, <2>1, ArriveIs
  <2>4. CASE pc = "first"
    <3>1. From(Now, 1)'
      BY <1>4, <2>2, <2>4 DEF Calm, From
    <3> QED
      BY <1>1, <1>4, <2>1, <2>4, <3>1 DEF Calm, LfPut
  <2>5. CASE pc = "rest"
    <3>1. From(Now, Len(line) + 1) /\ LineSoFar
      BY <2>5 DEF Calm
    <3>2. From(Now, Len(line) + 1)'
      BY <1>1, <1>4, <2>2, <3>1 DEF From
    <3>3. LineSoFar'
      BY <1>1, <1>4, <2>3, <3>1 DEF LineSoFar
    <3> QED
      BY <1>1, <1>4, <2>1, <2>5, <3>2, <3>3 DEF Calm, LfPut
  <2> QED
    BY <1>7, <2>4, <2>5
<1> QED
  <2>1. pc = "get" => i <= Len(cmd) \/ i = Len(cmd) + 1
    <3>1. Len(cmd) \in Nat
      BY CommandAssumption DEF Typed
    <3> QED
      BY <3>1 DEF Typed
  <2> QED
    BY <1>2, <1>5, <1>6, <1>7, <2>1 DEF Reading, LfPut

\* No step makes a session calm, and a calm one goes on as it should.
LEMMA NextCalm == Typed /\ Typed' /\ (calm => Calm) /\ [Next]_vars => (calm' => Calm')
<1> SUFFICES ASSUME Typed, Typed', calm => Calm, [Next]_vars, calm' PROVE Calm'
  OBVIOUS
<1>1. CASE Command \/ PutByte
  <2>1. calm
    <3>1. CASE Command
      BY <3>1 DEF Command, esp
    <3>2. CASE PutByte
      <4>1. PICK c : Respond(c)
        BY <3>2 DEF PutByte
      <4> QED
        BY <4>1 DEF Respond
    <3> QED
      BY <1>1, <3>1, <3>2
  <2> QED
    BY <1>1, <2>1, PutCalm
<1>2. CASE GetEcho \/ Align
  <2>1. calm
    BY <1>2 DEF GetEcho, Align, Get
  <2> QED
    BY <1>2, <2>1, EchoCalm
<1>3. CASE ReadFirst
  <2>1. calm
    BY <1>3 DEF ReadFirst, Get
  <2> QED
    BY <1>3, <2>1, FirstCalm
<1>4. CASE ReadRest
  <2>1. calm
    BY <1>4 DEF ReadRest, Get
  <2> QED
    BY <1>4, <2>1, LineCalm
<1>5. CASE FirstGaveUp \/ RestGaveUp
  BY <1>5 DEF FirstGaveUp, RestGaveUp, GaveUp
<1>6. CASE Print1 \/ Printed
  <2>1. calm
    BY <1>6 DEF Print1, Printed, esp
  <2> QED
    BY <1>6, <2>1, PrintCalm
<1>7. CASE Deliver
  <2>1. calm
    BY <1>7 DEF Deliver
  <2> QED
    BY <1>7, <2>1, DeliverCalm
<1>8. CASE UNCHANGED vars
  <2>1. /\ pc' = pc /\ cmd' = cmd /\ i' = i /\ line' = line /\ stale' = stale /\ shown' = shown
        /\ busy' = busy /\ out' = out /\ fifo' = fifo /\ answer' = answer /\ calm' = calm
    BY <1>8 DEF vars, pi, esp
  <2>2. Quiet' = Quiet /\ EchoAhead' = EchoAhead /\ IsRest' = IsRest
    BY <2>1 DEF Quiet, FifoNoLF, EchoAhead, Left, IsRest, OutIsRest, FifoIsRest, OutRow, OutAt
  <2>3. AllPlain' = AllPlain /\ ShownSoFar' = ShownSoFar /\ Now' = Now /\ LineSoFar' = LineSoFar
    BY <2>1 DEF AllPlain, ShownSoFar, Now, LineSoFar
  <2>4. PlaceRow' = PlaceRow /\ PlaceAt' = PlaceAt
    BY <2>1 DEF PlaceRow, PlaceAt, OutRow, OutAt
  <2> QED
    BY <2>1, <2>2, <2>3, <2>4 DEF Calm, LfPut, From
<1> QED
  BY <1>1, <1>2, <1>3, <1>4, <1>5, <1>6, <1>7, <1>8 DEF Next, Talk

\* What the invariant says of the unread bytes and of the lines shown.
LEMMA CalmSays == Typed /\ (calm => Calm) => EchoConsumed /\ AnswerShown
<1> SUFFICES ASSUME Typed, calm => Calm PROVE EchoConsumed /\ AnswerShown
  OBVIOUS
<1>1. EchoConsumed
  <2> SUFFICES ASSUME calm, pc \in {"first", "rest", "print"}, NEW k \in 1..Len(Unread)
               PROVE Unread[k].of # "echo"
    BY DEF EchoConsumed
  <2>1. IsRest
    BY DEF Calm, From
  <2>2. answer \in Answers /\ fifo \in Seq(Said) /\ out \in Seq(Said) /\ Len(fifo) \in Nat /\ Len(out) \in Nat
    BY DEF Typed
  <2>3. ASSUME NEW b, OfAnswer(answer, b) PROVE b.of # "echo"
    <3>1. /\ b.row \in 1..(Len(answer) + 1) /\ b = [Row(answer, b.row) EXCEPT !.at = b.at]
          /\ Row(answer, b.row) \in Said /\ Row(answer, b.row).of \in {"answer", "prompt"}
      BY <2>2, <2>3, RowIs DEF OfAnswer
    <3>2. b.of = Row(answer, b.row).of
      BY <3>1 DEF Said
    <3> QED
      BY <3>1, <3>2
  <2>4. /\ Len(fifo \o out) = Len(fifo) + Len(out) /\ \A j \in 1..Len(fifo) : (fifo \o out)[j] = fifo[j]
        /\ \A j \in 1..Len(out) : (fifo \o out)[Len(fifo) + j] = out[j]
    BY <2>2, ConcatIs
  <2>5. CASE k \in 1..Len(fifo)
    BY <2>1, <2>3, <2>4, <2>5 DEF Unread, IsRest, FifoIsRest
  <2>6. CASE k \notin 1..Len(fifo)
    <3>1. k - Len(fifo) \in 1..Len(out) /\ k = Len(fifo) + (k - Len(fifo))
      BY <2>2, <2>4, <2>6 DEF Unread
    <3>2. Unread[k] = out[k - Len(fifo)]
      BY <2>4, <3>1 DEF Unread
    <3> QED
      BY <2>1, <2>3, <3>1, <3>2 DEF IsRest, OutIsRest
  <2> QED
    BY <2>5, <2>6
<1>2. AnswerShown
  BY DEF AnswerShown, Calm
<1> QED
  BY <1>1, <1>2

\* In every calm session the echo of a command is consumed to its last byte before
\* the Pi begins to take bytes for the answer.
THEOREM EspEchoConsumed == Spec => []EchoConsumed
<1>1. Init => Typed /\ (calm => Calm)
  BY InitTyped, InitCalm
<1>2. Typed /\ (calm => Calm) /\ [Next]_vars => Typed' /\ (calm => Calm)'
  BY NextTyped, NextCalm
<1> QED
  BY <1>1, <1>2, CalmSays, PTL DEF Spec

\* And the unix machine is shown the answer, line by line and whole, before its END.
THEOREM EspAnswerShown == Spec => []AnswerShown
<1>1. Init => Typed /\ (calm => Calm)
  BY InitTyped, InitCalm
<1>2. Typed /\ (calm => Calm) /\ [Next]_vars => Typed' /\ (calm => Calm)'
  BY NextTyped, NextCalm
<1> QED
  BY <1>1, <1>2, CalmSays, PTL DEF Spec
=============================================================================
