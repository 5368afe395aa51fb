------------------------------- MODULE Printk -------------------------------
(***************************************************************************)
(* The printk of libpi: how a format and its arguments become characters.  *)
(*                                                                         *)
(*   cs140e-printf.c   pad, reverse, emit, va_printk, snprintk, printk     *)
(*                                                                         *)
(* A character is a string of length one.  A format is a sequence of        *)
(* items: a character, or a conversion with its width and argument.        *)
(***************************************************************************)
EXTENDS Integers, Sequences, SequencesExt

CONSTANTS
  WordMod,    \* 2^w for an int of w bits
  NumSize     \* the size of num (128)

ASSUME WordAssumption == WordMod \in Nat \ {0} /\ WordMod % 2 = 0
\* An int has at most 32 bits, which fit num with a sign and the \0.
ASSUME NumAssumption == (WordMod - 1) \div 65536 < 65536 /\ NumSize \in Nat /\ NumSize > 33

Ints == -(WordMod \div 2)..(WordMod \div 2 - 1)
Digit == <<"0", "1", "2", "3", "4", "5", "6", "7", "8", "9", "a", "b", "c", "d", "e", "f">>

Char(ch) == [conv |-> "char", width |-> 0, arg |-> ch]
Conv(conv, width, arg) == [conv |-> conv, width |-> width, arg |-> arg]
\* What the switch of va_printk handles; it panics at other items.
Printable(item) ==
  \/ item.conv = "char"
  \/ item.conv = "s" /\ item.arg \in Seq(Range(item.arg))
  \/ item.conv = "c" /\ item.width \in 0..31
  \/ item.conv \in {"d", "u", "x", "p", "b"} /\ item.width \in 0..31 /\ item.arg \in Ints

\* The loop of emit: *p++ = Digit[u % base], while u /= base.  left[i] is u after i turns.
Reversed(u, base) ==
  LET left[i \in 0..NumSize] == IF i = 0 THEN u ELSE left[i - 1] \div base
      turns == CHOOSE k \in 1..NumSize : left[k] = 0 /\ (k > 1 => left[k - 1] # 0)
  IN [i \in 1..turns |-> Digit[(left[i - 1] % base) + 1]]

\* pad: spaces up to the width, where the number is still reversed.
Filler == " "
Pad(s, width) == s \o [i \in 1..(IF Len(s) < width THEN width - Len(s) ELSE 0) |-> Filler]

\* reverse: characters that do not fit with the \0 are dropped at the low end.
Reverse0(s, n) == Reverse(IF Len(s) + 1 > n THEN SubSeq(s, Len(s) + 2 - n, Len(s)) ELSE s)

\* Mutant of Magnitude: a negative number loses its sign bit only.
MagnitudeMasked(val, signed) == val % (WordMod \div 2)

\* u = val, after val = -val for a negative one, which the least int survives.
Magnitude(val, signed) == IF val < 0 /\ signed THEN (-val) % WordMod ELSE val % WordMod

\* emit, for base 10, 16 and 2.
EmitNumber(base, n, val, width, signed) ==
  LET w == IF width > n THEN n - 1 ELSE width
      sign == IF base = 10 /\ val < 0 /\ signed THEN <<"-">> ELSE <<>>
  IN Reverse0(Pad(Reversed(Magnitude(val, base = 10 /\ signed), base) \o sign, w), n)
\* emit, for the base 8 that stands for a character.
EmitChar(n, ch, width) == Reverse0(Pad(<<ch>>, IF width > n THEN n - 1 ELSE width), n)

\* The switch of va_printk.
Shown(item) ==
  CASE item.conv = "char" -> <<item.arg>>
    [] item.conv = "c" -> EmitChar(NumSize, item.arg, item.width)
    [] item.conv = "s" -> item.arg
    [] item.conv = "d" -> EmitNumber(10, NumSize, item.arg, item.width, TRUE)
    [] item.conv = "u" -> EmitNumber(10, NumSize, item.arg, item.width, FALSE)
    [] item.conv \in {"x", "p"} -> EmitNumber(16, NumSize, item.arg, item.width, FALSE)
    [] item.conv = "b" -> EmitNumber(2, NumSize, item.arg, item.width, FALSE)

\* p < e: what still goes into a buffer of n.
Room(n, out, s) == IF Len(s) <= n - 1 - Len(out) THEN s ELSE SubSeq(s, 1, n - 1 - Len(out))

\* va_printk: the characters before the \0, and the value returned, p - buf.  The \0 is
\* written in any case, also when n is 0 and there is no place for it.
VaPrintk(n, fmt) ==
  LET out[i \in 0..Len(fmt)] == IF i = 0 THEN <<>> ELSE out[i - 1] \o Room(n, out[i - 1], Shown(fmt[i]))
      text == out[Len(fmt)]
  IN [text |-> text, ret |-> Len(text) + 1]

\* snprintk: its size_t n becomes the int n of va_printk.
AsInt(n) == IF n < WordMod \div 2 THEN n ELSE n - WordMod
Snprintk(n, fmt) == VaPrintk(AsInt(n), fmt)
-----------------------------------------------------------------------------
(* What a reader makes of a number.                                        *)

Blank(s) == \A i \in 1..Len(s) : s[i] = Filler
DigitValue(d) == (CHOOSE i \in 1..16 : Digit[i] = d) - 1
ReadDigits(s, base) ==
  LET v[k \in 0..Len(s)] == IF k = 0 THEN 0 ELSE base * v[k - 1] + DigitValue(s[k])
  IN v[Len(s)]
\* Spaces up to `width`, a sign, digits with no idle 0 in front.
Reads(s, base, width, val) ==
  \E blanks, sign \in 0..Len(s) :
    /\ sign \in {0, 1} /\ blanks + sign < Len(s)
    /\ Blank(SubSeq(s, 1, blanks)) /\ (sign = 1 => s[blanks + 1] = "-")
    /\ LET digits == SubSeq(s, blanks + sign + 1, Len(s))
       IN /\ \A i \in 1..Len(digits) : digits[i] \in {Digit[j] : j \in 1..base}
          /\ digits[1] = "0" => Len(digits) = 1
          /\ val = (IF sign = 1 THEN -1 ELSE 1) * ReadDigits(digits, base)
          /\ blanks > 0 => Len(s) = width
    /\ Len(s) >= width
=============================================================================
