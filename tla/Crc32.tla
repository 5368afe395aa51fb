------------------------------- MODULE Crc32 -------------------------------
(***************************************************************************)
(* The checksum of a program, bit for bit.  A word is the set of its bits   *)
(* that are 1, so that exclusive or is symmetric difference; a byte is the  *)
(* same with bits 0 to 7.                                                  *)
(*                                                                         *)
(*   simple-boot.h   crc32_tab, crc32                                      *)
(***************************************************************************)
EXTENDS Integers, Sequences

Xor(a, b) == (a \ b) \cup (b \ a)
Shift(a, k) == {i - k : i \in {j \in a : j >= k}}

\* 0xedb88320
Polynomial == {31, 30, 29, 27, 26, 24, 23, 21, 20, 19, 15, 9, 8, 5}

\* Entry b of crc32_tab: b, shifted out through the polynomial.
Crc32Tab(b) ==
  LET entry[k \in 0..8] ==
        IF k = 0 THEN b
        ELSE LET v == entry[k - 1] IN IF 0 \in v THEN Xor(Shift(v, 1), Polynomial) ELSE Shift(v, 1)
  IN entry[8]

\* Mutant of TakeByte: the bits above the byte are lost.
TakeByteOnly(crc, b) == Crc32Tab(Xor(crc \cap 0..7, b))

\* crc32_tab[(crc ^ *p++) & 0xFF] ^ (crc >> 8)
TakeByte(crc, b) == Xor(Crc32Tab(Xor(crc, b) \cap 0..7), Shift(crc, 8))

Crc(bytes) ==
  LET crc[i \in 0..Len(bytes)] == IF i = 0 THEN 0..31 ELSE TakeByte(crc[i - 1], bytes[i])
  IN Xor(crc[Len(bytes)], 0..31)
=============================================================================
