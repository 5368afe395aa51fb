--------------------------- MODULE MCBootProtocol ---------------------------
(***************************************************************************)
(* Instances of BootProtocol for TLC.  The numbers are scaled down with    *)
(* their relations kept: a word has 512 values, the Pi has room for 7      *)
(* words, and an ACK is due at every multiple of 8 bytes left.             *)
(***************************************************************************)
EXTENDS BootUpsets, SequencesExt

\* A polynomial checksum stands for crc32; like it, it takes whole words and
\* the byte count into account, and one wrong word always shows.
MCCrc(words, bytes) ==
  LET covered == SubSeq(words, 1, bytes \div 4)
  IN FoldLeft(LAMBDA h, w : (31 * h + w) % 512, bytes % 512, covered)

OneAckProgram == <<20, 21>>         \* an ACK at its end only
TwoAckProgram == <<30, 31, 32>>     \* an ACK after its first word as well
BigProgram == [i \in 1..8 |-> i]    \* 32 bytes do not fit

Short == {OneAckProgram}
Pair == {OneAckProgram, TwoAckProgram}
Sizes == {OneAckProgram, TwoAckProgram, BigProgram}

\* Control words, which as sizes are no multiple of 4, a word of a program,
\* and a size so large that adding ARMBASE to it wraps.
ControlNoise == {ACK, NAK, 20, 508}
=============================================================================
