-------------------------------- MODULE LibC --------------------------------
(***************************************************************************)
(* The string and memory functions that libpi brings of its own.           *)
(*                                                                         *)
(*   cs140e-stdlib.c   memcpy, strncmp   (memset: see Kmalloc)             *)
(*                                                                         *)
(* Memory is a function from addresses to bytes; a string is a sequence,    *)
(* its \0 and what lies behind it included.                                *)
(***************************************************************************)
EXTENDS Integers, Sequences, FiniteSetsExt

\* n bytes at once.
Move(m, dst, src, n) ==
  [a \in DOMAIN m |-> IF dst <= a /\ a < dst + n THEN m[src + a - dst] ELSE m[a]]

\* Mutant of CopyUnit: whether there are whole words to copy is not asked.
CopyUnitByPlace(dst, src, n) == IF dst % 4 = 0 /\ src % 4 = 0 THEN 4 ELSE 1

\* Words where the places and the size are aligned, or bytes.
CopyUnit(dst, src, n) == IF dst % 4 = 0 /\ src % 4 = 0 /\ n % 4 = 0 THEN 4 ELSE 1

\* One unit after the other, upwards.
Memcpy(m, dst, src, n) ==
  LET unit == CopyUnit(dst, src, n)
      copy[i \in 0..(n \div unit)] ==
        IF i = 0 THEN m ELSE Move(copy[i - 1], dst + unit * (i - 1), src + unit * (i - 1), unit)
  IN copy[n \div unit]

\* The first difference within n characters.  The end of a string is a
\* character like any other.
Strncmp(s1, s2, n) ==
  LET apart == {i \in 1..n : s1[i] # s2[i]} IN IF apart = {} THEN 0 ELSE s1[Min(apart)] - s2[Min(apart)]
=============================================================================
