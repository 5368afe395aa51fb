------------------------------ MODULE PinSpec ------------------------------
(***************************************************************************)
(* What the GPIO functions promise: 32 pins, each with a function and an    *)
(* output latch of its own, and no registers.                              *)
(***************************************************************************)
EXTENDS Integers

VARIABLES
  function, latch,  \* of each pin; the pins whose latch is 1
  asked, ret        \* the last call, and what it returned

Chip == 0..31
Good == asked'.pin \in Chip

Init == function = [pin \in Chip |-> 0] /\ latch = {} /\ ret = 0

Set ==
  /\ asked'.call = "set" /\ Good /\ asked'.val \in 0..7 /\ ret' = 0
  /\ function' = [function EXCEPT ![asked'.pin] = asked'.val]
  /\ UNCHANGED latch
Write ==
  /\ asked'.call = "write" /\ Good /\ ret' = 0
  /\ latch' = IF asked'.val = 1 THEN latch \cup {asked'.pin} ELSE latch \ {asked'.pin}
  /\ UNCHANGED function
\* An output reads as it was last written, another pin as the outside has it.
Read ==
  /\ asked'.call = "read" /\ Good
  /\ IF function[asked'.pin] = 1 THEN (ret' = 1) = (asked'.pin \in latch) ELSE ret' \in {0, 1}
  /\ UNCHANGED <<function, latch>>
Refuse ==
  /\ ~Good \/ (asked'.call = "set" /\ asked'.val > 7)
  /\ ret' = -1 /\ UNCHANGED <<function, latch>>

Spec == Init /\ [][Set \/ Write \/ Read \/ Refuse]_<<function, latch, asked, ret>>
=============================================================================
