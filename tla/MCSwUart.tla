------------------------------ MODULE MCSwUart ------------------------------
(***************************************************************************)
(* Instances of SwUart for TLC: the DELAY of the code, an adapter within    *)
(* one percent of it, and a counter of 8 bits that wraps every other bit.   *)
(***************************************************************************)
EXTENDS SwUart

\* Newline, all bits equal, bits that alternate, the first and the last bit alone.
MCData == {<<170, 10>>, <<0, 255, 10>>, <<255, 1, 128>>, <<85, 0, 0>>}
MCGaps == {0, 17, 40}
=============================================================================
