---------------------------- MODULE MCRobustUart ----------------------------
(***************************************************************************)
(* Instances of RobustUart for TLC.  Three byte values and four bytes of   *)
(* message are enough for a group to hold copies of two neighbours and a   *)
(* third, damaged, value; ROBUST_ITER keeps its value of 5.                *)
(***************************************************************************)
EXTENDS RobustUart

CONSTANTS b0, b1, bFF

MCByte == {b0, b1, bFF}
\* sw_uart_getc_robust starts with byte = -1, that is 255.
PiUnset == {bFF}
\* get_byte_robust of simple-boot.c does not initialise `byte`.
UnixUnset == MCByte
MCMessage == <<b0, b1, b0, bFF>>
=============================================================================
