\* ROBUST_ITER as in simple-boot.h; the fault bounds reach past half a group.
SPECIFICATION Spec
CONSTANTS
  b0 = b0
  b1 = b1
  bFF = bFF
  Byte <- MCByte
  Unset <- PiUnset
  Message <- MCMessage
  Iter = 5
  MaxBad = 0
  MaxLost = 3
  MaxExtra = 0
INVARIANT MinorityHarmless
\* The transfer ends with its message.
CHECK_DEADLOCK FALSE
