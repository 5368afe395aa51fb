\* ROBUST_ITER as in simple-boot.h; the fault bounds reach past half a group.
SPECIFICATION Spec
CONSTANTS
  b0 = b0
  b1 = b1
  bFF = bFF
  Byte <- MCByte
  Unset <- UnixUnset
  Message <- MCMessage
  Iter = 5
  MaxBad = 6
  MaxLost = 2
  MaxExtra = 2
INVARIANT TypeOK
INVARIANT ReadsWhatWasSent
INVARIANT ErrorsStayLocal
INVARIANT NoneLeftWaiting
PROPERTY VoteIsFinal
\* The transfer ends with its message.
CHECK_DEADLOCK FALSE
