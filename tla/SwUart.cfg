\* The Pi reads a line, or sends some bytes.
CONSTANTS
  DELAY = 104
  TimerMod = 256
  Boots = {0, 200}
  Overs = {1, 2}
  Bits = {103, 104, 105}
  Data <- MCData
  Gaps <- MCGaps
  Glitches = {3}
  Settles = {60, 1000}
  Size = 3
SPECIFICATION Spec
\* All is read, or sent.
CHECK_DEADLOCK FALSE
INVARIANTS
  TypeOK
  ReadsWhatIsSent
  KeepsUp
  SendsWhatIsPut
