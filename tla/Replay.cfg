\* Logs of boots that went well or failed, with and without the ACKs, whole and
\* damaged, replayed by a plain and by a robust child.
CONSTANTS
  Data <- MCData
  Block = 2
  Exit <- MCExit
  NUL = NUL
  Chars <- MCChars
  Texts <- MCTexts
  CopySet <- MCCopies
  Bad <- MCBad
  Rounds = 1
  Traces <- MCTraces
  Resets = TRUE
SPECIFICATION FairSpec
\* The harness ends, or waits for ever for a log of another build.
CHECK_DEADLOCK FALSE
INVARIANTS
  TypeOK
  GapsRefused
  ReplaysTheSame
  
PROPERTY HarnessEnds
