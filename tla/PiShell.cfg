\* The two shells: damaged lines, type-ahead, text that begins with END, and
\* control-C at any moment.
CONSTANTS
  Text <- TextAndEnd
  EndText <- EndTexts
  NoText = NoText
  MaxLines = 2
  MaxAhead = 2
  MaxUpsets = 1
SPECIFICATION FairSpec
\* The shell ends.
CHECK_DEADLOCK FALSE
INVARIANTS
  TypeOK
  SameLoop
  OwnAnswer
  NoHostReboot
PROPERTIES
  ShellShutsDown
  CommandEnds
