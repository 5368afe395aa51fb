\* As PiShell, on a calm line: control-C whichever loop the user is in.
CONSTANTS
  Text = {"print", "wifi"}
  EndText = {}
  NoText = NoText
  MaxLines = 2
  MaxAhead = 2
  MaxUpsets = 0
SPECIFICATION FairSpec
CHECK_DEADLOCK FALSE
PROPERTY ShutsDown
