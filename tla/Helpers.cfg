\* One part of the helpers at a time.
CONSTANTS
  HeapStart = 8
  HeapTop = 32
  BlockSizes = {0, 1, 8, 13}
  Pins <- MCPins
  Functions <- MCFunctions
  NUL = NUL
  LF <- MCLF
  Space <- MCSpace
  Typed <- MCTyped
  BufSize = 7
  MaxArgs = 4
  WordMod = 256
  NumSize = 128
  ROBUST_ITER = 5
  Exit <- MCExit
  Texts <- MCTexts
  Lengths = {0, 1, 2, 3, 4, 5, 6, 7, 8, 9, 10, 11, 12}
  Widths = {0, 3, 10}
  Formats <- MCFormats
  Buffers = {0, 1, 2, 3, 5, 9, 128}
  Memory <- MCMemory
  Lines <- MCLines
  Names <- MCNames
  Stale <- MCStale
  Messages <- MCMessages
  Bursts <- MCBursts
SPECIFICATION Spec
INVARIANTS
  BlocksApart
  BlocksKeep
  ArgvIsTheLine
  PrintkShows
  FunctionsCompute
  BurstsShow
  ExitWatched
PROPERTIES
  PinsApart
\* tokenize panics when a line has too many words, which ends the shell.
CHECK_DEADLOCK FALSE
