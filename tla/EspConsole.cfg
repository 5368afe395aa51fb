\* An ESP that may take longer than a second for any byte of an answer, lines
\* shorter and longer than the FIFO, with and without line ends among what it
\* said since its reset.
CONSTANTS
  Chars <- MCChars
  Commands <- MCCommands
  Answers <- MCAnswers
  Junk <- MCJunk
  CR = CR
  LF = LF
  NUL = NUL
  GT = GT
  SP = SP
  FifoSize = 3
  MaxBacklog = 2
SPECIFICATION FairSpec
INVARIANTS
  TypeOK
  EchoConsumed
  AnswerShown
PROPERTY CommandDone
