\* Programs of every interesting size but the empty one, a wrong word that the
\* robust byte layer let through, an interrupt or a power cycle, stale replies in
\* the tty.
CONSTANTS
  Program <- Sizes
  SOH = 300
  ARMBASE = 8
  ADDR_LIMIT = 40
  WordMod = 512
  AckBytes = 8
  Junk = Junk
  Crc <- MCCrc
  Noise <- ControlNoise
  MaxGarbled = 1
  MaxUpsets = 1
  StaleCap = 2
SPECIFICATION Spec
INVARIANTS
  TypeOK
  NoTalkOver
  NoMutualWait
  CleanBoots
  SizeHolds
PROPERTY KeepsPromise
