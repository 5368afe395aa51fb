\* What is left in the tty after an interrupt can pass for an ACK.
CONSTANTS
  Program <- Pair
  SOH = 300
  ARMBASE = 8
  ADDR_LIMIT = 40
  WordMod = 512
  AckBytes = 8
  Junk = Junk
  Crc <- MCCrc
  Noise <- ControlNoise
  MaxGarbled = 0
  MaxUpsets = 1
  StaleCap = 5
SPECIFICATION Spec
INVARIANTS
  OkMeansAccepted
