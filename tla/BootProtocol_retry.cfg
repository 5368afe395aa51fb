\* A patient user gets a program to the Pi.
CONSTANTS
  Program <- Pair
  SOH = 300
  ARMBASE = 8
  ADDR_LIMIT = 40
  WordMod = 512
  AckBytes = 8
  Junk = Junk
  Crc <- MCCrc
  Noise <- ControlNoise
  MaxGarbled = 1
  MaxUpsets = 1
  StaleCap = 0
SPECIFICATION PatientSpec
PROPERTIES
  RetryRuns
  SessionEnds
