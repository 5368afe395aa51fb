\* A NAK put while the Pi puts its echoes.
CONSTANTS
  Program <- Short
  SOH = 300
  ARMBASE = 8
  ADDR_LIMIT = 40
  WordMod = 512
  AckBytes = 8
  Junk = Junk
  Crc <- MCCrc
  Noise <- ControlNoise
  MaxGarbled = 1
  MaxUpsets = 0
  StaleCap = 0
SPECIFICATION FairSpec
PROPERTY NakRestarts
