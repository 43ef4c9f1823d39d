SPECIFICATION Spec
CONSTANTS
  MaxCached = 2
  CntMod = 256
  ChipSize = 1
  Fragment = 1
  MaxTroubles = 0
  Offered <- OnlyAdpcm
  MaxReceived = 4
  MaxFailures = 0
  MaxCalls = 0
  MaxFeed = 1
INVARIANT AdpcmLimit
