SPECIFICATION FairSpec
CONSTANTS
  MaxCached = 2
  CntMod = 256
  ChipSize = 2
  Fragment = 1
  MaxTroubles = 1
  Offered <- AllKinds
  MaxReceived = 3
  MaxCalls = 2
  MaxFailures = 1
  MaxFeed = 2
INVARIANT IInv
INVARIANT CountsMatchPackets
INVARIANT NoOverrun
PROPERTY EveryRasrHandled
PROPERTY ChallengeAnswered
PROPERTY FeedReturns
