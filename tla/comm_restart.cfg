SPECIFICATION FairSpec
CONSTANTS
  a = a
  b = b
  c = c
  None = None
  Home <- MCHome
  Task = {a}
  MaxSends <- DevOnly2
  Reliable <- OnlySecond
  SeqMod = 2
  RetryTimes = 1
  WireCap = 2
  Faults = {"lose", "corrupt"}
  AckPrompt = FALSE
  Restarts = {"dev", "hbm"}
  MaxRestarts = 1
INVARIANT IInv
PROPERTY OrderedSpec
PROPERTY SendReturns
VIEW WithoutCounts
