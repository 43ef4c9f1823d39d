SPECIFICATION BudgetSpec
CONSTANTS
  a = a
  b = b
  c = c
  None = None
  Home <- MCHome
  Task = {a, b, c}
  MaxSends <- Dev2Hbm2
  Reliable <- Mixed
  SeqMod = 256
  RetryTimes = 1
  WireCap = 6
  Faults = {"lose"}
  AckPrompt = TRUE
  Restarts = {}
  MaxRestarts = 0
INVARIANT MutualExclusion
INVARIANT TimeoutMeansAllWaits
INVARIANT SuccessMeansDelivered
INVARIANT NoBreakLeftBehind
INVARIANT NoFalseTimeout
PROPERTY EveryMessageArrives
