SPECIFICATION Spec
CONSTANTS
  a = a
  b = b
  c = c
  None = None
  Home <- MCHome
  Task = {a}
  MaxSends <- DevOnly3
  Reliable <- AllReliable
  SeqMod = 256
  RetryTimes = 2
  WireCap = 3
  Faults = {"lose"}
  AckPrompt = FALSE
  Restarts = {}
  MaxRestarts = 0
INVARIANT OneBreakPerSequence
INVARIANT SuccessAfterCleanHistory
INVARIANT TimeoutMeansMostWaits
INVARIANT CallsInv
