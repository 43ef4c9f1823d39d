SPECIFICATION Spec
CONSTANTS
  a = a
  b = b
  c = c
  None = None
  Home <- MCHome
  Task = {a}
  MaxSends <- DevOnly2
  Reliable <- AllReliable
  SeqMod = 256
  RetryTimes = 1
  WireCap = 3
  Faults = {}
  AckPrompt = FALSE
  Restarts = {}
  MaxRestarts = 0
INVARIANT SuccessMeansDelivered
