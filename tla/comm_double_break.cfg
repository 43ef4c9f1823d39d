SPECIFICATION Spec
CONSTANTS
  a = a
  b = b
  c = c
  None = None
  Home <- MCHome
  Task = {a, c}
  MaxSends <- Dev1Hbm1
  Reliable <- OnlyDevReliable
  SeqMod = 256
  RetryTimes = 1
  WireCap = 3
  Faults = {}
  AckPrompt = FALSE
  Restarts = {}
  MaxRestarts = 0
INVARIANT OneBreakPerSequence
