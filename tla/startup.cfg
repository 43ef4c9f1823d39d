SPECIFICATION FairSpec
CONSTANTS
  Talks <- MCTalks
  RetryTimes = 2
  WireCap = 2
CHECK_DEADLOCK FALSE
INVARIANT IInv
INVARIANT AcknowledgedIsGiven
PROPERTY RetriedIsHandled
