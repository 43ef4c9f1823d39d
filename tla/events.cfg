SPECIFICATION FairSpec
CONSTANTS
  a = a
  b = b
  None = None
  Task = {a, b}
  MaxAdds = 1
  MaxClears = 1
  Destroys = TRUE
INVARIANT IInv
INVARIANT CountsAgree
INVARIANT NoLostWakeup
INVARIANT NoUseAfterFree
PROPERTY QueueSpec
PROPERTY DestroyReturns
PROPERTY EventuallyHandled
