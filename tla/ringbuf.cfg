SPECIFICATION FairSpec
CONSTANTS
  Capacity = 4
  MaxChunk = 3
  MaxRead = 2
  MaxBytes = 10
INVARIANT IInv
INVARIANT NoOverlap
INVARIANT ResultsMayBeIgnored
PROPERTY PipeSpec
PROPERTY KeptIsFed
