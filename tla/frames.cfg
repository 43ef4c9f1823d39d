SPECIFICATION Spec
CONSTANTS
  Base = 16
  Sync <- MCSync
  Bits = 4
  Poly = 29
  Crc16 <- Crc
  MaxSize = 96
  GcSize = 40
  Messages <- MCMessages
INVARIANT IInv
INVARIANT HeapBound
INVARIANT InStep
INVARIANT NothingToRepair
INVARIANT OneByteDamage
INVARIANT TwoInARow
