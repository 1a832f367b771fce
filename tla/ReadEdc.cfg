CONSTANTS
  FifoDepth = 3
  MaxPkgs = 6
  MaxTrouble = 3
  Uptime = 3
  J2000 = 10
  Width = 32
SPECIFICATION Spec
INVARIANTS
  PrintedInOrder
  LossPerTrouble
  BacklogPrinted
  DecodingHasClock
CHECK_DEADLOCK FALSE
