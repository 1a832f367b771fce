CONSTANTS
  NRegs = 3
  HeaterRegs <- MCHeaterRegs
  MaxRetries = 2
SPECIFICATION FairSpec
INVARIANTS
  SuccessIsWhole
  OwnRegister
PROPERTIES
  KeepsReporting
CHECK_DEADLOCK FALSE
