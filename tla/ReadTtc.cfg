CONSTANTS
  time_counter = time_counter
  reset_counter = reset_counter
  NRadios = 2
  HkRegs <- MCHkRegs
  Direct <- MCDirect
  TTC_MAX_FAILED_PACKETS = 2
  Success = 0
  MaxCount = 3
  MaxFaults = 2
SPECIFICATION FairSpec
INVARIANTS
  PrintedFresh
  HealthyRadioKept
PROPERTIES
  FailingRadioReset
  EveryRadioServed
CHECK_DEADLOCK FALSE
