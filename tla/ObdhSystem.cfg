CONSTANTS
  pos_det = pos_det
  read_eps = read_eps
  read_edc = read_edc
  control_heater = control_heater
  Order <- MCOrder
  Once <- MCOnce
  NoThread = NoThread
  MaxLogs = 1
  MaxFaults = 3
SPECIFICATION Spec
INVARIANTS
  CtxOutlivesThreads
  FirstThreadKeepsProcess
PROPERTIES
  ServiceRecovers
  PassesEnd
  LeakEndsMission
CHECK_DEADLOCK FALSE
