CONSTANTS
  MaxFaults = 2
  MaxOrbit = 2
  MaxCrashes = 1
SPECIFICATION FairSpec
INVARIANTS
  PassTakesEffect
PROPERTIES
  HeatNeedsEclipse
  ManualBeforeDuty
  EclipseHeats
  SunCools
CHECK_DEADLOCK FALSE
