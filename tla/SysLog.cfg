CONSTANTS
  t1 = t1
  t2 = t2
  t3 = t3
  Threads <- MCThreads
  NoThread = NoThread
SPECIFICATION FairSpec
INVARIANTS
  LinesWhole
PROPERTIES
  SectionsEnd
  LeakIsFinal
CHECK_DEADLOCK FALSE
