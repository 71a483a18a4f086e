CONSTANTS
  t1 = t1
  t2 = t2
  t3 = t3
  Threads <- MCThreads
  NoThread = NoThread
  MaxGeneration = 2
  ReadCapacity = 2
SPECIFICATION FairSpec
INVARIANTS TypeOK RestoreExclusion OneDatabaseGeneration NoLostWakeup NoLockInversion
PROPERTIES ParkedStaysShut RestoreResolves
