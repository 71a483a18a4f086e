CONSTANTS
  t1 = t1
  t2 = t2
  t3 = t3
  o1 = o1
  o2 = o2
  s1 = s1
  Threads <- MCThreads
  Operations <- MCOperations
  Segments <- MCSegments
  NoThread = NoThread
  None = None
  MaxGeneration = 1
  ReadCapacity = 1
  MaxRevision = 1
SPECIFICATION DraftSpec
SYMMETRY Symmetry
INVARIANTS DecidedDraftStaysGone
PROPERTIES LateDraftNeverLands ImplementsAdmission
