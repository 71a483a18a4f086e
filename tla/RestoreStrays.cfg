CONSTANTS
  g0 = g0
  g1 = g1
  g2 = g2
  s1 = s1
  s2 = s2
  None = None
  Gone = Gone
  Preserve = Preserve
  Generations <- MCGenerations
  Files <- MCFiles
  Named <- MCNamed
  Manifest <- MCManifest
  Swapped <- MCSwapped
  Supersets <- MCSupersets
  Reviewed <- MCReviewed
  KeepPins = 1
  MaxPins = 2
  MaxFaults = 3
  MaxEdits = 1
SPECIFICATION Spec
INVARIANT BarrierIsDurable
