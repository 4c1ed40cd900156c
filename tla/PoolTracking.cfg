SPECIFICATION FairSpec
CONSTANTS
  t1 = t1
  t2 = t2
  t3 = t3
  m1 = m1
  m2 = m2
  Tasks = {t1, t2}
  NoTask = NoTask
  Workers = {w1, w2}
  Size = 1
  MaxConsecutiveFailures = 2
  Modules = {m1, m2}
  Needs <- NeedsShared
  TracksModules = TRUE
  MaxInvalidations = 1
INVARIANTS
  FreshAfterInvalidate
  CoveredIfSentSince
PROPERTIES
  EverySettles
CHECK_DEADLOCK FALSE
