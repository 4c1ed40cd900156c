SPECIFICATION Spec
CONSTANTS
  t1 = t1
  t2 = t2
  t3 = t3
  m1 = m1
  m2 = m2
  Tasks = {t1, t2, t3}
  NoTask = NoTask
  Workers = {w1, w2, w3}
  Size = 2
  MaxConsecutiveFailures = 2
  Modules = {}
  Needs <- NeedsNothing
  TracksModules = FALSE
  MaxInvalidations = 1
SYMMETRY SchedulingSymmetry
INVARIANTS
  TypeOK
  PendingIsOwned
  NoIdleWhileQueued
  ProcessHeldIffPending
  OneTransformPerWorker
PROPERTIES
  ImplementsService
  NoWorkAfterBreaker
CHECK_DEADLOCK FALSE
