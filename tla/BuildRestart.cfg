SPECIFICATION MCSpec
CONSTANTS
  base = base
  full = full
  part = part
  plain = plain
  Files = {base, full, part, plain}
  Entries = {base, full, part, plain}
  Reads <- MCReads
  Complete = {base, full, plain}
  Contents = {v0, v1}
  None = None
  Calls = {c1}
  MaxEdits = 2
  MaxRestarts = 1
  MaxFaults = 1
  Scenarios = {"restart", "pool", "skip", "shared"}
SYMMETRY Symmetry
CHECK_DEADLOCK FALSE
INVARIANTS MemoryIsFresh DepsetCovers MemosAreCurrent FastPathIsSound
