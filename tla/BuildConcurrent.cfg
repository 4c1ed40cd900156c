SPECIFICATION MCSpec
CONSTANTS
  base = base
  full = full
  part = part
  plain = plain
  Files = {base, part}
  Entries = {base, part}
  Reads <- MCReads
  Complete = {base}
  Contents = {v0, v1}
  None = None
  Calls = {c1, c2}
  MaxEdits = 2
  MaxRestarts = 1
  MaxFaults = 1
  Scenarios = {"calls"}
SYMMETRY Symmetry
CHECK_DEADLOCK FALSE
INVARIANTS TypeOK MemoryIsFresh HashesMatchResult
