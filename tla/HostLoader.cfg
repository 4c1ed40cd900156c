SPECIFICATION Spec
CONSTANTS
  full = full
  part = part
  plain = plain
  helper = helper
  Files <- MCFiles
  Entries <- MCEntries
  Reads <- MCReads
  Complete = {full, plain}
  Contents = {v0, v1}
  None = None
  Calls = {c1, c2}
  Explicit = {part}
  MaxEdits = 1
SYMMETRY Symmetry
INVARIANTS TypeOK StaleIsDetected CallIsFresh OutputIsFresh
