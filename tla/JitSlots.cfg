SPECIFICATION Spec
CONSTANTS
  Copies = {"jit1", "jit2"}
  Slots <- MCSlots
  MaxOps = 2
  MaxDepth = 12
  MaxLimits = 1
CHECK_DEADLOCK FALSE
INVARIANTS TypeOK SlotsArePlain AccessorsServe
PROPERTY CallsReturn
