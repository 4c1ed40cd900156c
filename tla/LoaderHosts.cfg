SPECIFICATION Spec
CONSTANTS
  schema = schema
  helper = helper
  native_ = native_
  exits = exits
  v0 = v0
  v1 = v1
  Files = {schema, helper, native_, exits}
  Native = {native_}
  Exiting = {exits}
  Imports <- MCImports
  Schemas = {schema, native_, exits}
  Fed = {schema, helper, exits}
  Included = {schema, exits}
  Contents = {v0, v1}
  l1 = l1
  l2 = l2
  Loads = {l0, l1, l2}
  Scenarios <- MCScenarios
  Initial = l0
  None = None
  MaxEdits = 3
CHECK_DEADLOCK FALSE
INVARIANTS TypeOK GuardIsSound WatchIsCurrent StaleIsUnfed
PROPERTY ComesToRest
