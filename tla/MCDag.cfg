SPECIFICATION Spec
CONSTANTS
  a = a
  b = b
  c = c
  Ids = {a, b, c}
  Definitions <- MCDefinitions
CHECK_DEADLOCK FALSE
INVARIANTS
  TypeOK
  LayersOrdered
  CycleFound
  NeverStuck
