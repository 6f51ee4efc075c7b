SPECIFICATION Spec
CONSTANTS
  n1 = n1
  n2 = n2
  r1 = r1
  r2 = r2
  r3 = r3
  None = None
  Nodes = {n1, n2}
  Last = 1
  Batch = 1
  Gated = {}
  Runs = {r1, r2}
  MaxFaults = 3
SYMMETRY Symmetry
CHECK_DEADLOCK FALSE
INVARIANTS
  OnlyAbandoned
  Stoppable
PROPERTY Leased
