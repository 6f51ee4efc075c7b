SPECIFICATION FairSpec
CONSTANTS
  n1 = n1
  n2 = n2
  r1 = r1
  r2 = r2
  r3 = r3
  None = None
  Nodes = {n1, n2}
  Last = 1
  Batch = 1
  Gated = {1}
  Runs = {r1, r2}
  MaxFaults = 1

CHECK_DEADLOCK FALSE
INVARIANT TypeOK
PROPERTY
  KeepsRun
  Drained
