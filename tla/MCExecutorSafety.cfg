SPECIFICATION Spec
CONSTANTS
  r1 = r1
  r2 = r2
  check = check
  gate = gate
  deploy = deploy
  NoRun = NoRun
  NoNode = NoNode
  Runs = {r1, r2}
  Steps <- JoinSteps
  Gates = {gate}
  Deps <- JoinDeps
  Conditional = {check}
  Compensated = {check}
  MaxAttempts <- JoinAttempts
SYMMETRY Symmetry
CHECK_DEADLOCK FALSE
INVARIANTS
  TypeOK
  CheckpointIsCut
  FinishedIffTerminal
  RowTruth
PROPERTY
  KeepsPromise
  KeepsLoop
  RunEnds
