SPECIFICATION FairSpec
CONSTANTS
  r1 = r1
  r2 = r2
  check = check
  gate = gate
  deploy = deploy
  NoRun = NoRun
  NoNode = NoNode
  Runs = {r1}
  Steps <- JoinSteps
  Gates = {gate}
  Deps <- JoinDeps
  Conditional = {check}
  Compensated = {check}
  MaxAttempts <- JoinAttempts
CHECK_DEADLOCK FALSE
PROPERTY
  RunProgress
  KeepsRun
