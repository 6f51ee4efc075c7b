SPECIFICATION FairSpec
CONSTANTS
  MaxAttempts = 4
  InitialWait = 5
  MaxWait = 18
  Top = 32
CHECK_DEADLOCK FALSE
INVARIANTS
  TypeOK
  OneCommand
PROPERTIES
  Ends
  WaitsGrow
  KeepsLoop
