CONSTANTS
  NumberOf <- MCNumberOf
  Words <- MCWords
  UpperOf <- MCUpperOf
  Documents <- MCDocuments
  Layouts <- MCLayouts
  Contexts <- MCContexts
  BadBytes <- MCBadBytes
SPECIFICATION Spec
INVARIANTS
  RoundTrip
  Declared
  SkipsAsMeant
  CommandAsMeant
  ResumesAlike
CHECK_DEADLOCK FALSE
