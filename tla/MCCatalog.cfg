SPECIFICATION Spec
CONSTANTS
  w1 = w1
  w2 = w2
  q1 = q1
  q2 = q2
  q3 = q3
  q4 = q4
  k1 = k1
  Empty = Empty
  Null = Null
  Workflows = {w1, w2}
  Requests = {q1, q2, q3}
  Keys = {k1}
SYMMETRY Symmetry
CHECK_DEADLOCK FALSE
INVARIANTS
  TypeOK
  AnswersAgree
  StartedActive
PROPERTY
  KeepsArchive
