SPECIFICATION FairSpec
CONSTANTS
  k1 = k1
  k2 = k2
  k3 = k3
  k4 = k4
  k5 = k5
  poll = poll
  g1 = g1
  g2 = g2
  hb = hb
  rq = rq
  ws = ws
  None = None
  Listener = Listener
  Main = Main
  Conns = {k1, k2, k3, k4}
  Loops = {poll}
  Runs = {g1}
  Statements = {hb}
  Requests = {}
  Streams = {ws}
  MaxRows = 1
CHECK_DEADLOCK FALSE
INVARIANTS
  TypeOK
  Accounted
  SomeoneMoves
PROPERTIES
  Served
  Answered
  ShutsDown
