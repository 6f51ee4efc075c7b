SPECIFICATION FairSpec
CONSTANTS
  k1 = k1
  k2 = k2
  k3 = k3
  k4 = k4
  k5 = k5
  poll = poll
  g1 = g1
  g2 = g2
  hb = hb
  rq = rq
  ws = ws
  None = None
  Listener = Listener
  Main = Main
  Conns = {k1, k2, k3}
  Loops = {}
  Runs = {g1, g2}
  Statements = {hb}
  Requests = {}
  Streams = {}
  MaxRows = 1
CHECK_DEADLOCK FALSE
PROPERTY Answered
