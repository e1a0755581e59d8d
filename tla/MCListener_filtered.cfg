\* All(Max, RateLimit): a connection that holds a slot is filtered.
CONSTANTS
  l1 = l1  l2 = l2  c1 = c1  c2 = c2  c3 = c3  c4 = c4  p1 = p1  p2 = p2  NoConn = NoConn
  Loops = {l1}
  Conns = {c1, c2, c3, c4}
  Ip <- Addresses
  Policies <- MaxRate
  Mode <- JustAll
  MaxConns = 2
  Burst = 1
  Cap = 2
  Refills = 0
SPECIFICATION Spec
CHECK_DEADLOCK FALSE
INVARIANTS FilteredReturned
