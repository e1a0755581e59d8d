\* Two accept loops share the slots of one Max; one of them limits rates as well, the other
\* filters by a function of the application.
CONSTANTS
  l1 = l1  l2 = l2  c1 = c1  c2 = c2  c3 = c3  c4 = c4  p1 = p1  p2 = p2  NoConn = NoConn
  Loops = {l1, l2}
  Conns = {c1, c2, c3, c4}
  Ip <- Addresses
  Policies <- SharedMax
  Mode <- AnyAll
  MaxConns = 2
  Burst = 1
  Cap = 2
  Refills = 1
SPECIFICATION Spec
CHECK_DEADLOCK FALSE
INVARIANTS AtMost SlotsReturned RateHeld MapsBounded
