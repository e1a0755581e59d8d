\* A Send without a time limit, whose Channel goes away.
CONSTANTS
  s1 = s1  s2 = s2
  Sends = {s2}
  Patient = {s2}
  Silent = {}
  Accepts = {s2}
  MaxTurns = 1
  Reachable = TRUE
SPECIFICATION FairSpec
CHECK_DEADLOCK FALSE
PROPERTIES SendReturns
