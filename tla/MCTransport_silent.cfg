\* A dialed remote that leaves the handshake hanging.
CONSTANTS
  s1 = s1  s2 = s2
  Sends = {s1}
  Patient = {}
  Silent = {s1}
  Accepts = {}
  MaxTurns = 0
  Reachable = TRUE
SPECIFICATION FairSpec
CHECK_DEADLOCK FALSE
PROPERTIES DialEnds
