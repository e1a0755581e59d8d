\* A link that goes away while a connection is brought to its Channel.
CONSTANTS
  s1 = s1  s2 = s2
  Sends = {s1}
  Patient = {}
  Silent = {}
  Accepts = {s2}
  MaxTurns = 1
  Reachable = TRUE
SPECIFICATION FairSpec
CHECK_DEADLOCK FALSE
PROPERTIES UnlinkReturns
