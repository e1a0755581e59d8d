\* Two calls of Send dial a peer, or one does and the peer connects itself; the peer
\* may expire and be added again, or be linked and unlinked.  The
\* first dial may meet a remote that is silent.
CONSTANTS
  s1 = s1  s2 = s2
  Sends = {s1, s2}
  Patient = {s2}
  Silent = {s1}
  Accepts = {s2}
  MaxTurns = 1
  Reachable = TRUE
SPECIFICATION FairSpec
CHECK_DEADLOCK FALSE
INVARIANTS RefsExact ConnsExact ExpiredOnce
PROPERTIES Drained
