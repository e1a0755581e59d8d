\* Three connections, two of which may break, and entries that expire.
CONSTANTS
  c1 = c1  c2 = c2  c3 = c3  NoConn = NoConn
  Conns = {c1, c2, c3}
  Breakable = {c1, c2}
  Drops = {c1}
  MaxAge = 2
SPECIFICATION PoolFairSpec
CHECK_DEADLOCK FALSE
INVARIANTS NoOrphan
PROPERTIES OneSurvives
