\* x is gossiped in s by n1 and n3, while n4 fetches it, and n2 leaves s; n5, which has no
\* resolver and is not in s, gossips an empty content ID.
CONSTANTS
  n1 = n1  n2 = n2  n3 = n3  n4 = n4  n5 = n5  x = x  s = s  t = t
  DefaultSubnet = DefaultSubnet  EmptyID = EmptyID  NoSubnet = NoSubnet  NoEntry = NoEntry
  Nodes = {n1, n2, n3, n4, n5}
  Contents = {x, EmptyID}
  Subnets = {s}
  Members <- Groups
  Table <- Star
  Dist <- Distances
  Alpha = 4
  Resolvers = {n1, n2, n3, n4}
  Origins <- Two
  Syncs <- Fetch
  Leaves <- Leave
SPECIFICATION FairSpec
CHECK_DEADLOCK FALSE
INVARIANTS WindowsExact Contained
PROPERTIES Spreads
