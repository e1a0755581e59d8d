\* n1 gossips x in s and in t, to which n4 does not belong.
CONSTANTS
  n1 = n1  n2 = n2  n3 = n3  n4 = n4  n5 = n5  x = x  s = s  t = t
  DefaultSubnet = DefaultSubnet  EmptyID = EmptyID  NoSubnet = NoSubnet  NoEntry = NoEntry
  Nodes = {n1, n2, n3, n4, n5}
  Contents = {x}
  Subnets = {s, t}
  Members <- Groups
  Table <- Star
  Dist <- Distances
  Alpha = 4
  Resolvers = {n1, n2, n3, n4}
  Origins <- Both
  Syncs = {}
  Leaves = {}
SPECIFICATION FairSpec
CHECK_DEADLOCK FALSE
PROPERTIES SpreadsInEach
