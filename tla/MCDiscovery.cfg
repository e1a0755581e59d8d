\* A line of peers is found from its near end, while two goroutines dial the far end
\* and the application deletes the peer between.
CONSTANTS
  a = a  b = b  c = c  self = self  d1 = d1  d2 = d2
  NoAddr = NoAddr  NoDialer = NoDialer
  Peers = {a, b, c}
  Self = self
  Dist <- Distances
  Nonces = {1}
  Dialers = {d1, d2}
  Target <- FarEnd
  AppDeletes = {b}
  Small = 2
  Share = 1
  Bootstrap = {c}
  Knows <- Line
  Pingers = {a}
  Alpha = 3
  MaxExpectedPeers = 3
  MaxFaults = 1
SPECIFICATION DiscoverySpec
INVARIANTS SamplesExact ClosestPeers ExpiryHasPeer ListedHaveAddress
PROPERTIES Learns
