\* A handshake that may break at any point, and messages up to one whose length
\* does not fit the prefix.
CONSTANTS
  a = a  b = b
  Ends = {a, b}
  Signatory <- Ordered
  Silent = {}
  Sizes = {0, 1, 2, 3, 5}
  BufferCap = 2
  Tag = 1
  PrefixMod = 4
  MaxFrames = 2
  MaxNonce = 3
  NoSecret = NoSecret
SPECIFICATION FairSpec
CHECK_DEADLOCK FALSE
INVARIANTS Agreement Proven FramesWhole
PROPERTIES HandshakeEnds
