\* One end connects and does nothing.
CONSTANTS
  a = a  b = b
  Ends = {a, b}
  Signatory <- Ordered
  Silent = {b}
  Sizes = {0, 1, 2, 3, 5}
  BufferCap = 2
  Tag = 1
  PrefixMod = 4
  MaxFrames = 2
  MaxNonce = 3
  NoSecret = NoSecret
SPECIFICATION FairSpec
CHECK_DEADLOCK FALSE
PROPERTIES HandshakeEnds
