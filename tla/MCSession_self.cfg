\* A peer that is connected to itself.
CONSTANTS
  a = a  b = b
  Ends = {a, b}
  Signatory <- Same
  Silent = {}
  Sizes = {0, 1, 2, 3, 5}
  BufferCap = 2
  Tag = 1
  PrefixMod = 4
  MaxFrames = 2
  MaxNonce = 3
  NoSecret = NoSecret
SPECIFICATION FairSpec
CHECK_DEADLOCK FALSE
INVARIANTS Agreement
