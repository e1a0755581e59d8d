\* Over a next resolver; w is larger than the cache.
CONSTANTS
  i1 = i1  i2 = i2  i3 = i3  u = u  v = v  w = w  None = None
  Ids = {i1, i2, i3}
  Values = {u, v, w}
  Size <- Sizes
  Capacity = 3
  HasNext = TRUE
  MaxBytes = 8
SPECIFICATION CacheSpec
CHECK_DEADLOCK FALSE
INVARIANTS Bounded Retained ReadsLastCached
