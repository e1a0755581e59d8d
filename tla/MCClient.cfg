\* Two users share Channels that come and go; receivers come and go as well.
CONSTANTS
  u1 = u1  u2 = u2  u3 = u3  r1 = r1  r2 = r2  k1 = k1  k2 = k2  k3 = k3
  p1 = p1  p2 = p2  p3 = p3  NoRemote = NoRemote  NoMsg = NoMsg
  Users = {u1, u2}
  Remotes = {r1}
  Receivers = {k1, k2, k3}
  Msgs = {p1, p2}
  Bad = {p2}
  Cancels = {k2, k3}
  MaxGen = 2
SPECIFICATION FairSpec
CHECK_DEADLOCK FALSE
INVARIANTS RefCounted NoLeak NothingMissed
PROPERTIES ForwardedTaken
