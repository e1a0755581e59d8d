\* Inbound side: a Sync message and two that do not unmarshal, one of them (i3)
\* with data that does.
CONSTANTS
  c1 = c1  c2 = c2  c3 = c3  o1 = o1  o2 = o2  o3 = o3  i1 = i1  i2 = i2  i3 = i3
  NoConn = NoConn  NoMsg = NoMsg
  Conns = {c1, c2}
  OutMsgs = {}
  InMsgs = {i1, i2, i3}
  SyncMsgs = {i1, i2, i3}
  Unmarshalable = {}
  Malformed = {i2, i3}
  DataMsgs = {i1, i3}
  DataSyncs = {i3}
  Strangers = {}
  Healthy = {}
  Stallable = {}
  Cancellable = {}
  CanStop = TRUE
SPECIFICATION Spec
SYMMETRY Symmetry
CHECK_DEADLOCK FALSE
INVARIANTS InboundInOrder
