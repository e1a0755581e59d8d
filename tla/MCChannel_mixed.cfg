\* Where code and sender part: the data of a Sync message that does not unmarshal (i3)
\* is taken for a message.
CONSTANTS
  c1 = c1  c2 = c2  c3 = c3  o1 = o1  o2 = o2  o3 = o3  i1 = i1  i2 = i2  i3 = i3
  NoConn = NoConn  NoMsg = NoMsg
  Conns = {c1, c2}
  OutMsgs = {}
  InMsgs = {i1, i2, i3}
  SyncMsgs = {i1, i2, i3}
  Unmarshalable = {}
  Malformed = {i2, i3}
  DataMsgs = {i1, i3}
  DataSyncs = {i3}
  Strangers = {}
  Healthy = {}
  Stallable = {}
  Cancellable = {}
  CanStop = TRUE
SPECIFICATION Spec
CHECK_DEADLOCK FALSE
INVARIANTS DataIsNoMessage
