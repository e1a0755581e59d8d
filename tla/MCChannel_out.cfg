\* Outbound side: both connections may fault, be cancelled or turn out to belong to
\* another peer, and Run may stop.
CONSTANTS
  c1 = c1  c2 = c2  c3 = c3  o1 = o1  o2 = o2  o3 = o3  i1 = i1  i2 = i2  i3 = i3
  NoConn = NoConn  NoMsg = NoMsg
  Conns = {c1, c2}
  OutMsgs = {o1, o2, o3}
  InMsgs = {}
  SyncMsgs = {o1}
  Unmarshalable = {o3}
  Malformed = {}
  DataMsgs = {}
  DataSyncs = {}
  Strangers = {c1, c2}
  Healthy = {}
  Stallable = {}
  Cancellable = {c1, c2}
  CanStop = TRUE
SPECIFICATION Spec
SYMMETRY Symmetry
CHECK_DEADLOCK FALSE
INVARIANTS QuitOnce ReturnedIsReleased WiresWhole
PROPERTIES ImplementsOutbox
