\* One connection that faults while nothing is sent.
CONSTANTS
  c1 = c1  c2 = c2  c3 = c3  o1 = o1  o2 = o2  o3 = o3  i1 = i1  i2 = i2  i3 = i3
  NoConn = NoConn  NoMsg = NoMsg
  Conns = {c1}
  OutMsgs = {o1}
  InMsgs = {}
  SyncMsgs = {}
  Unmarshalable = {}
  Malformed = {}
  DataMsgs = {}
  DataSyncs = {}
  Strangers = {}
  Healthy = {}
  Stallable = {}
  Cancellable = {}
  CanStop = FALSE
SPECIFICATION FairSpec

CHECK_DEADLOCK FALSE

PROPERTIES FaultReturns
