CONSTANTS
  Backends = {b1}
  Requests = {r1, r2}
  Nobody = Nobody
  MaxInFlight = 2
  MaxHeartbeats = 1
  MaxConnections = 2
  ReplyTypes = {"Response", "Error"}
  Oversized = {}
  Unreadable = {b1, r2}
  MayLeave = TRUE
  Settled = FALSE
SPECIFICATION Spec
INVARIANTS
  TypeOK
  WakeupsSound
  ResponsesNotShared
  NoInheritedBytes
CHECK_DEADLOCK FALSE
