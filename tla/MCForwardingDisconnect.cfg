CONSTANTS
  Backends = {b1}
  Requests = {r1}
  Nobody = Nobody
  MaxInFlight = 1
  MaxHeartbeats = 0
  MaxConnections = 1
  ReplyTypes = {"Response"}
  Oversized = {}
  Unreadable = {}
  MayLeave = TRUE
  Settled = TRUE
SPECIFICATION FairSpec
PROPERTIES
  DisconnectDetected
CHECK_DEADLOCK FALSE
