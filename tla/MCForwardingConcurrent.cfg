CONSTANTS
  Backends = {b1}
  Requests = {r1, r2}
  Nobody = Nobody
  MaxInFlight = 2
  MaxHeartbeats = 0
  MaxConnections = 1
  ReplyTypes = {"Response"}
  Oversized = {}
  Unreadable = {}
  MayLeave = FALSE
  Settled = TRUE
SPECIFICATION Spec
INVARIANTS
  AnswersMatch
CHECK_DEADLOCK FALSE
