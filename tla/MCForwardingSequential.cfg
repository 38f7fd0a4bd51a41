CONSTANTS
  Backends = {b1, b2}
  Requests = {r1, r2, r3, r4}
  Nobody = Nobody
  MaxInFlight = 1
  MaxHeartbeats = 0
  MaxConnections = 1
  ReplyTypes = {"Response"}
  Oversized = {r4}
  Unreadable = {b2, r3}
  MayLeave = FALSE
  Settled = TRUE
SPECIFICATION FairSpec
INVARIANTS
  AnswersMatch
PROPERTIES
  ImplementsService
CHECK_DEADLOCK FALSE
