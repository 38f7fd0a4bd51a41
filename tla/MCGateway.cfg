\* Two servers on two connections, a login and a rotation or two logins.
CONSTANTS
  BackendIds = {orders, billing}
  Users = {"ann"}
  Spellings = {"plain"}
  TooLong <- MCTooLong
  Keys = {k1}
  NoKey = NoKey
  AccessExpiry = 1
  RefreshExpiry = 2
  MaxTime = 1
  MaxIssued = 4
  MaxLives = 2
  MaxLogins = 1
  Paths <- MCPaths
  Placeholders <- MCPlaceholders
  Methods <- MCMethods
  MaxEndpoints = 2
  MaxFd = 2
  Announcements <- MCAnnouncements
  Conforming = TRUE
SYMMETRY MCSymmetry
SPECIFICATION GatewaySpec
INVARIANTS
  DeliveredWhereIssued
  NeverUnavailable
PROPERTIES
  RefreshNeedsItsBackend
\* The process stops serving once every descriptor has leaked.
CHECK_DEADLOCK FALSE
