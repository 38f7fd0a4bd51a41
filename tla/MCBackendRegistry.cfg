\* Three descriptors: two connections of one backend and a client, or two backends and a client.
CONSTANTS
  Paths <- MCPaths
  Placeholders <- MCPlaceholders
  Methods <- MCMethods
  BackendIds = {orders, billing}
  MaxEndpoints = 3
  MaxFd = 3
  Announcements <- MCAnnouncements
  Conforming = TRUE
SYMMETRY MCSymmetry
SPECIFICATION Spec
INVARIANTS
  TypeOK
  ConnectionsOpen
  RoutesReachTheirBackend
PROPERTIES
  PrecedenceStable
  DisconnectRemovesRoutes
  ServedConnectionsClose
\* The process stops serving once every descriptor has leaked or is dead.
CHECK_DEADLOCK FALSE
