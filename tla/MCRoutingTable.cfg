\* Three places for four valid keys: full and updated tables both happen.
CONSTANTS
  Paths <- MCPaths
  Placeholders <- MCPlaceholders
  Methods <- MCMethods
  BackendIds = {orders, billing}
  MaxEndpoints = 3
SPECIFICATION Spec
INVARIANTS
  TypeOK
  IndexConsistent
PROPERTIES
  RemovalSparesOthers
  ImplementsRouteMap
