\* Three pairs: a login and two rotations, or the sessions of two servers.
\* A refresh token outlives its access token by one second.
CONSTANTS
  Servers = {"orders", "billing"}
  Users = {"ann"}
  Spellings = {plain, padded}
  TooLong <- MCTooLong
  Keys = {k1}
  NoKey = NoKey
  AccessExpiry = 1
  RefreshExpiry = 2
  MaxTime = 2
  MaxIssued = 6
  MaxLogins = 2
  MaxRevoked = 1
  MaxLives = 2
SYMMETRY MCSymmetry
SPECIFICATION Spec
INVARIANTS
  TypeOK
  RefreshOnce
PROPERTIES
  RotationKeepsSession
  RejectedForGood
CHECK_DEADLOCK FALSE
