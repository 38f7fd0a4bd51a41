\* All pairs of declarations, and all requests around their bounds.
CONSTANTS
  Names = {"a"}
  Declarations <- MCDeclarations
  Values <- MCValues
  Bodies <- MCBodies
  PlainBodies <- MCPlainBodies
  Word = 16
  MaxParameters = 2
SPECIFICATION Spec
INVARIANTS
  TypeOK
  ErrorsExact
  ParsesExactly
  ForwardsWhatItJudged
\* A behaviour ends with the request.
CHECK_DEADLOCK FALSE
