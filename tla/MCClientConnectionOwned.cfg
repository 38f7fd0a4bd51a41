\* One accepted connection is enough.
CONSTANTS
  Clients = {c1, c2}
  Texts <- MCTexts
  NotANumber = NotANumber
  Word = 4
  MaxFd = 1
  MaxRead = 2
  ResponseSize = 2
  Window = 1
SPECIFICATION Spec
INVARIANT
  ConnectionOwned
CHECK_DEADLOCK FALSE
