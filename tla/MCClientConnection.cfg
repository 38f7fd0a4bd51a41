\* Two clients for one descriptor; a response takes two writes.
CONSTANTS
  Clients = {c1, c2}
  Texts <- MCTexts
  NotANumber = NotANumber
  Word = 4
  MaxFd = 1
  MaxRead = 2
  ResponseSize = 2
  Window = 1
SPECIFICATION FairSpec
INVARIANTS
  TypeOK
  RoutedAsSent
  ClosedAfterResponse
PROPERTIES
  EventuallyClosed
  EventuallyAccepted
\* The system stops when all clients are served, or the process has died.
CHECK_DEADLOCK FALSE
