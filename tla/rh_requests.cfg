\* A request with three attempts while routers over two backends are replaced
\* around it, under fairness.
SPECIFICATION FairSpec
CONSTANTS
  Name = {a, b}
  RouterId = {r1, r2}
  None = None
  Request = {q1}
  Attempts = 3
  BufferRequests = FALSE
  BufferResponses = TRUE
INVARIANTS
  HandlerTypeOK
  HeldRouterIntact
  StreamedOnce
  EveryAttemptUsed
  
PROPERTIES
  RequestsComplete
