\* A request with retries that meets a main router without a healthy node.
SPECIFICATION Spec
CONSTANTS
  Name = {a}
  RouterId = {r1, r2}
  None = None
  Request = {q1}
  Attempts = 2
  BufferRequests = FALSE
  BufferResponses = TRUE
SYMMETRY Symmetry
INVARIANTS
  WaitsForHealthyNodes
