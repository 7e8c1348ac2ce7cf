\* A disagreement: see the findings in the README.
CHECK_DEADLOCK FALSE
SPECIFICATION ShutdownSpec
CONSTANTS
  Request = {q1}
  Backend = {b1}
  Unknown = Unknown
  Nothing = Nothing
  BufferResponses = FALSE
  Attempts = 1
  Faults = {}
INVARIANTS
  AllRequestsFlushed
