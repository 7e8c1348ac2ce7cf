\* Two requests with two attempts over two backends, SIGHUPs and kills at any
\* point, under fairness.
\* The process ends.
CHECK_DEADLOCK FALSE
SPECIFICATION ShutdownFairSpec
CONSTANTS
  Request = {q1, q2}
  Backend = {b1, b2}
  Unknown = Unknown
  Nothing = Nothing
  BufferResponses = TRUE
  Attempts = 2
  Faults = {"sighup", "kill"}
INVARIANTS
  ShutdownTypeOK
  BlamesTheRightBackend
  RetriesAreFailures
  TimeoutMeansCancelled
  
PROPERTIES
  ShutdownEnds
  
