\* A client that may go away, the SIGHUP loop, and an operator who edits the
\* file, under fairness.
SPECIFICATION FairSpec
CONSTANTS
  a = a
  b = b
  Name = {a, b}
  Offered <- OfferedTwo
  RouterId = {r1, r2, r3}
  Call = {c1}
  Daemon = daemon
  None = None
  Empty = Empty
  Garbage = Garbage
  Requests = {"put"}
  Faults = {"cancel", "sighup", "edit"}
  MaxStray = 0
PROPERTIES
  CallsComplete
  EditsTakeEffect
