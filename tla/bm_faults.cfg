\* A client that may go away at any await and leave a router behind, the
\* SIGHUP loop, and kills at any point.
SPECIFICATION Spec
CONSTANTS
  a = a
  b = b
  Name = {a, b}
  Offered <- OfferedCancel
  RouterId = {r1, r2, r3, r4}
  Call = {c1}
  Daemon = daemon
  None = None
  Empty = Empty
  Garbage = Garbage
  Requests = {"put"}
  Faults = {"cancel", "sighup", "crash"}
  MaxStray = 1
SYMMETRY Symmetry
INVARIANTS
  OwnedRouters
  SlotsReady
  
  NobodyIsStuck
PROPERTIES
  ImplementsServing
