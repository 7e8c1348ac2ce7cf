\* Two clients put at once, with no fault of any kind.
SPECIFICATION Spec
CONSTANTS
  a = a
  b = b
  Name = {a, b}
  Offered <- OfferedTwo
  RouterId = {r1, r2, r3}
  Call = {c1, c2}
  Daemon = daemon
  None = None
  Empty = Empty
  Garbage = Garbage
  Requests = {"put"}
  Faults = {}
  MaxStray = 0
SYMMETRY Symmetry
INVARIANTS
  PersistsTheCurrentConfig
