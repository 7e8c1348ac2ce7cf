\* One client at a time puts and toggles; system calls fail, and kills.
SPECIFICATION Spec
CONSTANTS
  a = a
  b = b
  Name = {a, b}
  Offered <- OfferedDurable
  RouterId = {r1, r2, r3}
  Call = {c1}
  Daemon = daemon
  None = None
  Empty = Empty
  Garbage = Garbage
  Requests = {"put", "state"}
  Faults = {"crash", "io"}
  MaxStray = 0
SYMMETRY Symmetry
INVARIANTS
  AcceptedPutsAreOnDisk
