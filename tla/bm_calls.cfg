\* Two clients whose puts, toggles and reads interleave under the lock.
SPECIFICATION Spec
CONSTANTS
  a = a
  b = b
  Name = {a, b}
  Offered <- OfferedSafety
  RouterId = {r1, r2, r3}
  Call = {c1, c2}
  Daemon = daemon
  None = None
  Empty = Empty
  Garbage = Garbage
  Requests = {"put", "state", "get", "reload"}
  Faults = {}
  MaxStray = 0
SYMMETRY Symmetry
INVARIANTS
  TypeOK
  ServedMatchesConfig
  ServedOnce
PROPERTIES
  SwapMatchesConfig
  FallbackSwapsAfterMain
  AppliesWhatWasAsked
