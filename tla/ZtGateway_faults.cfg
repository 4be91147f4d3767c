SPECIFICATION Spec
CONSTANTS
  Joinable = {x}
  Own = {n1}
  Opts = {o1, o2}
  MaxPending = 1
  Faults = {"cut", "api"}
  None = None
INVARIANTS TypeOK Settled ClosedWhenUnnamed
PROPERTIES Quiesces
