SPECIFICATION Spec
CONSTANTS
  Joinable = {x}
  Own = {n1, n2}
  Opts = {o1}
  MaxPending = 1
  Faults = {}
  None = None
PROPERTIES OneNetwork
