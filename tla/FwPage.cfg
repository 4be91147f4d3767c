SPECIFICATION Spec
CONSTANTS
  None = None
  Releases = {r1, r2}
  Imaged = {r2}
  Watches = {w1}
  Checks = {c1, c2}
  MaxRequests = 1
  MaxOthers = 1
INVARIANTS JobShown CheckShown
PROPERTIES WatchEnds
