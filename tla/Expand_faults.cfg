SPECIFICATION ExpandSpec
CONSTANTS
  Callers = {p1, p2}
  Faults = {"cut", "tools"}
INVARIANTS ExpandTypeOK Ordered
PROPERTIES GrowsOnReboot
