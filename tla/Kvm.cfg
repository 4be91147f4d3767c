SPECIFICATION Spec
CONSTANTS
  None = None
  VMs = {a, b}
  a = a
  b = b
  Settings <- MCSettings
  Storages = {d1, d2}
INVARIANTS OneCoreType
PROPERTIES Undisturbed Applied
