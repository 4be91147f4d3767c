SPECIFICATION Spec
CONSTANTS
  r1 = r1
  r2 = r2
  r3 = r3
  n1 = n1
  n2 = n2
  None = None
  Damaged = Damaged
  Callers = {c1}
  Jobs = {j1}
  Releases = {r1, r2, r3}
  Listed = {r1, r2, r3}
  Fits = {r1, r3}
  ImageName <- MCImageName
INVARIANTS ReadyVerified NeverDamaged
PROPERTIES ServesPage ImplementsJob
