SPECIFICATION Spec
CONSTANTS
  r1 = r1
  r2 = r2
  r3 = r3
  n1 = n1
  n2 = n2
  None = None
  Damaged = Damaged
  Callers = {c1, c2}
  Jobs = {j1, j2}
  Releases = {r1}
  Listed = {r1}
  Fits = {r1}
  ImageName <- MCImageName
PROPERTIES JobEnds
