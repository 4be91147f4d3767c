SPECIFICATION Spec
CONSTANTS
  f1 = f1
  f2 = f2
  web = web
  db = db
  None = None
  Callers = {c1}
  Jobs = {j1, j2}
  Apps = {pull}
  PullJob = pull
  pull = pull
  Files = {f1, f2, bad}
  Services <- MCServices
INVARIANTS TypeOK NoOrphans
PROPERTIES DoneMeansDone ImplementsJob
