SPECIFICATION Spec
CONSTANTS
  None = None
  Chains = {c1, c2}
  Jobs = {j1, j2}
INVARIANTS NoDeadDialog
PROPERTIES OwnResult FollowEnds
