SPECIFICATION Spec
CONSTANTS
  None = None
  Chains = {c1, c2}
  Shells = {s1, s2}
INVARIANTS NoDeadDialog
PROPERTIES DoneIsOwn FollowEnds
