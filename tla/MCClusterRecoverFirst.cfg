SPECIFICATION Spec
CONSTANTS
  m1 = m1
  m2 = m2
  m3 = m3
  w1 = w1
  Node <- MCNode
  Masters <- MCMasters
  Position <- MCPosition
  CalicoEnv = TRUE
  Remotes = {m1, m2}
  AddTargets = {}
  RecoverTargets = {m1}
  MaxRuns = 2
  MaxLosses = 1
INVARIANT RecoverSucceeds
CHECK_DEADLOCK FALSE
