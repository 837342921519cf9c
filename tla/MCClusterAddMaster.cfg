SPECIFICATION Spec
CONSTANTS
  m1 = m1
  m2 = m2
  m3 = m3
  w1 = w1
  Node <- MCNode
  Masters <- MCMasters
  Position <- MCPosition
  CalicoEnv = TRUE
  Remotes = {m1}
  AddTargets = {m2}
  RecoverTargets = {}
  MaxRuns = 2
  MaxLosses = 0
INVARIANT AddedNodeJoins
CHECK_DEADLOCK FALSE
