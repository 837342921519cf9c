SPECIFICATION FairSpec
CONSTANTS
  m1 = m1
  m2 = m2
  m3 = m3
  w1 = w1
  Node <- MCNode
  Masters <- MCMasters
  Position <- MCPosition
  CalicoEnv = TRUE
  Remotes = {m1}
  AddTargets = {w1}
  RecoverTargets = {m2}
  MaxRuns = 3
  MaxLosses = 1
INVARIANT TypeOK
INVARIANT ResettableLeftovers
INVARIANT EtcdOneIncarnation
INVARIANT FreshStore
INVARIANT OneCluster
INVARIANT InstallRestartable
INVARIANT RecoverSucceeds
PROPERTY RunOutcome
PROPERTY ClusterSurvives
PROPERTY MembershipKept
PROPERTY RunsEnd
CHECK_DEADLOCK FALSE
