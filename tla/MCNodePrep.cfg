SPECIFICATION Spec
CONSTANTS
  m1 = m1
  m2 = m2
  w = w
  Nodes = {m1, m2, w}
  Masters = {m1, m2}
  Calls <- Ops
  Installers = {"apt", "rpm"}
  SetSelinuxPermissive = TRUE
  MaxRuns = 3
  MaxReboots = 1
INVARIANTS MembersBoot EtcdOfCluster NamesKnown
CHECK_DEADLOCK FALSE
