SPECIFICATION FairSpec
CONSTANTS
  n1 = n1
  n2 = n2
  host = host
  Local = Local
  Node <- MCNode
  KubeNodes <- MCNodes
  Host = n1
  NoPass = {n1}
  WrongPass = {n2}
  MaxRuns = 2
  MaxGlitches = 1
INVARIANTS AdminLineKept SudoWorks LineRemoved PolicyCleared
PROPERTY ExitEnds
CHECK_DEADLOCK FALSE
