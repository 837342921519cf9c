SPECIFICATION Spec
CONSTANTS
  N = 3
  Remote = 1
  Tools <- MCTools
  Targets <- All
  Online = TRUE
  Isos = {TRUE, FALSE}
  MaxRuns = 4
INVARIANTS ToolInstalled RunRecovers
CHECK_DEADLOCK FALSE
