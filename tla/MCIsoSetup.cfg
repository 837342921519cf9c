SPECIFICATION Spec
CONSTANTS
  N = 3
  Remote = 1
  Targets <- AnyNodes
  Strangers = {2, 3}
  Ubuntu = TRUE
  Online = TRUE
  MaxRuns = 3
INVARIANTS MountedIso ListsFound
CHECK_DEADLOCK FALSE
