SPECIFICATION Spec
CONSTANTS
  Hosts = {h1}
  Registries = {r1, r2}
  Rpm = TRUE
  MaxRuns = 3
  MaxEdits = 2
SYMMETRY Symmetry
INVARIANTS Settled WorksWithFile KeepalivedGiven
PROPERTY OwnSettingsKept
CHECK_DEADLOCK FALSE
