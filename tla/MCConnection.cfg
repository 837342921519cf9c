SPECIFICATION Spec
CONSTANTS
  n1 = n1
  n2 = n2
  KubeNodes = {n1, n2}
  Options <- MCOptions
  Local = Local
  None = None
  InConfig = {n2}
  User <- MCUser
  Pass <- MCPass
  MaxRuns = 3
  MaxChanges = 2
  MaxGlitches = 1
INVARIANTS NeverPanics RightAnswersWork WorkConnected
PROPERTY CredentialsKept
CHECK_DEADLOCK FALSE
