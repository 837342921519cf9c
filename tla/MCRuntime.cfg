SPECIFICATION Spec
CONSTANTS
  Wishes <- AllWishes
  Passwords = {TRUE, FALSE}
  MaxRuns = 3
INVARIANTS DockerReady ContainerdReady ConfigNotLost PolicyGone
CHECK_DEADLOCK FALSE
