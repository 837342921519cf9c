SPECIFICATION WaitSpec
CONSTANTS
  scheduler = scheduler
  apiserver = apiserver
  PodNames <- Names
  Others = {job}
  Jobs = {job}
INVARIANTS WaitsSeen
PROPERTY WaitsEnd
CHECK_DEADLOCK FALSE
