SPECIFICATION Spec
CONSTANTS
  m1 = m1
  m2 = m2
  m3 = m3
  Configs <- Lists
  Address <- Addresses
  Lookalikes = {}
  StartsAtBoot = TRUE
  MaxRuns = 2
  MaxFaults = 1
PROPERTIES VipServes InitReached HealthyKeepsVip
CHECK_DEADLOCK FALSE
