\* MCNode_services.cfg with the one property.
CONSTANTS
  good = good
  bad = bad
  Creds = {good, bad}
  Good = {good}
  None = None
  MAX_STA_RETRIES = 2
  MaxWishes = 2
  MaxOutages = 1
  MaxBlips = 1
  MaxFaults = 1
  Length = 3
  kChunkBatch = 1
  MaxJobs = 2
  MaxLost = 1
  ALERT_LOG_MAX = 2
  Size <- Sizes
  Room = 2
  MaxAlerts = 5
  MaxFailures = 1
  MaxCrashes = 2
SPECIFICATION NodeSpec
INVARIANT ApStaysUp
CHECK_DEADLOCK FALSE
