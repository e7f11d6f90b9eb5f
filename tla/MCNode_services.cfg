\* Two networks, one with a wrong password; an image of three chunks; a ring
\* of two alerts.
CONSTANTS
  good = good
  bad = bad
  Creds = {good, bad}
  Good = {good}
  None = None
  MAX_STA_RETRIES = 2
  MaxWishes = 2
  MaxOutages = 1
  MaxBlips = 1
  MaxFaults = 1
  Length = 3
  kChunkBatch = 1
  MaxJobs = 2
  MaxLost = 1
  ALERT_LOG_MAX = 2
  Size <- Sizes
  Room = 2
  MaxAlerts = 5
  MaxFailures = 1
  MaxCrashes = 2
SPECIFICATION NodeSpec
INVARIANTS
  NeverStranded
  ListedInOrder
PROPERTIES
  Reconnects
  BarSettles
  ReachesFile
CHECK_DEADLOCK FALSE
