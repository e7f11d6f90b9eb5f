\* By hand: an update comes in on the HTTP server's task while TaskHAP packs another.
CONSTANTS
  hap = hap
  httpd = httpd
  Drivers = {hap}
  TaskHAP = hap
  Silence = 2
  MaxBoots = 1
  MaxUptime = 2
  CalmUptime = 1
  Parts = {"bulk"}
  BulkDrivers = {hap, httpd}
  Flusher = hap
  Size <- TwoSizes
  Cap = 6
  Meeting = TRUE
SPECIFICATION TaskSpec
INVARIANT NoBrokenArray
