\* Heartbeats handled on two tasks, some lost or not decoded, or calm weather.
\* Two tasks pack updates in turn: 1 and 2 fill the buffer, and so does 4; 2 and
\* 3 miss by the byte of the "]"; update 5 never fits.
CONSTANTS
  hap = hap
  httpd = httpd
  Drivers = {hap, httpd}
  TaskHAP = hap
  Silence = 2
  MaxBoots = 2
  MaxUptime = 3
  CalmUptime = 3
  Parts = {"link", "bulk"}
  BulkDrivers = {hap, httpd}
  Flusher = hap
  Size <- Sizes
  Cap = 6
  Meeting = FALSE
SPECIFICATION TaskSpec
INVARIANTS
  AlertsPaired
  RestartNoticed
  ArraysWellFormed
PROPERTIES
  LinkResyncs
  SilenceReported
  ImplementsStream
