\* Fair tasks, dead peers, one place for two connections; with and without PING.
CONSTANTS
  httpd = httpd
  event = event
  log = log
  remote = remote
  Httpd = httpd
  Casters = {event}
  MaxFd = 2
  MAX_WS_CLIENTS = 1
  MaxConns = 2
  MaxCasts = 2
  MaxRefused = 1
  Reuse = {FALSE}
  Control = {TRUE}
  Rotators = {}
SPECIFICATION FairSpec
INVARIANTS
  NoZombie
PROPERTIES
  SendersFinish
  LostIsClosed
\* All connections closed, all broadcasts sent.
CHECK_DEADLOCK FALSE
