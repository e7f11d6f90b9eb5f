\* Three connections over two numbers, or two that keep theirs; Httpd rotates the token.
CONSTANTS
  httpd = httpd
  event = event
  log = log
  remote = remote
  Httpd = httpd
  Casters = {event}
  MaxFd = 2
  MAX_WS_CLIENTS = 2
  MaxConns = 3
  MaxCasts = 1
  MaxRefused = 1
  Reuse = {TRUE, FALSE}
  Control = {FALSE}
  Rotators = {httpd}
SPECIFICATION Spec
INVARIANTS
  AuthedMeansSigned
  GateHolds
\* All connections closed, all broadcasts sent.
CHECK_DEADLOCK FALSE
