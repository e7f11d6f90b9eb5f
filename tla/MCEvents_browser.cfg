\* Two tasks share the slab; three frames, two in the queue; three lines, two in the ring.
CONSTANTS
  hap = hap
  httpd = httpd
  ws_tx = ws_tx
  nobody = nobody
  b1 = b1
  EventTasks = {hap, httpd}
  Httpd = httpd
  Sender = ws_tx
  Browsers = {b1}
  Depth = 2
  Nobody = nobody
  LOG_RING_SIZE = 2
  MaxAllocFailures = 1
  MaxConnects = 1
  MaxLines = 3
  MaxWalks = 1
  MaxFrames = 3
SPECIFICATION BrowserSpec
INVARIANTS
  InOrder
  DropsCounted
  WalkBounded
PROPERTY QueueEmpties
CHECK_DEADLOCK FALSE
