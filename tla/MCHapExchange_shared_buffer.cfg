\* The comment's claim of exclusive ownership, with two tasks.
CONSTANTS
  hap = hap
  httpd = httpd
  Tasks = {hap, httpd}
  TaskHAP = hap
  FrameCount = 2
  Bare = {}
  MaxSends = 1
  MaxDepth = 1
SPECIFICATION Spec
INVARIANT PayloadIntact
