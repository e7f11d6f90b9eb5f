\* TaskHAP, and a task that sends a request in half of the behaviours.
CONSTANTS
  hap = hap
  httpd = httpd
  Tasks = {hap, httpd}
  TaskHAP = hap
  FrameCount = 4
  Bare = {2}
  MaxSends = 2
  MaxDepth = 3
SPECIFICATION FairSpec
INVARIANTS
  NestingIsSafe
  NoSelfWait
PROPERTY QueueDrains
