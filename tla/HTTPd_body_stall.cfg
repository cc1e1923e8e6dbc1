SPECIFICATION FairSpec
CONSTANTS
  c1 = c1
  c2 = c2
  c3 = c3
  NULL = NULL
  Conns = {c1}
  Timers = {c1}
  HTTPD_MAX_CLIENTS = 1
  TIMER_QUEUE_LENGTH = 10
  Scripts <- StallScripts
  MaxBody = 1
  ResourcesMayFail = FALSE
PROPERTIES
  EveryConnectionEnds
