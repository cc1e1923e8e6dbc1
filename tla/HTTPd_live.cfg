SPECIFICATION FairSpec
CONSTANTS
  c1 = c1
  c2 = c2
  c3 = c3
  NULL = NULL
  Conns = {c1, c2}
  Timers = {c1, c2}
  HTTPD_MAX_CLIENTS = 2
  TIMER_QUEUE_LENGTH = 18
  Scripts <- LiveScripts
  MaxBody = 1
  ResourcesMayFail = FALSE
PROPERTIES
  EveryConnectionEnds
