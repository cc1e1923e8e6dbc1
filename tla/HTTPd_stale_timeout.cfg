SPECIFICATION Spec
CONSTANTS
  c1 = c1
  c2 = c2
  c3 = c3
  NULL = NULL
  Conns = {c1, c2}
  Timers = {c1, c2}
  HTTPD_MAX_CLIENTS = 1
  TIMER_QUEUE_LENGTH = 10
  Scripts <- GetScripts
  MaxBody = 1
  ResourcesMayFail = FALSE
PROPERTIES
  TimeoutHitsOwnConnection
