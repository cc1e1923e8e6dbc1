SPECIFICATION Spec
CONSTANTS
  c1 = c1
  c2 = c2
  c3 = c3
  NULL = NULL
  Conns = {c1, c2}
  Timers = {c1, c2}
  HTTPD_MAX_CLIENTS = 2
  TIMER_QUEUE_LENGTH = 3
  Scripts <- HttpScripts
  MaxBody = 1
  ResourcesMayFail = FALSE
SYMMETRY Symmetry
INVARIANTS
  TypeOK
  SocketOwnership
  BuffersOwned
  LiveTimerKept
  TimersReclaimed
  WatchoutArmed
  FrameOnlyAfterHandshake
PROPERTIES
  ImplementsLifecycle
  TimeoutFlagsLiveConnection
