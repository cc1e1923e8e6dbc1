SPECIFICATION SpecPages
CONSTANTS
  Pages = {p1, p2}
  MaxQueue = 2
  MaxMoves = 3
  MAX_NUM_OF_LED_PWM_SW = 1
  Platforms = {"TM4C1294"}
  RestLevels = {40}
  JsonLevels = {40}
  MayFail = {"message", "report"}
VIEW Screens
SYMMETRY Symmetry
INVARIANTS
  PagesAgree
  LastReportIsPresent
