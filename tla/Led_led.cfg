SPECIFICATION Spec
CONSTANTS
  MAX_NUM_OF_LED_PWM_SW = 2
  Platforms = {"STM32", "TM4C1294"}
  RestLevels <- SomeRestLevels
  JsonLevels <- SomeJsonLevels
  MayFail = {"registration", "answer", "message", "report"}
VIEW Device
INVARIANTS
  TypeOK
  OutputFollowsStatus
  RegistersFollowDuty
  RetryIsHarmless
PROPERTIES
  ImplementsDimmer
