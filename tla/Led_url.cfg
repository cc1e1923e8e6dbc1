SPECIFICATION Spec
CONSTANTS
  MAX_NUM_OF_LED_PWM_SW = 2
  Platforms = {"TM4C1294"}
  RestLevels <- FewLevels
  JsonLevels <- FewLevels
  MayFail = {}
PROPERTIES
  OnlyTheNamedLed
