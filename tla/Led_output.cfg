SPECIFICATION Spec
CONSTANTS
  MAX_NUM_OF_LED_PWM_SW = 2
  Platforms = {"STM32"}
  RestLevels <- FewLevels
  JsonLevels <- FewLevels
  MayFail = {}
INVARIANTS
  SwitchedOnShines
