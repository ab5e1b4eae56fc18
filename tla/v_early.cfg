SPECIFICATION Spec
CONSTANTS
  sd = sd
  light = light
  None = None
  MaxThreads = 4
  MayStop = FALSE
  SD = sd
  LIGHT = light
  SLOTS = 3
  SLOT_LEN = 1
  daySlot <- LateEarly
  StartTimes = {1}
  MaxClock = 2
PROPERTIES
  NeverTooEarly
CHECK_DEADLOCK FALSE
