SPECIFICATION Spec
CONSTANTS
  sd = sd
  light = light
  None = None
  MaxThreads = 4
  MayStop = TRUE
  SD = sd
  LIGHT = light
  SLOTS = 3
  SLOT_LEN = 1
  daySlot <- LateEarly
  StartTimes = {0}
  MaxClock = 1
INVARIANTS
  TypeOK
PROPERTIES
  ImplementsScheThreads
CHECK_DEADLOCK FALSE
