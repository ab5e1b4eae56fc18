SPECIFICATION FairSpec
CONSTANTS
  sd = sd
  light = light
  None = None
  MaxThreads = 4
  MayStop = FALSE
  SD = sd
  LIGHT = light
  SLOTS = 1
  SLOT_LEN = 1
  daySlot <- AllDay
  StartTimes = {0}
  MaxClock = 1
PROPERTIES
  WaitersRun
CHECK_DEADLOCK FALSE
