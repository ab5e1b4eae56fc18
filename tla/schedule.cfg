SPECIFICATION Spec
CONSTANTS
  SLOTS = 3
  SLOT_LEN = 2
  GSCHEDULE_STRUCT_MAX = 2
  Weeks <- AllWeeks
  StartTimes = {0, 3, 5}
  MaxClock = 7
  MaxCalls = 2
  TIME_MASK_MAX = 2
  None = None
INVARIANTS
  TypeOK
  PlanSkipsNothing
  EndInRun
  NeverEarly
CHECK_DEADLOCK FALSE
