SPECIFICATION EngineSpec
CONSTANTS
  j1 = j1
  j2 = j2
  s1 = s1
  sd = sd
  light = light
  None = None
  SD = sd
  LIGHT = light
  Numbers <- FirstThreads
  Jobs = {j1, j2}
  Stoppers = {s1}
  Callers = {j1, j2, s1}
INVARIANTS
  TypeOK
  ReinitByReopening
  ThreadsPerOpening
CHECK_DEADLOCK FALSE
