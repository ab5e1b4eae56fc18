SPECIFICATION FairSpec
CONSTANTS
  t1 = t1
  t2 = t2
  f1 = f1
  f2 = f2
  a1 = a1
  a2 = a2
  None = None
  GTIMER_MAX = 2
  Threads <- TwoThreads
  Callers = {t1}
  Nums <- AllNums
  Funcs <- TwoFuncs
  Args <- TwoArgs
  MaxCalls = 2
INVARIANTS
  TypeOK
  OneLateCallback
  FiresOnce
  NeverCallsNull
  NoTornCallback
PROPERTIES
  SetTimersFire
CHECK_DEADLOCK FALSE
