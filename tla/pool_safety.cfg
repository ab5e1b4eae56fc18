SPECIFICATION Spec
CONSTANTS
  c1 = c1
  c2 = c2
  f1 = f1
  None = None
  Main = c1
  Clients <- TwoClients
  Funcs <- OneFunc
  Adders = {0, c2}
  Deleters = {c1}
  Destroyers = {c1, c2}
  THREAD_COUNT = 2
  QUEUE_SIZE = 2
  Types = {0, 1}
  Modes = {0, 1, 2}
  SpawnMayFail = TRUE
  MaxAdds = 3
  MaxDels = 1
  MaxDestroys = 2
CHECK_DEADLOCK FALSE
INVARIANTS
  TypeOK
  RingOrder
  EveryTaskOnce
  NoLostWakeup
  ShutdownWakesAll
  MutualExclusion
  MutexAbandoned
  FreeIsSafe
  GracefulDrains
  CancelsHoldersOnly
  DelCostsOneTask
PROPERTIES
  ImplementsWorkPool
