SPECIFICATION FairSpec
CONSTANTS
  c1 = c1
  c2 = c2
  f1 = f1
  None = None
  Main = c1
  Clients <- OneClient
  Funcs <- OneFunc
  Adders = {c1}
  Deleters = {}
  Destroyers = {c1}
  THREAD_COUNT = 1
  QUEUE_SIZE = 1
  Types = {0}
  Modes = {0}
  SpawnMayFail = FALSE
  MaxAdds = 1
  MaxDels = 0
  MaxDestroys = 1
CHECK_DEADLOCK FALSE
PROPERTIES
  DestroyTerminates
