SPECIFICATION FairSpec
CONSTANTS
  c1 = c1
  c2 = c2
  f1 = f1
  None = None
  Main = c1
  Clients <- OneClient
  Funcs <- OneFunc
  Adders = {c1}
  Deleters = {c1}
  Destroyers = {}
  THREAD_COUNT = 1
  QUEUE_SIZE = 1
  Types = {0}
  Modes = {}
  SpawnMayFail = FALSE
  MaxAdds = 2
  MaxDels = 1
  MaxDestroys = 0
CHECK_DEADLOCK FALSE
PROPERTIES
  AddTerminates
