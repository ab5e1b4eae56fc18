SPECIFICATION FairSpec
CONSTANTS
  c1 = c1
  c2 = c2
  f1 = f1
  None = None
  Main = c1
  Clients <- OneClient
  Funcs <- OneFunc
  Adders = {0, c1}
  Deleters = {}
  Destroyers = {c1}
  THREAD_COUNT = 2
  QUEUE_SIZE = 1
  Types = {0}
  Modes = {0, 1, 2}
  SpawnMayFail = FALSE
  MaxAdds = 3
  MaxDels = 0
  MaxDestroys = 1
PROPERTIES
  TasksStart
  AddTerminates
  ShutdownTerminates
