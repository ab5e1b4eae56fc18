SPECIFICATION Spec
CONSTANTS
  j1 = j1
  j2 = j2
  s1 = s1
  None = None
  Jobs = {j1, j2}
  Stoppers = {s1}
  MaxOverlap = 2
  RAM_JPG_MAX = 3
  RAM_MP4_MAX = 3
  COOLDOWN = 0
  TRIGGER_MOTION = motion
  Types = {motion}
  motion = motion
  MaxClock = 2
INVARIANTS
  TypeOK
  StopCutsJobs
  SequentialJobs
  ActionsInOrder
SYMMETRY JobSymmetry
CHECK_DEADLOCK FALSE
