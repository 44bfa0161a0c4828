SPECIFICATION Spec
CONSTANTS
  Threads = {t1, t2}
  NoThread = NoThread
  Frames = {f1, f2}
  PageBound = 3
  Values = {0}
  Zero = 0
  GuardLimit = 2
  NoReq = NoReq
SYMMETRY Symmetry
CHECK_DEADLOCK FALSE
INVARIANTS
  TypeOK
  TableIsBijection
  PinsCoverGuards
  OnlyUnpinnedEvictable
PROPERTY
  GuardedFramesStay
