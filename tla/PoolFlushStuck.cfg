SPECIFICATION FairSpec
CONSTANTS
  Threads = {t1, t2}
  NoThread = NoThread
  Frames = {f1, f2}
  PageBound = 2
  Values = {0}
  Zero = 0
  GuardLimit = 2
  NoReq = NoReq
CHECK_DEADLOCK FALSE
PROPERTY
  FlushReturns
