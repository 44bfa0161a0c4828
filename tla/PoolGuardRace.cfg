SPECIFICATION Spec
CONSTANTS
  Threads = {t1, t2}
  NoThread = NoThread
  Frames = {f1}
  PageBound = 2
  Values = {0}
  Zero = 0
  GuardLimit = 1
  NoReq = NoReq
INVARIANT
  GuardsMatch
