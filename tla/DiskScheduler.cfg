SPECIFICATION FairSpec
CONSTANTS
  Threads = {t1, t2}
  Owner = owner
  Pages = {p1, p2}
  Values = {0, 1}
  Zero = 0
  Stop = Stop
CHECK_DEADLOCK FALSE
INVARIANTS
  TypeOK
  NothingAbandoned
PROPERTIES
  ImplementsAtomicDisk
  CallsReturn
  DestructorReturns
