SPECIFICATION TreeFairSpec
CONSTANTS
  Threads = {t1, t2}
  NoThread = NoThread
  Frames = {f1, f2}
  PageBound = 3
  Values = {0, 1}
  Zero = 0
  GuardLimit = 2
  NoReq = NoReq
  HeaderPage = 0
INVARIANTS
  GuardsMatch
  PinFindsFrame
  PinsExact
  NoFrameLost
  CleanMatchesDisk
PROPERTIES
  GuardedDataStays
  ImplementsPageStore
  FetchUnderHeaderReturns
