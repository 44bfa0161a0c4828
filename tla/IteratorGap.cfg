SPECIFICATION IterSpec
CONSTANTS
  Keys = {1, 2, 3, 4}
  Rids = {r1}
  NPages = 6
  LeafMax = 2
  InternalMax = 3
  NoPage = NoPage
  DefaultKey = 0
  NoIter = NoIter
  Gone = Gone
  DefaultRid = r0
  Unknown = Unknown
INVARIANT OnEntryOrEnd
