SPECIFICATION NamedSpec
CONSTANTS
  Keys = {1, 2, 3, 4, 5}
  Rids = {1, 2}
  NPages = 6
  LeafMax = 3
  InternalMax = 3
  NoPage = NoPage
  DefaultKey = 0
  NoIter = NoIter
  Gone = Gone
  DefaultRid = 0
  Unknown = Unknown
INVARIANTS
  IteratorTypeOK
PROPERTY
  ImplementsIndexCursor
