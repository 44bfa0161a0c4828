SPECIFICATION Spec
CONSTANTS
  Keys = {1, 2, 3, 4, 5}
  Rids = {r1}
  NPages = 10
  LeafMax = 2
  InternalMax = 3
  NoPage = NoPage
  DefaultKey = 0
INVARIANT WithinMax
