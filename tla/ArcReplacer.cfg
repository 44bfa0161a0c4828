SPECIFICATION Spec
CONSTANTS
  Frames = {f1, f2, f3}
  Pages = {p1, p2, p3}
  NoFrame = NoFrame
  ReplacerSize = 3
  SizeMod = 8
  GhostBound = 3
INVARIANTS
  TypeOK
  ListsMatchMap
  CountMatches
  GhostsListed
  NeverHangs
PROPERTY
  ImplementsReplacer
SYMMETRY Symmetry
