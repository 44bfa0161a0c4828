SPECIFICATION RaceFreeSpec
CONSTANTS
  Frames = {f1, f2}
  Pages = {p1, p2, p3, p4}
  NoFrame = NoFrame
  ReplacerSize = 2
  SizeMod = 1024
  GhostBound = 4
INVARIANT TargetInRange
