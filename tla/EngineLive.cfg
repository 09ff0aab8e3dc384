CONSTANTS
  t1 = t1
  t2 = t2
  t3 = t3
  None = None
  Torrents = {t1, t2, t3}
  Library <- Three
  Pieces = {1}
  Ops = {"rows", "move", "die"}
  ReplyMax = 1
  MaxRespawns = 1
  MaxDepth = 1
  MaxFrames = 1
SPECIFICATION EitherFairSpec
PROPERTY SelectedRowsGo
PROPERTY EngineRecovers
