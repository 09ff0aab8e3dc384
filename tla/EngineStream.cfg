CONSTANTS
  t1 = t1
  t2 = t2
  t3 = t3
  None = None
  Torrents = {t1}
  Library <- One
  Pieces = {1}
  Ops = {"stream", "hashes", "add", "slow"}
  ReplyMax = 0
  MaxRespawns = 1
  MaxDepth = 2
  MaxFrames = 1
SPECIFICATION EitherSpec
INVARIANT MapIsKept
INVARIANT RespawnMixesNothingUp
PROPERTY AnswersItsCall
