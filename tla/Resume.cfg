CONSTANTS
  t1 = t1
  t2 = t2
  None = None
  Torrents = {t1, t2}
  Hybrid = {}
  Ops = {"add", "remove", "restore", "expire", "save", "quit"}
  GuardMax = 500
  MaxPieces = 1
  MaxAlerts = 2
  MaxList = 2
SPECIFICATION EitherSpec
INVARIANT FlushIsComplete
INVARIANT RemovedStaysRemoved
INVARIANT KeptIsStored
PROPERTY KeptAsPromised
