CONSTANTS
  d1 = d1
  d2 = d2
  Downloads = {d1}
  FileName <- OwnNames
  Conns = 2
  Servers = {"ranges"}
  Sizes = {3}
  MaxChunk = 2
  Inodes = {1, 2, 3}
  None = None
  Ops = {"pause", "remove", "fail", "short", "openfails", "inuse", "diskfull", "unlink", "quit", "crash"}
SPECIFICATION Spec
CHECK_DEADLOCK FALSE
INVARIANT WholeUnlessSpoilt
INVARIANT CountedIsThere
INVARIANT SegmentsTile
