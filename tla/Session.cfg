CONSTANTS
  Days = 2
  Hours = 3
  Limits = {0, 1}
  AltLimits = {0, 2}
  Owners = {torrent1}
  TrashFiles <- TwoFiles
  MaxAttempts = 2
  Early = FALSE
  Urls = {u1, u2}
  Links = {magnet, link}
  Magnets = {magnet}
  Wanted = {magnet, link}
  Publishes <- TwoFeeds
  KeepLinks = 2
  file1 = file1
  file2 = file2
  link = link
  magnet = magnet
  Searched = {torrent1}
  Places = {place1, place2}
  PieceSize = 2
  Offset = 1
  FileSize = 6
  Chunk = 2
  Window = 2
  EndPieces = 1
  HeadBytes = 2
  Readers = {r1, r2}
  Starts = {0, 3, 5}
  Waiting = {torrent1, torrent2}
  MaxRows = 2
  MediaSize = 16
  MediaWindow = 8
  KeepBehind = 1
  NearAhead = 2
  ReadAhead = 1
  Jumps = {0, 6, 9, 11}
  EarlyEnds = 2
  Slots = {s1, s2}
  Sizes = {1, 2}
  MaxRings = 2
  MaxFlight = 3
  Sources = {source1, source2}
  MaxWire = 3
  MaxGens = 3
  Watched = {torrent1}
  Videos = {1, 2}
  TailFirst = {2}
  Fakes = {2}
  MaxAsks = 3
  torrent1 = torrent1
  u1 = u1
  u2 = u2
SPECIFICATION Spec
CHECK_DEADLOCK FALSE
INVARIANT LimitsAreRight
PROPERTY SearchIsFair
INVARIANT DeletionGoesOn
INVARIANT FinishIsOrderly
PROPERTY FeedsAreSound
PROPERTY StreamIsSound
INVARIANT WindowIsHonest
INVARIANT PlayerIsTrue
