CONSTANTS
  d1 = d1
  film = film
  game = game
  link = link
  p1 = p1
  p2 = p2
  s1 = s1
  s2 = s2
  t1 = t1
  t2 = t2
  t3 = t3
  torrent1 = torrent1
  u1 = u1
  u2 = u2
SPECIFICATION Spec
CHECK_DEADLOCK FALSE
INVARIANT SearchIsSound
INVARIANT ResolverIsSound
PROPERTY LibraryIsSound
INVARIANT ApplicationIsSound
INVARIANT SourcesAreSound
INVARIANT GamesAreSound
