CONSTANTS
  file1 = file1
  file2 = file2
  film = film
  game = game
  none = none
  p1 = p1
  p2 = p2
  place1 = place1
  place2 = place2
  r1 = r1
  r2 = r2
  s1 = s1
  s2 = s2
  source1 = source1
  torrent1 = torrent1
SPECIFICATION Spec
CHECK_DEADLOCK FALSE
PROPERTY SessionGetsOn
PROPERTY PlayerGetsOn
PROPERTY ServicesGetOn
PROPERTY FetchEnds
