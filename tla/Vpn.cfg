CONSTANTS
  Profiles = {p1, p2}
  Ops = {"profiles", "killSwitch", "forward", "engine", "broken", "helper", "autoConnect", "relaunch"}
SPECIFICATION FairSpec
INVARIANT LinkIsSound
INVARIANT HoldCanBeLifted
PROPERTY FailsClosed
PROPERTY DisconnectSticks
PROPERTY NothingHangs
