CONSTANTS
  t1 = t1
  t2 = t2
  t3 = t3
  None = None
  Torrents = {t1, t2}
  Library <- Two
  Loaded = {"downloading"}
  Saved = {"interface", "killSwitch"}
  Ops = {"interface"}
  MaxCap = 1
SPECIFICATION Spec
INVARIANT KillSwitchHolds
