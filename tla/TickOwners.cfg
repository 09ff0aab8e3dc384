CONSTANTS
  t1 = t1
  t2 = t2
  t3 = t3
  None = None
  Torrents = {t1}
  Library <- One
  Loaded = {"metadata", "seeding"}
  Saved = {"interface", "killSwitch", "forceStart", "completed"}
  Ops = {"add", "remove", "pause", "resume", "force", "complete", "bind", "killSwitch", "vpn", "fileErrors", "interface", "seedLimits", "lowDisk", "memory", "stalls"}
  MaxCap = 1
CHECK_DEADLOCK FALSE
SPECIFICATION Spec

INVARIANT PausesHaveAnOwner
