SPECIFICATION Spec
CONSTANTS
  Platforms = {1, 2, 3}
  Sources = {1, 2}
  Commits = {c1, c2}
  Side = {c2}
  Syncs = {g1, g2}
  Configs <- AllConfigs
  Deleting = c2
  NoOne = NoOne
  Gone = Gone
  Retries = 1
  Faults = 1
PROPERTY LockReturns
INVARIANT Alone
INVARIANT NothingLost
PROPERTY CodeFirst
CHECK_DEADLOCK FALSE
