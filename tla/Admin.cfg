SPECIFICATION Spec
CONSTANTS
  Requests = {r1, r2}
  Keep = 1
  Acts = 3
  Stops = 1
  Slips = 1
  Updaters = {"u1", "u2", "u3"}
  Starts = 5
  Mishaps = 2
SYMMETRY AnyOrder
INVARIANT Sealed
PROPERTY UpdatesAddUp
PROPERTY SnapshotsStand
INVARIANT Recoverable
CHECK_DEADLOCK FALSE
