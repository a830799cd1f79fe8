SPECIFICATION RecordsSpec
CONSTANTS
  client = client
  admin = admin
  sweeper = sweeper
  Ops <- EveryOp
  Users = {client, admin}
  Sweeper = sweeper
  Keys = {1, 2}
  Origins <- SomeStarts
  Budget = 1
INVARIANT IndexesPoint
INVARIANT TokenUsedOnce
INVARIANT CacheFresh
PROPERTY LostOnlyToRaces
PROPERTY Cascade
PROPERTY DigestsSent
PROPERTY IdleSessionsEnd
CHECK_DEADLOCK FALSE
