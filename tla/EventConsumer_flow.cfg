SPECIFICATION FairSpec
CONSTANTS
  DebounceKeys = {p1}
  MaxEvents = 3
  BusCap = 1
  MaxStops = 1
  Tasks <- Events
  NoTask <- None
  Workers = {w1, w2, w3}
  Configs <- SmallAndNarrow
  StartConfig <- Small
  BufferPerWorker = 1
INVARIANT QuietWhenStopped
PROPERTY ReceivedIsHandled
PROPERTY StopEnds
CHECK_DEADLOCK FALSE
