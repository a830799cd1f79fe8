SPECIFICATION FairSpec
CONSTANTS
  srv = srv
  con = con
  tick = tick
  http = http
  PRs = {p1}
  NoPR = NoPR
  Managers = {srv, con}
  Callers = {tick, http}
  NoCaller = NoCaller
  Tickers = {tick}
  MgrOf <- TwoManagers
  MaxRetryCount = 2
  MaxPriority = 0
  Ops = {"add", "readd", "remove", "schedule", "close", "priority"}
  Faults = {"error", "mergefails", "savefails", "lostreply", "putfails"}
  Budget = 3
PROPERTY Drains
