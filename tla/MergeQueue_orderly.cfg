SPECIFICATION Spec
CONSTANTS
  srv = srv
  con = con
  tick = tick
  http = http
  PRs = {p1, p2}
  NoPR = NoPR
  Managers = {srv}
  Callers = {tick, http}
  NoCaller = NoCaller
  Tickers = {tick}
  MgrOf <- OneManager
  MaxRetryCount = 2
  MaxPriority = 0
  Ops = {"add", "withdraw", "schedule", "poll"}
  Faults <- FaultNames
  Budget = 4
INVARIANT NoSecondMergeCall
PROPERTY ImplementsLifecycle
