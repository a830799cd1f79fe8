SPECIFICATION Spec
CONSTANTS
  srv = srv
  con = con
  tick = tick
  http = http
  PRs = {p1}
  NoPR = NoPR
  Managers = {srv, con}
  Callers = {tick, http}
  NoCaller = NoCaller
  Tickers = {tick}
  MgrOf <- TwoManagers
  MaxRetryCount = 2
  MaxPriority = 1
  Ops <- EveryOp
  Faults <- FaultNames
  Budget = 3
INVARIANT RetryDiscipline
