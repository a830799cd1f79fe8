SPECIFICATION Spec
CONSTANTS
  user = user
  chat = chat
  poll = poll
  PRs = {1, 2}
  NoPR = NoPR
  Users = {user, chat}
  Poller = poll
  Singles <- AllSingles
  Batches <- AllBatches
  RequiredApprovals = 1
  Starts <- OneStart
  Budget = 1
INVARIANT ClaimsHaveGrounds
INVARIANT Alone
PROPERTY RecordsConverge
CHECK_DEADLOCK FALSE
