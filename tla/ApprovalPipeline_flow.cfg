SPECIFICATION FairSpec
CONSTANTS
  ann = ann
  bob = bob
  eve = eve
  urgent = urgent
  alpha = alpha
  beta = beta
  People = {ann, bob, eve}
  Labels = {urgent}
  FirstRecord <- Opening
  PRs = {1}
  Groups = {alpha}
  GroupOf <- AllInAlpha
  Configs <- EveryConfig
  FirstFacts <- SomeFacts
  AllFacts <- LaterFacts
  MaxRetryCount = 2
  MaxChanges = 3
INVARIANTS Agreement ExprMeaning
PROPERTIES OnlyMergeable ApprovedIsMerged
CHECK_DEADLOCK FALSE
