SPECIFICATION Spec
CONSTANTS
  ann = ann
  bob = bob
  eve = eve
  urgent = urgent
  alpha = alpha
  beta = beta
  People = {ann, bob, eve}
  Labels = {urgent}
  FirstRecord <- Opening
  PRs = {1, 2}
  Groups = {alpha, beta}
  GroupOf <- OneInEach
  Configs <- PlainConfig
  FirstFacts <- TwoFacts
  AllFacts = {}
  MaxRetryCount = 2
  MaxChanges = 2
PROPERTY MergedIsApproved
CHECK_DEADLOCK FALSE
