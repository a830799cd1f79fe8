SPECIFICATION FairSpec
CONSTANTS
  Environments <- RetryingAndFollowing
  Ignored = {"pr_comment"}
  MaxAttempts = 3
  MaxDeliveries = 2
  MaxAccepts = 2
  NoIntake <- None
INVARIANT PublishedOnce
INVARIANT NoneLost
PROPERTY AllSettled
PROPERTY RecordFollows
CHECK_DEADLOCK FALSE
