SPECIFICATION Spec
CONSTANTS
  Platforms = {1, 2}
  Shown = {1}
  Numbers = {1}
  Configs <- AllConfigs
  Checks = {"ticker", "request"}
  Acts = 2
  Faults = 1
  Forges = {"github", "gitlab", "gitea"}
  Labels = {"a", "b"}
  RuleBooks <- Books
  Opened = {"webhook", "poller"}
  Commands = {"command"}
  Hands = 1
  Breaks = 1
  Hosts = {"github", "gitlab", "gitea", "bitbucket", "gerrit"}
  People = {p1, p2}
  Page = 2
  Caps = {1, 2}
  Submitted = 3
  Turns = 2
  Servers = {"github", "gitlab", "gitea", "bitbucket", "gerrit"}
  Pushes = 2
  Runs = 2
  Events = {"e1", "e2", "e3"}
  Mishaps = 1
PROPERTY WarnedBeforeClose
PROPERTY IdleEnds
INVARIANT LabelsAddUp
INVARIANT RulesApplied
INVARIANT StanceHeld
INVARIANT LandedPassed
PROPERTY NotedIsTold
CHECK_DEADLOCK FALSE
