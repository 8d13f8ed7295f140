SPECIFICATION FairSpec
CONSTANTS
  Accounts <- MCAccounts
  Plans <- MCPlans
  Proxied <- MCProxied
  HaltAfter = 2
  BackoffStart = 1
  BackoffMax = 1
  None = None
  Never = Never
  Watched = 1
  Confirms = {"c"}
  Critical = {"c"}
  MaxUnreadable = 1
  MaxToasts = 2
INVARIANTS
  PolledAsConfigured
  NothingIsLost
  ToldOnce
PROPERTIES
  PolledAgainUnlessOvertaken
