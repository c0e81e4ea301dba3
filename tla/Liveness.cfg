SPECIFICATION FairSpec
CONSTANTS
  None = None
  User = User
  Runs = {r1, r2}
  Accounts = {a1}
  Keys = {k1}
  SentKinds = {"result"}
  MaxDepth = 0
  MaxChildrenPerRun = 0
  MaxMessagesPerRoot = 3
  GroupSpace = TRUE
  MaxSessions = 1
  MaxGeneration = 1
PROPERTIES
  PendingEnds
