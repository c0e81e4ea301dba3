SPECIFICATION Spec
CONSTANTS
  None = None
  User = User
  Runs = {r1, r2}
  Accounts = {a1}
  Keys = {}
  SentKinds = {}
  MaxDepth = 0
  MaxChildrenPerRun = 1
  MaxMessagesPerRoot = 1
  GroupSpace = FALSE
  MaxSessions = 1
  MaxGeneration = 1
SYMMETRY Symmetry
VIEW LiveState
INVARIANT
  StartFailureContained
