SPECIFICATION Spec
CONSTANTS
  None = None
  User = User
  Runs = {r1, r2, r3, r4, r5}
  Accounts = {a1, a2, a3}
  Keys = {k1}
  SentKinds = {}
  MaxDepth = 2
  MaxChildrenPerRun = 1
  MaxMessagesPerRoot = 2
  GroupSpace = FALSE
  MaxSessions = 1
  MaxGeneration = 1
SYMMETRY Symmetry
VIEW LiveState
INVARIANT
  NoAccountWaitCycle
