SPECIFICATION Spec
CONSTANTS
  None = None
  User = User
  Runs = {r1, r2, r3}
  Accounts = {a1}
  Keys = {k1}
  SentKinds = {"result"}
  MaxDepth = 0
  MaxChildrenPerRun = 0
  MaxMessagesPerRoot = 1
  GroupSpace = TRUE
  MaxSessions = 1
  MaxGeneration = 1
SYMMETRY Symmetry
VIEW LiveState
INVARIANTS
  TypeOK
  NoAbandonedRun
  OverlayConsistent
