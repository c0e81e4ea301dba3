SPECIFICATION Spec
CONSTANTS
  None = None
  User = User
  Runs = {r1, r2, r3}
  Accounts = {a1, a2, a3}
  Keys = {k1, k2}
  SentKinds = {"instruction", "result"}
  MaxDepth = 2
  MaxChildrenPerRun = 2
  MaxMessagesPerRoot = 3
  GroupSpace = FALSE
  MaxSessions = 1
  MaxGeneration = 1
SYMMETRY Symmetry
VIEW LiveState
INVARIANTS
  
  LimitsHold
  OpenMessagesReadable
  ParentInformed
PROPERTIES
  DeliveryFinal
