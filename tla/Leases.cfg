SPECIFICATION Spec
CONSTANTS
  None = None
  User = User
  Runs = {r1, r2, r3}
  Accounts = {a1}
  Keys = {}
  SentKinds = {}
  MaxDepth = 0
  MaxChildrenPerRun = 0
  MaxMessagesPerRoot = 1
  GroupSpace = FALSE
  MaxSessions = 2
  MaxGeneration = 3
SYMMETRY Symmetry
VIEW LiveState
INVARIANTS
  LeaseExclusive
  ActiveSession
  CompactionAwaited
PROPERTIES
  TerminalStays
