SPECIFICATION MCSpec
CONSTANTS
  Runs = {r1, r2}
  ApiRuns = {r1}
  StreamingRuns = {r1}
  MaxOutputs = 1
  MaxFaults = 1
  Threads = {t1, t2}
  NoThread = NoThread
  MaxOps = 3
  MaxCliFaults = 2
  Calls = {u1, u2, u3}
  NoCall = NoCall
  DigestCalls = {u3}
  MaxServers = 2
  MaxServerFaults = 1
  DraftIds = {1, 2}
  OwnTexts = {own}
  OtherTexts = {other}
  Blank = Blank
  MaxVersions = 3
  MaxNotices = 1
  MaxFailures = 1
VIEW View
CHECK_DEADLOCK FALSE
INVARIANTS
  TimelineFaithful
  AllowIsGranted
  EndedRunSettled
  ThreadRemembers
  ServerOutlivesItsCalls
PROPERTIES
  ConfirmedIsShown
