SPECIFICATION ServicesSpec
CONSTANTS
  None = None
  BufferSize = 2
  MaxConnectionFailures = 2
  MaxSessions = 2
  MaxSeq = 4
  MaxFaults = 3
  Slugs = {sl1, sl2}
  MaxWrites = 3
  NoProposals = NoProposals
  MaxProposals = 2
  NoPlan = NoPlan
  MaxVaultFaults = 2
  Workers = {w1, w2}
  MaxDispatches = 1
  MaxWorkerFailures = 2
  MaxTaskFaults = 2
  Messages = {m1}
  SseBuffer = 2
  ResetBuffer = 1
  MaxDeltas = 1
  MaxEvents = 5
  MaxBreaks = 1
  MaxMinutes = 6
  MaxMessages = 2
  MaxDigests = 1
  MaxPatches = 2
  MaxStops = 1
  CatchUp = 4
  ResidentLines = 1
  Memories = {n1, n2}
  Links = {{n1, n2}}
  Takes = {1}
  MaxRecallCalls = 3
  MaxMemoryEdits = 1
  MaxEmbedFailures = 1
  MaxEdits = 2
  MaxCrashes = 3
  Agents = {g1, g2}
  ApiAgents = {g1}
  Eras = {0, 1, 2}
  Null = Null
  MaxReplays = 3
  ChatRuns = {cr1}
  ChatSessions = {cs1, cs2}
  FirstSession = cs1
  NoEntry = NoEntry
  MaxNews = 3
  MaxFetches = 2
  MaxLost = 1
CHECK_DEADLOCK FALSE
INVARIANTS
  
  CancelReachesWorker
  QuietViewIsCurrent
  EachOnce
  RecallSound
  
  ShownRunsAreTrue
PROPERTIES
  ImplementsDelivery
  
  SuccessUnderFrozenRuntime
  NewerNotOverwritten
