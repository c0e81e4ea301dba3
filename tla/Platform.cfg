SPECIFICATION PlatformSpec
CONSTANTS
  Seats = {c1}
  RecentTurns = 2
  MaxPosts = 3
  MaxSpaceSessions = 2
  MaxGenerations = 2
  Drafts = {d1}
  MaxEditions = 2
  MaxRestarts = 1
  MaxRequests = 3
  MaxUpdateFaults = 2
  Accounts = {a1, a2}
  Agents = {g1, g2, g3}
  Paths = {w1, w2}
  NoOne = NoOne
  MaxKeys = 3
  MaxLogins = 2
  MaxAccountFaults = 1
  Members = {p1, p2, p3}
  Groups = {k1}
  Rooms = {q1, q2}
  Projects = {j1}
  Nowhere = Nowhere
  MaxWork = 1
  MaxTold = 1
  Spaces = {s1, s2}
  Files = {f1, f2}
  Roots = {r1, r2}
  FirstRoot = r1
  MaxFileOps = 3
  RemovalFails = FALSE
  Dirs = {d1dir, d2dir, d3dir}
  Anchor = d1dir
  Vaults = {v1, v2}
  FirstVault = v1
  Owners = {o1, o2}
  Collections = {"runs", "messages"}
  Unset = Unset
  MaxSaves = 2
  MaxMoves = 3
  MaxBoots = 2
CHECK_DEADLOCK FALSE
INVARIANTS
  NothingForgotten
  DataSurvives
  AccountsSound
  DirectorySound
  FilesSound
  PathsAgree
PROPERTIES
  ExtendsWhatItSaw
  
  
