\* Two servers that both serve opens of one file.
SPECIFICATION FairSpec
CONSTANTS
  c1 = c1
  c2 = c2
  Clients = {c1, c2}
  NServers = 2
  NFiles = 1
  MAX_SERVERS = 3
  MAX_FREE = 6
  REPL_THRESH = 9
  PostIncrement = 1
  MaxThreads = 5
  MaxOpens <- ThreeAndOne
  Requests <- ReadersEach
  JoinIndex <- OnBoth
  ConnectMayFail = FALSE
PROPERTIES
  PushEnds
CHECK_DEADLOCK FALSE
