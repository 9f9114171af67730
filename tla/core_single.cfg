\* Two clients of server 0, which alone holds the file and never replicates.
SPECIFICATION FairSpec
CONSTANTS
  c1 = c1
  c2 = c2
  Clients = {c1, c2}
  NServers = 3
  NFiles = 1
  MAX_SERVERS = 3
  MAX_FREE = 6
  REPL_THRESH = 9
  PostIncrement = 1
  MaxThreads = 6
  MaxOpens <- OneEach
  Requests <- HomeZero
  JoinIndex <- OnZero
  ConnectMayFail = FALSE
INVARIANTS
  TypeOK
  FreeAgrees
PROPERTIES
  OpenReturns
