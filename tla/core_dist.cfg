\* A file on server 0, which its second open replicates, and one on both servers
\* that server 1 opens and pushes: the two servers can wait for each other, in
\* two pushes and in a push and a replication, so deadlock is not an error here.
SPECIFICATION Spec
CONSTANTS
  c1 = c1
  c2 = c2
  Clients = {c1, c2}
  NServers = 2
  NFiles = 2
  MAX_SERVERS = 2
  MAX_FREE = 4
  REPL_THRESH = 0
  PostIncrement = 0
  MaxThreads = 4
  MaxOpens <- TwoAndOne
  Requests <- TwoFilesEach
  JoinIndex <- OneAndBoth
  ConnectMayFail = FALSE
INVARIANTS
  
  RequestNeverOvercounts
  DeadlockNeedsTwo

  
CHECK_DEADLOCK FALSE
