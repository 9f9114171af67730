\* A file on both servers and one on server 1; connections between servers may
\* fail, a failed replication leaves a thread behind, and the replications of
\* the writer make index[] longer than the list of servers.
SPECIFICATION Spec
CONSTANTS
  c1 = c1
  c2 = c2
  Clients = {c1, c2}
  NServers = 2
  NFiles = 2
  MAX_SERVERS = 3
  MAX_FREE = 4
  REPL_THRESH = 0
  PostIncrement = 0
  MaxThreads = 3
  MaxOpens <- OneAndTwo
  Requests <- WriterAndReader
  JoinIndex <- BothAndOne
  ConnectMayFail = TRUE
INVARIANTS
  LockDiscipline
  RedirectsToServer
  CallsPaired
CHECK_DEADLOCK FALSE
