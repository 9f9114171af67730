\* Two servers, a capacity of three, two files, every order of opens and
\* replicas; the build whose x = x++ leaves x.
SPECIFICATION Spec
CONSTANTS
  NServers = 2
  NFiles = 2
  MAX_SERVERS = 3
  MAX_FREE = 5
  REPL_THRESH = 2
  PostIncrement = 0
  MaxRequest = 4
INVARIANTS
  LoopsAgree
CHECK_DEADLOCK FALSE
