SPECIFICATION FairSpec
CONSTANTS
  Threads = {th1, th2}
  TABLE_SIZE = 2
  Buf = 1
INVARIANTS TypeOK EntriesBacked 
 
CHECK_DEADLOCK FALSE
