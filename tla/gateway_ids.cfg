SPECIFICATION Spec
CONSTANTS
  Threads = {th1, th2}
  TABLE_SIZE = 2
  Buf = 1
INVARIANT IdsUnique
CHECK_DEADLOCK FALSE
