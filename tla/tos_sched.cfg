\* A ring of three slots, two tasks, and handlers that interrupt each other.
SPECIFICATION FairSpec
CONSTANTS
  MAX_THREADS = 3
  Tasks = {t1, t2}
  NoTask = NoTask
  MaxNest = 2
INVARIANTS
  TypeOK
  RefusedOnlyWhenFull
  QuietNotInterrupted
PROPERTIES
  Implements
  WaitingRuns
