\* Three connections of three motes, two rows: rows and descriptors are reused,
\* and the table may be full.
SPECIFICATION FairSpec
CONSTANTS
  Conns = {a, b, c}
  MAX_CONN = 2
  MAX_CONNECTS = 3
INVARIANTS
  TypeOK
  RowsPaired
  WatchesAll
PROPERTIES
  ClosedForACause
  
CHECK_DEADLOCK FALSE
