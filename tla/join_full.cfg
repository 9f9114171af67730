\* As many hosts as server_list has rows (four in server.h).
SPECIFICATION Spec
CONSTANTS
  h1 = h1
  h2 = h2
  h3 = h3
  f1 = f1
  f2 = f2
  Hosts = {h1, h2, h3}
  Files = {f1, f2}
  Disk <- TwoShareOne
  MAX_SERVERS = 3
  MAX_STARTS = 3
INVARIANTS
  TablesTrue
CHECK_DEADLOCK FALSE
