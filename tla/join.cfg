\* Three hosts, or two of which one starts again; MAX_SERVERS as in server.h.
SPECIFICATION FairSpec
CONSTANTS
  h1 = h1
  h2 = h2
  h3 = h3
  f1 = f1
  f2 = f2
  Hosts = {h1, h2, h3}
  Files = {f1, f2}
  Disk <- TwoShareOne
  MAX_SERVERS = 4
  MAX_STARTS = 3
INVARIANTS
  TypeOK
  NamedOncePerStart
  TablesTrue
  CarefulJoinsGoWell
PROPERTIES
  JoinEnds
CHECK_DEADLOCK FALSE
