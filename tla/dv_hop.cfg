SPECIFICATION FairSpec
CONSTANTS
  n1 = n1
  n2 = n2
  n3 = n3
  n4 = n4
  Nodes = {n1, n2, n3, n4}
  Links <- Ring
  Dist <- RingHops
  Landmarks = {n1}
  Appointed = {n3}
  NUM_LANDMARKS_TO_USE = 2
  Preempts = FALSE
INVARIANTS TypeOK HopsSound  PathsSimple
PROPERTIES NeverWorse Converges
