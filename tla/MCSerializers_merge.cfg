CONSTANTS
  m1 = m1  d1 = d1  k2 = k2
  Replica = {m1, d1}  Disk <- MCDisk  Client = {1, 3}  Types = {"LWW", "SET", "CAUSAL"}  DepKey = k2
  MaxPuts = 3  MaxTime = 2  ReadsOwnPut = TRUE
SPECIFICATION Spec
INVARIANTS LatestKept ConcurrentKept DependenciesCovered
CHECK_DEADLOCK FALSE
