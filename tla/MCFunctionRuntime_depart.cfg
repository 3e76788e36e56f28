CONSTANTS
  s1 = s1  s2 = s2  e1 = e1  e2 = e2  e3 = e3
  ff = ff  fg = fg  fh = fh  join = join  pair = pair  sink = sink  c1 = c1  c2 = c2  c3 = c3  c4 = c4
  x1 = x1  x2 = x2  x3 = x3  x4 = x4
  Sched = {s1, s2}
  Exec = {e1, e2, e3}
  IpOf <- MCIpOf
  Func = {ff, fg, fh}
  DagName = {join, pair, sink}
  Functions <- MCFunctions
  Connections <- MCConnections
  Call = {c1, c2, c3, c4}
  CalledDag <- MCCalledDag
  Single = {x1, x2, x3, x4}
  Scenario <- MCDepart
  NoDag = NoDag
  Unknown = Unknown
SPECIFICATION Spec
PROPERTIES DepartReported
CHECK_DEADLOCK FALSE
