CONSTANTS
  n1 = n1  n2 = n2  ka = ka  kb = kb  kc = kc
  a1 = a1  b1 = b1  b2 = b2  c1 = c1  x1 = x1
  s1 = s1  s2 = s2  r1 = r1  r2 = r2  i = i  j = j  d1 = d1  d2 = d2
  Node = {n1, n2}
  Key = {ka, kb, kc}
  Write = {a1, b1, b2, c1, x1}
  KeyOf <- MCKeyOf
  Clock <- MCClock
  Dep <- MCDep
  Stored = {a1, b1, b2, c1}
  Put = {x1}
  PutAt <- MCPutAt
  Read = {r1, r2, s1}
  Dag <- MCDag
  At <- MCAt
  Id <- MCId
  Kind <- MCKind
  Keys <- MCKeys
  Future <- MCFuture
  After <- MCAfter
SPECIFICATION FairSpec
INVARIANTS CutClosed NoFault ChainsComplete DagReadsCausal
PROPERTY ReadsAnswered
