CONSTANTS
  t1 = t1  t2 = t2  a = a  b = b  kc = kc  meta = meta  w1 = w1  w2 = w2
  g1 = g1  g2 = g2  g3 = g3  p1 = p1  p2 = p2  p3 = p3  p4 = p4  f1 = f1  f3 = f3
  Idle = Idle  NoPut = NoPut
  Key = {a, meta}  CacheKey = meta  Worker = {w1, w2}  NodeOfW <- MCNodeOfW
  RidWrap = 4  Thread = {t1, t2}  Op = {g1, p1, p2}  Foreign = {f1}
  OpThread <- MCOpThread  OpKind <- MCOpKind  OpKeys <- MCOpKeys  OpType <- MCOpType
  InitKvs = {}  Replicas <- OneReplica  MaxKeys = 1000  EvictCount = 10
  Redirects <- OtherOrNone  FaultCost <- MCFaultCost  MaxFaults = 2
SPECIFICATION FairSpec
INVARIANT OwnWritesKept
PROPERTIES ImplementsAccess CallsReturn
CHECK_DEADLOCK FALSE
