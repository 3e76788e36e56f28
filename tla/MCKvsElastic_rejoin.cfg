CONSTANTS
  n1 = n1  n2 = n2  n3 = n3  k1 = k1  k2 = k2  r1 = r1  r2 = r2  r3 = r3
  LWW = LWW  SET = SET  Unknown = Unknown  NoType = NoType
  Node = {n1, n2}  Tid <- MCTid  Tier <- MCTier  MemTier = 0  TierOf <- MCTierOf
  Key = {k1}  DataRank <- MCDataRank  MetaRank <- MCMetaRank
  DataTidRank <- MCTidRank  MetaTidRank <- MCTidRank
  MetaLocalRep = 1  MaxVersion = 0  RepOf <- One
  Request = {r1, r2}  Op <- MCOp  KeyOf <- MCKeyOf  TypeOf <- MixedTypes
  HasAddr <- MCHasAddr  InitNodes = {n1, n2}  MaxSends <- SendOnce
  Threshold = 1  MayStart = {}  MayLeave = {n2}  MaxRestarts <- RestartBoth
SPECIFICATION ElasticSpec
INVARIANTS StoredHasReplication JoinCountsAgree OneTypePerKey
CHECK_DEADLOCK FALSE
