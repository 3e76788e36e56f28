CONSTANTS
  n1 = n1  n2 = n2  n3 = n3  k1 = k1  k2 = k2  r1 = r1  r2 = r2  r3 = r3
  LWW = LWW  SET = SET  Unknown = Unknown  NoType = NoType
  Node = {n1, n2}  Tid <- MCTid  Tier <- MCTier  MemTier = 0  TierOf <- MCTierOf
  Key = {k1}  DataRank <- MCDataRank  MetaRank <- MCMetaRank
  DataTidRank <- MCTidRank  MetaTidRank <- MCTidRank
  MetaLocalRep = 1  MaxVersion = 1  RepOf <- Grown
  Request = {r1}  Op <- MCOp  KeyOf <- MCKeyOf  TypeOf <- MCTypeOf
  HasAddr <- MCHasAddr  InitNodes = {n1, n2}  MaxSends <- SendOnce
  Threshold = 1  MayStart = {}  MayLeave = {n2}  MaxRestarts <- NoRestart
SPECIFICATION ElasticSpec
INVARIANT RepFitsRing
CHECK_DEADLOCK FALSE
