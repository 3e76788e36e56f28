CONSTANTS
  n1 = n1  n2 = n2  n3 = n3  k1 = k1  r1 = r1  r2 = r2  r3 = r3  LWW = LWW
  Unknown = Unknown  NoType = NoType
  Node = {n1, n3}  Tid <- TwoTids  Tier <- MCTier  MemTier = 0  TierOf <- MCTierOf
  Key = {k1}  DataRank <- MCDataRank  MetaRank <- MCMetaRank
  DataTidRank <- MCTidRank  MetaTidRank <- MCTidRank
  MetaLocalRep = 2  MaxVersion = 2  RepOf <- GrowShrink
  Request = {r1}  Op <- MCOp  KeyOf <- MCKeyOf  TypeOf <- MCTypeOf
  HasAddr <- MCHasAddr  InitNodes = {n1, n3}  MaxSends <- SendOnce
SPECIFICATION Spec
INVARIANTS StoredHasReplication NoUpdateLost NothingStranded
CHECK_DEADLOCK FALSE
