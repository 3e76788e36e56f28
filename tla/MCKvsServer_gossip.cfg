CONSTANTS
  n1 = n1  n2 = n2  n3 = n3  k1 = k1  r1 = r1  r2 = r2  r3 = r3  LWW = LWW
  Unknown = Unknown  NoType = NoType
  Node = {n1, n2, n3}  Tid <- MCTid  Tier <- MCTier  MemTier = 0  TierOf <- MCTierOf
  Key = {k1}  DataRank <- MCDataRank  MetaRank <- MCMetaRank
  DataTidRank <- MCTidRank  MetaTidRank <- MCTidRank
  MetaLocalRep = 1  MaxVersion = 0  RepOf <- FixedRep
  Request = {r1, r2, r3}  Op <- MCOp  KeyOf <- MCKeyOf  TypeOf <- MCTypeOf
  HasAddr <- MCHasAddr  InitNodes = {n1, n2, n3}  MaxSends <- SendOnce
SPECIFICATION FairSpec
INVARIANTS TypeOK GossipCovers
PROPERTIES RequestsAnswered EventuallyReplicated
CHECK_DEADLOCK FALSE
