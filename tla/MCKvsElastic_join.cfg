CONSTANTS
  n1 = n1  n2 = n2  n3 = n3  k1 = k1  k2 = k2  r1 = r1  r2 = r2  r3 = r3
  LWW = LWW  SET = SET  Unknown = Unknown  NoType = NoType
  Node = {n1, n2, n3}  Tid <- MCTid  Tier <- MCTier  MemTier = 0  TierOf <- MCTierOf
  Key = {k1}  DataRank <- MCDataRank  MetaRank <- MetaMoves
  DataTidRank <- MCTidRank  MetaTidRank <- MCTidRank
  MetaLocalRep = 1  MaxVersion = 0  RepOf <- Two
  Request = {r1}  Op <- MCOp  KeyOf <- MCKeyOf  TypeOf <- MCTypeOf
  HasAddr <- MCHasAddr  InitNodes = {n1, n3}  MaxSends <- SendTwice
  Threshold = 1  MayStart = {n2}  MayLeave = {}  MaxRestarts <- NoRestart
SPECIFICATION ElasticSpec
INVARIANTS NoUpdateLost RingsConsistent NothingStranded
PROPERTY DropsOnlyForeign
CHECK_DEADLOCK FALSE
