CONSTANTS
  m1 = m1  m2 = m2  e1 = e1  a = a  p1 = p1  pa = pa  g1 = g1  ga = ga
  Node = {m1, m2}
  Tid = {0}
  Tier = {1, 2}
  MemTier = 1
  TierOf <- MCTierOf
  Key = {a}
  DataRank <- MCDataRank
  MetaRank <- MCMetaRank
  DataTidRank <- MCTidRank
  MetaTidRank <- MCTidRank
  MetaLocalRep = 1
  MaxVersion = 1
  RepOf <- MCRepOf
  Call = {pa, g1}
  KeyOf <- MCKeyOf
  Type <- MCType
  Many <- MCMany
  LatticeOf <- MCLatticeOf
  Sorted <- MCSorted
  trial_limit = 2
  RidWrap = 4
  InitNodes = {m1}
  Joining = {m2}
  Leaving = {m1}
  Rescaled = {a}
  MaxFaults = 1
SPECIFICATION FairSpec
INVARIANTS  PendingLookedUp
PROPERTIES NoStragglers AllAnswer CallsReturn
CHECK_DEADLOCK FALSE
