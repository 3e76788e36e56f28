CONSTANTS
  a = a  b = b  c = c  d = d
  Server = {a, b, c, d}  Space = 12  VirtualNum = 2  VHash <- MCVHash  MaxCount = 2
SPECIFICATION Spec
INVARIANT WalkFollowsRank
