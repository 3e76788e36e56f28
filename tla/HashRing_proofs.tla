--------------------------- MODULE HashRing_proofs ---------------------------
(***************************************************************************)
(* The walk along the ring follows the rank of the servers, for any number *)
(* of servers, virtual nodes and hash values, whatever joins and           *)
(* departures made the ring.  Module Placement rests on this.              *)
(***************************************************************************)
EXTENDS HashRing, WellFoundedInduction, TLAPS

(* The provers tried on a leaf that names none, with the seconds they get. *)
USE ZenonT(60), SMTT(60)

------------------------------------------------------------------------------
(* A set of natural numbers has a least one, so that RankOf has a meaning. *)
LEMMA LeastNatural ==
  ASSUME NEW T \in SUBSET Nat, T # {}
  PROVE  \E x \in T : \A y \in T : x <= y
<1> DEFINE R == {ss \in Nat \X Nat : ss[1] < ss[2]}
<1>1. IsWellFoundedOn(R, Nat)
  BY NatLessThanWellFounded DEF OpToRel
<1>2. \A x, y \in Nat : <<y, x>> \notin R => x <= y
  BY SMTT(60)
<1> HIDE DEF R
<1>3. PICK x \in T : \A y \in T : ~ (<<y, x>> \in R)
  BY <1>1, WFMin
<1>4. ASSUME NEW y \in T PROVE x <= y
  BY <1>2, <1>3
<1> QED
  BY <1>4

LEMMA MinIsLeast ==
  ASSUME NEW T \in SUBSET Nat, T # {}
  PROVE  Min(T) \in T /\ \A y \in T : Min(T) <= y
<1> DEFINE Least(x) == x \in T /\ \A y \in T : x <= y
<1>1. \E x : Least(x)
  BY LeastNatural
<1>2. Min(T) = CHOOSE x : Least(x)
  BY DEF Min
<1> QED
  BY <1>1, <1>2

(* The distance from h to x along the ring.                                *)
Distance(h, x) == (x - h) % Space

LEMMA DistanceIs ==
  ASSUME NEW h \in Hash, NEW x \in Hash
  PROVE  /\ Distance(h, x) = IF x >= h THEN x - h ELSE x - h + Space
         /\ Distance(h, x) \in Nat
  BY HashAssumption, SMTT(60) DEF Hash, Distance

LEMMA BeforeIsNearer ==
  ASSUME NEW h \in Hash, NEW x \in Hash, NEW y \in Hash
  PROVE  Before(h, x, y) <=> Distance(h, x) < Distance(h, y)
<1> Space \in Nat /\ h \in 0 .. Space - 1 /\ x \in 0 .. Space - 1 /\ y \in 0 .. Space - 1
  BY HashAssumption DEF Hash
<1> QED
  BY DistanceIs, SMTT(60) DEF Before

------------------------------------------------------------------------------
(* No two servers have a virtual node at the same hash value: insert does  *)
(* not replace a node that is there already.                               *)
NoCollision ==
  \A s, t \in Server : s # t => VirtualHashes(s) \cap VirtualHashes(t) = {}

LEMMA VirtualNodes ==
  ASSUME NEW s \in Server
  PROVE  VirtualHashes(s) \subseteq Hash /\ VirtualHashes(s) # {}
<1>1. 0 \in 0 .. VirtualNum - 1
  BY HashAssumption, SMTT(60)
<1>2. \A i \in 0 .. VirtualNum - 1 : VHash[s][i] \in Hash
  BY HashAssumption
<1> QED
  BY <1>1, <1>2 DEF VirtualHashes

(* The map holds the virtual nodes of the servers in the ring, and nothing *)
(* else.                                                                   *)
RingInv ==
  /\ unique_servers \subseteq Server
  /\ nodes_ = [x \in DOMAIN nodes_ |-> nodes_[x]]
  /\ \A x : x \in DOMAIN nodes_ <=> \E s \in unique_servers : x \in VirtualHashes(s)
  /\ \A x \in DOMAIN nodes_ : x \in VirtualHashes(nodes_[x]) /\ nodes_[x] \in unique_servers

LEMMA InsertKeeps ==
  ASSUME NoCollision, RingInv, NEW s \in Server, NEW c, InsertServer(s, c)
  PROVE  RingInv'
<1>1. CASE s \in unique_servers /\ UNCHANGED <<nodes_, unique_servers>>
  BY <1>1 DEF RingInv
<1>2. CASE /\ s \notin unique_servers
           /\ unique_servers' = unique_servers \cup {s}
           /\ nodes_' = [x \in DOMAIN nodes_ \cup VirtualHashes(s) |->
                           IF x \in DOMAIN nodes_ THEN nodes_[x] ELSE s]
  <2>1. DOMAIN nodes_' = DOMAIN nodes_ \cup VirtualHashes(s)
    BY <1>2
  <2>2. \A x \in DOMAIN nodes_' : nodes_'[x] = IF x \in DOMAIN nodes_ THEN nodes_[x] ELSE s
    BY <1>2
  <2>3. nodes_' = [x \in DOMAIN nodes_' |-> nodes_'[x]]
    BY <1>2
  <2>4. \A x : x \in DOMAIN nodes_' <=> \E t \in unique_servers' : x \in VirtualHashes(t)
    BY <1>2, <2>1 DEF RingInv
  <2>5. \A x \in DOMAIN nodes_' :
          x \in VirtualHashes(nodes_'[x]) /\ nodes_'[x] \in unique_servers'
    BY <1>2, <2>1, <2>2 DEF RingInv
  <2> QED
    BY <1>2, <2>3, <2>4, <2>5 DEF RingInv
<1> QED
  BY <1>1, <1>2 DEF InsertServer

LEMMA RemoveKeeps ==
  ASSUME NoCollision, RingInv, NEW s \in Server, RemoveServer(s)
  PROVE  RingInv'
<1>1. /\ nodes_' = [x \in DOMAIN nodes_ \ VirtualHashes(s) |-> nodes_[x]]
      /\ unique_servers' = unique_servers \ {s}
  BY DEF RemoveServer
<1>2. DOMAIN nodes_' = DOMAIN nodes_ \ VirtualHashes(s)
  BY <1>1
<1>3. \A x \in DOMAIN nodes_' : nodes_'[x] = nodes_[x]
  BY <1>1
<1>4. nodes_' = [x \in DOMAIN nodes_' |-> nodes_'[x]]
  BY <1>1
<1>5. \A x : x \in DOMAIN nodes_' <=> \E t \in unique_servers' : x \in VirtualHashes(t)
  BY <1>1, <1>2 DEF RingInv, NoCollision
<1>6. \A x \in DOMAIN nodes_' :
        x \in VirtualHashes(nodes_'[x]) /\ nodes_'[x] \in unique_servers'
  BY <1>1, <1>2, <1>3 DEF RingInv
<1> QED
  BY <1>1, <1>4, <1>5, <1>6 DEF RingInv

LEMMA RingStep ==
  ASSUME NoCollision, RingInv, [Next]_vars
  PROVE  RingInv'
<1>1. CASE UNCHANGED vars
  BY <1>1 DEF vars, RingInv
<1>2. CASE Next
  BY <1>2, InsertKeeps, RemoveKeeps DEF Next
<1> QED
  BY <1>1, <1>2

------------------------------------------------------------------------------
LEMMA RankIsLeast ==
  ASSUME NEW h \in Hash, NEW s \in Server
  PROVE  /\ RankOf(h, s) \in Nat
         /\ \E x \in VirtualHashes(s) : RankOf(h, s) = Distance(h, x)
         /\ \A x \in VirtualHashes(s) : RankOf(h, s) <= Distance(h, x)
<1> DEFINE T == {Distance(h, x) : x \in VirtualHashes(s)}
<1>1. T \in SUBSET Nat /\ T # {}
  BY VirtualNodes, DistanceIs
<1>2. RankOf(h, s) = Min(T)
  BY DEF RankOf, Distance
<1>3. RankOf(h, s) \in T /\ \A d \in T : RankOf(h, s) <= d
  BY <1>1, <1>2, MinIsLeast
<1> QED
  BY <1>1, <1>3

(* Of two servers in the ring the walk meets the one of lower rank first.  *)
LEMMA MeetsByRank ==
  ASSUME NoCollision, RingInv, NEW h \in Hash,
         NEW s \in unique_servers, NEW t \in unique_servers
  PROVE  Meets(h, s, t) <=> RankOf(h, s) < RankOf(h, t)
<1>0. s \in Server /\ t \in Server
  BY DEF RingInv
<1>1. ASSUME NEW r \in unique_servers
      PROVE  \A x : x \in DOMAIN nodes_ /\ nodes_[x] = r <=> x \in VirtualHashes(r)
  BY DEF RingInv, NoCollision
<1>2. Meets(h, s, t) <=>
        \E x \in VirtualHashes(s) : \A y \in VirtualHashes(t) : Before(h, x, y)
  BY <1>1 DEF Meets
<1>3. VirtualHashes(s) \subseteq Hash /\ VirtualHashes(t) \subseteq Hash
  BY <1>0, VirtualNodes
<1>4. Meets(h, s, t) <=> \E x \in VirtualHashes(s) : \A y \in VirtualHashes(t) :
                           Distance(h, x) < Distance(h, y)
  BY <1>2, <1>3, BeforeIsNearer
<1>5. PICK x \in VirtualHashes(s) : RankOf(h, s) = Distance(h, x)
  BY <1>0, RankIsLeast
<1>6. PICK y \in VirtualHashes(t) : RankOf(h, t) = Distance(h, y)
  BY <1>0, RankIsLeast
<1>7. \A z \in Hash : Distance(h, z) \in Nat
  BY DistanceIs
<1>8. /\ \A z \in VirtualHashes(s) : RankOf(h, s) <= Distance(h, z)
      /\ \A z \in VirtualHashes(t) : RankOf(h, t) <= Distance(h, z)
  BY <1>0, RankIsLeast
<1>9. ASSUME Meets(h, s, t) PROVE RankOf(h, s) < RankOf(h, t)
  BY <1>3, <1>4, <1>5, <1>6, <1>7, <1>8, <1>9, SMTT(60)
<1>10. ASSUME RankOf(h, s) < RankOf(h, t) PROVE Meets(h, s, t)
  BY <1>3, <1>4, <1>5, <1>6, <1>7, <1>8, <1>10, SMTT(60)
<1> QED
  BY <1>9, <1>10

(* Whatever joins and departures made the ring what it is, the walk finds  *)
(* the rep nearest servers (responsible_global and responsible_local), so  *)
(* responsibility depends on the set of servers and their ranks alone, if  *)
(* no two servers have a virtual node with the same hash.                  *)
THEOREM WalkIsRank ==
  ASSUME NoCollision
  PROVE  Spec => []WalkFollowsRank
<1>1. Init => RingInv
  BY DEF Init, RingInv
<1>2. RingInv => WalkFollowsRank
  <2> SUFFICES ASSUME RingInv, NEW h \in Hash, NEW rep \in 1 .. Cardinality(Server)
               PROVE  responsible(h, rep) =
                        {s \in unique_servers : Cardinality({t \in unique_servers :
                           RankOf(h, t) < RankOf(h, s)}) < rep}
    BY DEF WalkFollowsRank
  <2>1. OnRing = unique_servers
    BY VirtualNodes, SMTT(60) DEF OnRing, RingInv, NoCollision
  <2>2. ASSUME NEW s \in unique_servers
        PROVE  {t \in OnRing : Meets(h, t, s)} =
                 {t \in unique_servers : RankOf(h, t) < RankOf(h, s)}
    BY <2>1, MeetsByRank
  <2> QED
    BY <2>1, <2>2 DEF responsible
<1> QED
  BY <1>1, <1>2, RingStep, PTL DEF Spec
=============================================================================
