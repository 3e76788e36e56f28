------------------------------ MODULE Placement ------------------------------
(***************************************************************************)
(* Which server threads are responsible for a key (kvs/src/hash_ring).     *)
(*                                                                         *)
(* A walk along the consistent hash ring that starts at a key meets the    *)
(* nodes in an order that depends only on the key: leaving a node out of   *)
(* the ring leaves the order of the others unchanged (module HashRing      *)
(* checks this of the walk itself).  So a ring is represented by the set   *)
(* of its nodes, and the walk by a rank: DataRank[k][n] is the place of    *)
(* node n on the walk that starts at key k, MetaRank[k][n] its place on    *)
(* the walk that starts at the metadata key of k, and DataTidRank and      *)
(* MetaTidRank are the same for the ring of the threads of a node, which   *)
(* hashes thread numbers only and so is the same on every node.            *)
(***************************************************************************)
EXTENDS Integers, FiniteSets

CONSTANTS
  Node,          \* every storage node that may ever run
  Tid,           \* thread numbers of a node; 0 is the main thread
  Tier,          \* storage tiers
  MemTier,       \* the memory tier, which holds all metadata (kMemoryTierId)
  TierOf,        \* the tier of each node
  Key,           \* data keys; each also has one replication metadata key
  DataRank, MetaRank, DataTidRank, MetaTidRank,
  MetaLocalRep,  \* kDefaultLocalReplication
  MaxVersion,    \* how many times the replication factor of a key is written
  RepOf          \* RepOf[v]: the v-th replication factor; RepOf[0] the default

Version == 0 .. MaxVersion
Thread == Node \X Tid
MainThread(n) == <<n, 0>>
NodeOf(p) == p[1]
SelfTier(p) == TierOf[NodeOf(p)]

(* KeyReplication: a global and a local replication factor for each tier.  *)
KeyReplication == [global : [Tier -> Nat], local : [Tier -> Nat]]

ASSUME NodeAssumption ==
  /\ IsFiniteSet(Node)
  /\ IsFiniteSet(Tid)
  /\ Tid \subseteq Nat
  /\ 0 \in Tid
  /\ MemTier \in Tier
  /\ TierOf \in [Node -> Tier]

ASSUME RankAssumption ==
  /\ DataRank \in [Key -> [Node -> Nat]]
  /\ MetaRank \in [Key -> [Node -> Nat]]
  /\ DataTidRank \in [Key -> [Tid -> Nat]]
  /\ MetaTidRank \in [Key -> [Tid -> Nat]]
  /\ \A k \in Key : \A m, n \in Node :
        /\ DataRank[k][m] = DataRank[k][n] => m = n
        /\ MetaRank[k][m] = MetaRank[k][n] => m = n
  /\ \A k \in Key : \A s, t \in Tid :
        /\ DataTidRank[k][s] = DataTidRank[k][t] => s = t
        /\ MetaTidRank[k][s] = MetaTidRank[k][t] => s = t

ASSUME ReplicationAssumption ==
  /\ MetaLocalRep \in Nat \ {0}
  /\ MaxVersion \in Nat
  /\ RepOf \in [Version -> KeyReplication]

------------------------------------------------------------------------------
(* The first n members of S on the walk with the given ranks.  When S has  *)
(* fewer members than n the code's loop does not end (responsible_global   *)
(* assumes that this does not happen); the operator then gives all of S    *)
(* and Fits, below, says when the two agree.                               *)
FirstOnWalk(S, rank, n) ==
  {x \in S : Cardinality({y \in S : rank[y] < rank[x]}) < n}

Fits(S, n) == S = {} \/ n <= Cardinality(S)

(* The nodes of a ring that are in a tier.                                 *)
InTier(nodes, tier) == {n \in nodes : TierOf[n] = tier}

responsible_global(nodes, k, tier, r) ==
  FirstOnWalk(InTier(nodes, tier), DataRank[k], r.global[tier])

responsible_local(k, tier, r) ==
  FirstOnWalk(Tid, DataTidRank[k], r.local[tier])

(* get_responsible_threads for a data key whose replication factor is the  *)
(* v-th one, over a set of tiers.                                          *)
get_responsible_threads(nodes, k, v, tiers) ==
  UNION {responsible_global(nodes, k, t, RepOf[v]) \X
           responsible_local(k, t, RepOf[v]) : t \in tiers}

(* ... and for its metadata key: one memory node (the metadata replication *)
(* factor is 1) and the default number of its threads.                     *)
get_responsible_threads_metadata(nodes, k) ==
  FirstOnWalk(InTier(nodes, MemTier), MetaRank[k], 1) \X
    FirstOnWalk(Tid, MetaTidRank[k], MetaLocalRep)

(* The thread a list of responsible threads starts with: the list goes     *)
(* through the memory tier first, through the nodes of a tier in the order *)
(* of the walk, and through the threads of a node in the order of an       *)
(* unordered set, which is the same for equal sets.                        *)
FirstThread(k, threads) ==
  LET mem    == {p \in threads : SelfTier(p) = MemTier}
      tier   == IF mem # {} THEN mem ELSE threads
      nearest == {p \in tier :
                    \A q \in tier : DataRank[k][NodeOf(p)] <= DataRank[k][NodeOf(q)]}
  IN  CHOOSE p \in nearest : TRUE
==============================================================================
