------------------------------ MODULE HashRing ------------------------------
(***************************************************************************)
(* The consistent hash ring itself (kvs/include/hash_ring.hpp,             *)
(* consistent_hash_map.hpp) and the walk along it.  Module Placement keeps *)
(* of a ring only its servers and their order on the walk from a key; the  *)
(* invariant WalkFollowsRank says that this is all a ring is.              *)
(***************************************************************************)
EXTENDS Integers, FiniteSets, FiniteSetsExt

CONSTANTS
  Server,      \* the servers that may be in the ring
  Space,       \* hash values are 0 .. Space - 1 (uint32_t in the code)
  VirtualNum,  \* kVirtualThreadNum, virtual nodes per server
  VHash,       \* VHash[s][i]: the hash of the i-th virtual node of s
  MaxCount     \* bound on join counts

Hash == 0 .. Space - 1

ASSUME HashAssumption ==
  /\ Space \in Nat \ {0}
  /\ VirtualNum \in Nat \ {0}
  /\ VHash \in [Server -> [0 .. VirtualNum - 1 -> Hash]]
  /\ MaxCount \in Nat

VARIABLES
  nodes_,             \* the sorted map: from some hash values to servers
  unique_servers,
  server_join_count

vars == <<nodes_, unique_servers, server_join_count>>

VirtualHashes(s) == {VHash[s][i] : i \in 0 .. VirtualNum - 1}

------------------------------------------------------------------------------
(* Mutant of Before: the walk always starts at the first node.             *)
BeforeNoWrap(h, x, y) == x < y

(* find(h) is the lower bound of h or else the first node, and the walk    *)
(* goes on from the last node to the first: x comes before y.              *)
Before(h, x, y) ==
  \/ x >= h /\ y < h
  \/ (x >= h <=> y >= h) /\ x < y

(* The servers on the ring, and whether the walk from h meets s before t.  *)
OnRing == {nodes_[x] : x \in DOMAIN nodes_}
Meets(h, s, t) ==
  \E x \in DOMAIN nodes_ :
    /\ nodes_[x] = s
    /\ \A y \in DOMAIN nodes_ : nodes_[y] = t => Before(h, x, y)

(* responsible_global (responsible_local is the same loop over thread      *)
(* numbers): servers are taken as the walk meets them, until there are rep *)
(* different ones.  When the ring has fewer the code walks on for ever,    *)
(* and this gives all of them.                                             *)
responsible(h, rep) ==
  {s \in OnRing : Cardinality({t \in OnRing : Meets(h, t, s)}) < rep}

------------------------------------------------------------------------------
(* HashRing::insert.  std::map::insert does not replace a node that has    *)
(* the same hash.                                                          *)
InsertServer(s, c) ==
  \/ /\ s \in unique_servers
     /\ server_join_count' = [server_join_count EXCEPT
                                ![s] = IF @ < c THEN c ELSE @]
     /\ UNCHANGED <<nodes_, unique_servers>>
  \/ /\ s \notin unique_servers
     /\ unique_servers' = unique_servers \cup {s}
     /\ server_join_count' = [server_join_count EXCEPT ![s] = c]
     /\ nodes_' = [x \in DOMAIN nodes_ \cup VirtualHashes(s) |->
                     IF x \in DOMAIN nodes_ THEN nodes_[x] ELSE s]

(* HashRing::remove, also for a server that is not in the ring.            *)
RemoveServer(s) ==
  /\ nodes_' = [x \in DOMAIN nodes_ \ VirtualHashes(s) |-> nodes_[x]]
  /\ unique_servers' = unique_servers \ {s}
  /\ server_join_count' = [server_join_count EXCEPT ![s] = 0]

Init ==
  /\ nodes_ = [x \in {} |-> 0]
  /\ unique_servers = {}
  /\ server_join_count = [s \in Server |-> 0]

Next == \E s \in Server : RemoveServer(s) \/ \E c \in 0 .. MaxCount : InsertServer(s, c)

Spec == Init /\ [][Next]_vars

------------------------------------------------------------------------------
(* The map is from hash values to servers.                                 *)
TypeOK ==
  /\ DOMAIN nodes_ \subseteq Hash
  /\ \A x \in DOMAIN nodes_ : nodes_[x] \in Server
  /\ unique_servers \subseteq Server
  /\ server_join_count \in [Server -> 0 .. MaxCount]

(* How far the walk from h goes before it meets server s.                  *)
RankOf(h, s) == Min({(x - h) % Space : x \in VirtualHashes(s)})

(* The walk finds the rep nearest servers, whatever joins and departures   *)
(* made the ring what it is: responsibility for a key is a matter of the   *)
(* set of servers and of a rank that depends on the key and the server     *)
(* alone, which is how Placement!FirstOnWalk defines it.                   *)
WalkFollowsRank ==
  \A h \in Hash : \A rep \in 1 .. Cardinality(Server) :
    responsible(h, rep) =
      {s \in unique_servers :
         Cardinality({t \in unique_servers : RankOf(h, t) < RankOf(h, s)}) < rep}
=============================================================================
