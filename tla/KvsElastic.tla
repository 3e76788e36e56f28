----------------------------- MODULE KvsElastic -----------------------------
(***************************************************************************)
(* The storage servers of KvsServer together with the membership protocol: *)
(* nodes start, join, redistribute keys, leave on request, crash and come  *)
(* back.  The seed is the main thread of the routing node, which answers   *)
(* starting servers with its ring and passes joins on.                     *)
(***************************************************************************)
EXTENDS KvsServer

CONSTANTS
  Threshold,    \* DATA_REDISTRIBUTE_THRESHOLD: keys sent to a thread per round
  MayStart,     \* nodes that may be added
  MayLeave,     \* nodes that the monitoring node may remove
  MaxRestarts   \* how often each node may crash and be restarted

ASSUME ElasticAssumption ==
  /\ Threshold \in Nat \ {0}
  /\ MayStart \subseteq Node
  /\ MayLeave \subseteq Node
  /\ MaxRestarts \in [Node -> Nat]

VARIABLES
  join_gossip_map,   \* at each thread: pairs of a thread and an item to send
  join_remove_set,   \* at each thread: items to remove after the sending
  seed_ring,         \* the ring of the routing node
  self_join_count,   \* the restart count the management node gives a node
  removing           \* nodes that have been told to leave

elasticVars == <<join_gossip_map, join_remove_set, seed_ring, self_join_count,
                 removing>>
allVars == <<vars, elasticVars>>
storeVars == <<key_replication_map, dataVars, pendVars>>

(* Messages.                                                               *)
Join(n, c, p) == [type |-> "join", node |-> n, count |-> c, dst |-> p]
Depart(n, p) == [type |-> "depart", node |-> n, dst |-> p]
SelfDepart(p) == [type |-> "self_depart", dst |-> p]
SeedJoin(n, c) == [type |-> "seed_join", node |-> n, count |-> c]
SeedDepart(n) == [type |-> "seed_depart", node |-> n]

Workers(p) ==
  IF p = MainThread(NodeOf(p)) THEN {<<NodeOf(p), t>> : t \in Tid \ {0}} ELSE {}

(* Mutant of Inserts: a node that is not in the ring is not new.           *)
InsertsKnown(ring, n, c) == ring[n] # Absent /\ ring[n] < c

(* Mutant of Inserts: a restarted node is not new.                         *)
InsertsNew(ring, n, c) == ring[n] = Absent

(* HashRing::insert reports whether the node is new or has restarted since *)
(* it was inserted; a known node only has its join count raised.           *)
Inserts(ring, n, c) == ring[n] = Absent \/ ring[n] < c

Nodes(ring) == {n \in Node : ring[n] # Absent}

------------------------------------------------------------------------------
(* A server thread starts: it takes the nodes the seed knows, all with     *)
(* join count 0, adds itself with its own count, and its main thread tells *)
(* the others and the seed.                                                *)
Start(p) ==
  LET n    == NodeOf(p)
      c    == self_join_count[n]
      ring == [x \in Node |-> IF x = n THEN c
                              ELSE IF seed_ring[x] # Absent THEN 0 ELSE Absent]
  IN
  /\ status[p] = "off"
  /\ (n \in MayStart /\ c = 0) \/ c \in 1 .. MaxRestarts[n]
  /\ status' = [status EXCEPT ![p] = "up"]
  /\ global_hash_rings' = [global_hash_rings EXCEPT ![p] = ring]
  /\ msgs' = msgs \cup
       IF p # MainThread(n) THEN {}
       ELSE {Join(n, c, MainThread(x)) : x \in Nodes(ring) \ {n}} \cup {SeedJoin(n, c)}
  /\ UNCHANGED <<storeVars, clientVars, monitor, elasticVars>>

(* membership_handler of the routing node, join and depart.  Both arrive   *)
(* on one socket, so those of one node arrive in the order they were sent. *)
SeedJoined ==
  \E m \in msgs :
    /\ m.type = "seed_join"
    /\ LET n == m.node  new == Inserts(seed_ring, n, m.count) IN
       /\ seed_ring' = [seed_ring EXCEPT ![n] = IF new THEN m.count ELSE @]
       /\ Handle(m, IF new THEN {Join(n, m.count, MainThread(x)) :
                                   x \in Nodes(seed_ring) \ {n}} ELSE {})
    /\ UNCHANGED <<ringVars, storeVars, clientVars, monitor, join_gossip_map,
                   join_remove_set, self_join_count, removing>>

SeedDeparted ==
  \E m \in msgs :
    /\ m.type = "seed_depart"
    /\ \A x \in msgs : x.type = "seed_join" => x.node # m.node
    /\ seed_ring' = [seed_ring EXCEPT ![m.node] = Absent]
    /\ Handle(m, {})
    /\ UNCHANGED <<ringVars, storeVars, clientVars, monitor, join_gossip_map,
                   join_remove_set, self_join_count, removing>>

------------------------------------------------------------------------------
(* get_responsible_threads of an item in the thread's own tier, with a     *)
(* given set of nodes in the ring.                                         *)
ItemThreads(p, i, nodes) ==
  IF i.meta THEN get_responsible_threads_metadata(nodes, i.key)
  ELSE get_responsible_threads(nodes, i.key, key_replication_map[p][i.key],
                               {SelfTier(p)})

KnownItems(p) == {i \in StoredItems(p) : i.meta \/ Knows(p, i.key)}

(* Mutant of Lost: every item the new node is responsible for counts as    *)
(* lost.                                                                   *)
LostToJoined(p, items, n, nodes) ==
  {i \in items : \E q \in ItemThreads(p, i, nodes) : NodeOf(q) = n}

(* The items of a set that a thread is no longer responsible for when node *)
(* n is among the given nodes.                                             *)
Lost(p, items, n, nodes) == {i \in items : p \notin ItemThreads(p, i, nodes)}

(* node_join_handler.  The main thread of each node answers the new node   *)
(* with its own address, passes the news to the nodes it knows and to its  *)
(* workers.  A thread of the same tier then schedules the items it stores: *)
(* for a new node those it is no longer responsible for, which it will     *)
(* remove; for a node that has come back those that node is responsible    *)
(* for.                                                                    *)
NodeJoin(p) ==
  \E m \in Inbox(p, "join") :
    LET n     == m.node
        new   == Inserts(global_hash_rings[p], n, m.count)
        nodes == Ring(p) \cup {n}
        main  == p = MainThread(NodeOf(p))
        news  == IF main
                 THEN {Join(NodeOf(p), self_join_count[NodeOf(p)], MainThread(n))}
                        \cup {Join(n, m.count, MainThread(x)) :
                                x \in nodes \ {n, NodeOf(p)}}
                 ELSE {}
        items == IF TierOf[n] = SelfTier(p) THEN KnownItems(p) ELSE {}
        missing == IF TierOf[n] = SelfTier(p)
                   THEN {i.key : i \in StoredItems(p) \ KnownItems(p)} ELSE {}
        lost  == Lost(p, items, n, nodes)
        moves == IF m.count > 0
                 THEN {x \in Thread \X items :
                         NodeOf(x[1]) = n /\ x[1] \in ItemThreads(p, x[2], nodes)}
                 ELSE {x \in Thread \X lost : x[1] \in ItemThreads(p, x[2], nodes)}
    IN
    \/ /\ ~new
       /\ Handle(m, {})
       /\ UNCHANGED <<ringVars, storeVars, clientVars, monitor, elasticVars>>
    \/ /\ new
       /\ global_hash_rings' = [global_hash_rings EXCEPT ![p][n] = m.count]
       /\ \E ask \in AskIn(nodes, p, missing) :
            Handle(m, ask \cup news \cup {Join(n, m.count, w) : w \in Workers(p)})
       /\ join_gossip_map' = [join_gossip_map EXCEPT ![p] = @ \cup moves]
       /\ join_remove_set' = [join_remove_set EXCEPT
                                ![p] = IF m.count = 0 THEN @ \cup lost ELSE @]
       /\ UNCHANGED <<status, storeVars, clientVars, monitor, seed_ring,
                      self_join_count, removing>>

(* node_depart_handler.                                                    *)
NodeDepart(p) ==
  \E m \in Inbox(p, "depart") :
    /\ global_hash_rings' = [global_hash_rings EXCEPT ![p][m.node] = Absent]
    /\ Handle(m, {Depart(m.node, w) : w \in Workers(p)})
    /\ UNCHANGED <<status, storeVars, clientVars, monitor, elasticVars>>

(* The monitoring node tells a node to leave (remove_node).  It may have   *)
(* tried to lower replication factors that need all the nodes of the tier, *)
(* and has then waited for the answers; whether that succeeded it does not *)
(* ask.                                                                    *)
MonitorRemove(n) ==
  /\ n \in MayLeave \cap MonitorRing
  /\ removing = {}
  /\ InTier(MonitorRing \ {n}, TierOf[n]) # {}
  /\ \A k \in Key : monitor[k].waiting = 0
  /\ removing' = {n}
  /\ msgs' = msgs \cup {SelfDepart(MainThread(n))}
  /\ UNCHANGED <<ringVars, storeVars, clientVars, monitor, join_gossip_map,
                 join_remove_set, seed_ring, self_join_count>>

(* self_depart_handler, after which the thread ends.  The main thread      *)
(* tells the other nodes, the seed and its workers; every thread sends all *)
(* it stores to the threads responsible for it without this node.  The     *)
(* depart-done message of the last thread lets the monitoring node remove  *)
(* another node.                                                           *)
SelfDeparts(p) ==
  \E m \in Inbox(p, "self_depart") :
    LET n     == NodeOf(p)
        rest  == Ring(p) \ {n}
        to(i) == IF i.meta THEN get_responsible_threads_metadata(rest, i.key)
                 ELSE get_responsible_threads(rest, i.key,
                        key_replication_map[p][i.key], Tier)
        data  == UNION {UNION {SendItem(p, i, q) : q \in to(i)} : i \in KnownItems(p)}
        news  == IF p = MainThread(n)
                 THEN {Depart(n, MainThread(x)) : x \in rest}
                        \cup {SeedDepart(n)} \cup {SelfDepart(w) : w \in Workers(p)}
                 ELSE {}
    IN
    /\ \E ask \in AskIn(rest, p, {i.key : i \in StoredItems(p) \ KnownItems(p)}) :
         Handle(m, ask \cup news \cup data)
    /\ status' = [status EXCEPT ![p] = "left"]
    /\ global_hash_rings' = [global_hash_rings EXCEPT ![p][n] = Absent]
    /\ removing' = IF \A t \in Tid : <<n, t>> = p \/ status[<<n, t>>] = "left"
                   THEN removing \ {n} ELSE removing
    /\ UNCHANGED <<storeVars, clientVars, monitor, join_gossip_map,
                   join_remove_set, seed_ring, self_join_count>>

------------------------------------------------------------------------------
(* The process of node n dies: what its threads held is gone, and some of  *)
(* the messages to them.  It will start with a higher restart count.       *)
Dies(n, inFlight) ==
  LET Wiped(f, e) == [p \in Thread |-> IF NodeOf(p) = n THEN e ELSE f[p]] IN
  /\ status' = Wiped(status, "off")
  /\ key_replication_map' = Wiped(key_replication_map, [k \in Key |-> Unknown])
  /\ stored' = Wiped(stored, {})
  /\ metadata' = Wiped(metadata, [k \in Key |-> 0])
  /\ local_changeset' = Wiped(local_changeset, {})
  /\ pending_requests' = Wiped(pending_requests, {})
  /\ pending_gossip' = Wiped(pending_gossip, {})
  /\ join_gossip_map' = Wiped(join_gossip_map, {})
  /\ join_remove_set' = Wiped(join_remove_set, {})
  /\ self_join_count' = [self_join_count EXCEPT ![n] = @ + 1]
  /\ msgs' = inFlight
  /\ UNCHANGED <<global_hash_rings, clientVars, monitor, seed_ring, removing>>

ToNode(n) == {m \in msgs : "dst" \in DOMAIN m /\ NodeOf(m.dst) = n}

Crash(n) ==
  /\ status[MainThread(n)] = "up"
  /\ self_join_count[n] < MaxRestarts[n]
  /\ \E lost \in SUBSET ToNode(n) : Dies(n, msgs \ lost)

(* Mutant of Batch: the last item of a batch is not sent.                  *)
BatchOffByOne(S) ==
  IF Cardinality(S) < Threshold THEN S
  ELSE CHOOSE B \in SUBSET S : Cardinality(B) = Threshold - 1

(* The redistribution at the end of the event loop.  Each round sends up   *)
(* to Threshold items to each thread.  The items that were sent are erased *)
(* from a copy of the set (server.cpp:667), so a set with more items than  *)
(* that is never shortened, and every round sends the same ones.  When no  *)
(* thread is left to send to, the items of join_remove_set are removed;    *)
(* one that is not stored has no serializer, and the process dies.  The    *)
(* set itself is not emptied.                                              *)
Batch(S) ==
  IF Cardinality(S) <= Threshold THEN S
  ELSE CHOOSE B \in SUBSET S : Cardinality(B) = Threshold

Redistribute(p) ==
  LET due(q) == {i \in Item : <<q, i>> \in join_gossip_map[p]}
      left   == {x \in join_gossip_map[p] : Cardinality(due(x[1])) > Threshold}
      data   == UNION {UNION {SendItem(p, i, q) : i \in Batch(due(q))} : q \in Thread}
      gone   == IF left = {} THEN join_remove_set[p] ELSE {}
  IN
  /\ status[p] = "up"
  /\ join_gossip_map[p] # {}
  /\ \/ /\ gone \subseteq StoredItems(p)
        /\ msgs' = msgs \cup data
        /\ join_gossip_map' = [join_gossip_map EXCEPT ![p] = left]
        /\ stored' = [stored EXCEPT ![p] = {u \in @ : Data(KeyOf[u]) \notin gone}]
        /\ metadata' = [metadata EXCEPT ![p] =
                          [k \in Key |-> IF Meta(k) \in gone THEN 0 ELSE @[k]]]
        /\ UNCHANGED <<ringVars, key_replication_map, local_changeset, pendVars,
                       clientVars, monitor, join_remove_set, seed_ring,
                       self_join_count, removing>>
     \/ /\ ~(gone \subseteq StoredItems(p))
        /\ Dies(NodeOf(p), msgs \cup data)

------------------------------------------------------------------------------
ElasticInit ==
  /\ Init
  /\ join_gossip_map = [p \in Thread |-> {}]
  /\ join_remove_set = [p \in Thread |-> {}]
  /\ seed_ring = FullRing
  /\ self_join_count = [n \in Node |-> 0]
  /\ removing = {}

Membership ==
  \/ SeedJoined
  \/ SeedDeparted
  \/ \E n \in Node : MonitorRemove(n) \/ Crash(n)
  \/ \E p \in Thread : \/ Start(p)
                       \/ NodeJoin(p)
                       \/ NodeDepart(p)
                       \/ SelfDeparts(p)
                       \/ Redistribute(p)

ElasticNext == (Next /\ UNCHANGED elasticVars) \/ Membership

ElasticSpec == ElasticInit /\ [][ElasticNext]_allVars

(* The redistribution runs in every round of the event loop.               *)
ElasticFairSpec ==
  ElasticSpec /\ \A p \in Thread : WF_allVars(Redistribute(p)) /\ WF_allVars(NodeJoin(p))

------------------------------------------------------------------------------
ElasticMessage ==
  Message
    \cup [type : {"join"}, node : Node, count : Nat, dst : Thread]
    \cup [type : {"depart"}, node : Node, dst : Thread]
    \cup [type : {"self_depart"}, dst : Thread]
    \cup [type : {"seed_join"}, node : Node, count : Nat]
    \cup [type : {"seed_depart"}, node : Node]

(* Every variable keeps the shape its declaration says.                    *)
ElasticTypeOK ==
  /\ status \in [Thread -> {"off", "up", "left"}]
  /\ global_hash_rings \in [Thread -> [Node -> Nat \cup {Absent}]]
  /\ \A m \in msgs : m \in ElasticMessage
  /\ join_gossip_map \in [Thread -> SUBSET (Thread \X Item)]
  /\ join_remove_set \in [Thread -> SUBSET Item]
  /\ seed_ring \in [Node -> Nat \cup {Absent}]
  /\ self_join_count \in [Node -> Nat]
  /\ removing \subseteq Node

(* The nodes that are running: all their threads are up.                   *)
Running == {n \in Node : \A t \in Tid : status[<<n, t>>] = "up"}

MembershipQuiet ==
  /\ \A n \in Node, t \in Tid :
       status[<<n, t>>] = "up" \/ self_join_count[n] > 0 => n \in Running
  /\ \A m \in msgs : m.type \in {"join", "depart", "self_depart"} =>
                       status[m.dst] # "up"
  /\ \A m \in msgs : m.type \notin {"seed_join", "seed_depart"}

(* "gossip the new node address between server nodes to ensure             *)
(* consistency" (node_join_handler.cpp and the routing node's              *)
(* membership_handler.cpp): when no membership message is in flight, every *)
(* running thread and the routing node know exactly the running nodes.     *)
RingsConsistent ==
  MembershipQuiet =>
    /\ \A p \in Thread : status[p] = "up" => Ring(p) = Running
    /\ Nodes(seed_ring) = Running

(* A restart is noticed everywhere: when no membership message is in       *)
(* flight, every running thread knows the restart count of every node      *)
(* (HashRing::insert ignores a join whose count is not higher than the one *)
(* it has, and a starting server first takes all others with count 0).     *)
JoinCountsAgree ==
  MembershipQuiet =>
    \A p \in Thread : status[p] = "up" =>
      \A n \in Running : global_hash_rings[p][n] = self_join_count[n]

(* "assuming the replication factor will never be greater than the number  *)
(* of nodes in a tier" (responsible_global, whose loop does not end        *)
(* otherwise): no running thread knows a replication factor that its ring  *)
(* has too few nodes for.  Not so: slo_policy lowers the factors of keys   *)
(* that it has a report of and does not wait for the outcome before it     *)
(* removes a node, and storage_policy removes one without looking at them. *)
RepFitsRing ==
  \A p \in Thread : status[p] = "up" =>
    \A k \in Key : Knows(p, k) => \A t \in Tier :
      Fits(InTier(Ring(p), t), RepOf[key_replication_map[p][k]].global[t])

(* "since we already removed this node from the hash ring, no need to      *)
(* exclude it explicitly" (self_depart_handler.cpp): what a node stored    *)
(* when it left is at, or on its way to, a thread that is still running.   *)
HandedOver ==
  \A p \in Thread : status[p] = "left" =>
    \A u \in stored[p] : \E q \in Thread :
      /\ status[q] = "up"
      /\ u \in stored[q] \/ u \in pending_gossip[q] \/ CarriedTo(u, q)

(* "keep track of which key should be removed when node joins" (server.cpp,*)
(* join_remove_set): when a redistribution ends, the keys it removes are   *)
(* keys the thread stores and is not responsible for.                      *)
RemovesTracked ==
  [][\A p \in Thread :
       /\ join_gossip_map[p] # {}
       /\ join_gossip_map'[p] = {}
       => \A i \in join_remove_set[p] :
            /\ i \in StoredItems(p)
            /\ p \notin ItemThreads(p, i, Ring(p))]_allVars

(* "remove the keys we just dealt with" (server.cpp, redistribution): what *)
(* a join puts into join_gossip_map is dealt with and leaves it.           *)
Redistributed ==
  \A p \in Thread : [](join_gossip_map[p] # {} => <>(join_gossip_map[p] = {}))
==============================================================================
