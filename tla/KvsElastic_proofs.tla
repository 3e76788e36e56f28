-------------------------- MODULE KvsElastic_proofs --------------------------
(* What stays true of a thread's state while nodes join, leave, crash and  *)
(* come back, for every number of nodes, threads, tiers, keys and requests *)
(* and every sequence of replication factors: the types of KvsElastic,     *)
(* what a thread stores, and that lookups are not forgotten.               *)
EXTENDS KvsElastic, KvsServer_proofs

(* The provers tried on a leaf that names none, with the seconds they get. *)
USE ZenonT(60), SMTT(60)

------------------------------------------------------------------------------
(* Messages.                                                               *)
LEMMA MembersAreThreads ==
  /\ \A n \in Node : MainThread(n) \in Thread /\ NodeOf(MainThread(n)) = n
  /\ \A p \in Thread : NodeOf(p) \in Node
  /\ \A p \in Thread : Workers(p) \subseteq Thread
  BY NodeAssumption, SMTT(60) DEF MainThread, NodeOf, Thread, Workers

(* The constructors of membership messages make them.                      *)
LEMMA MemberMessagesMade ==
  /\ \A n \in Node, c \in Nat, p \in Thread : Join(n, c, p) \in ElasticMessage
  /\ \A n \in Node, p \in Thread : Depart(n, p) \in ElasticMessage
  /\ \A p \in Thread : SelfDepart(p) \in ElasticMessage
  /\ \A n \in Node, c \in Nat : SeedJoin(n, c) \in ElasticMessage
  /\ \A n \in Node : SeedDepart(n) \in ElasticMessage
  BY SMTT(60) DEF Join, Depart, SelfDepart, SeedJoin, SeedDepart, ElasticMessage

LEMMA MemberMessageTypes ==
  /\ \A n, c, p : /\ Join(n, c, p).type = "join"
                 /\ Join(n, c, p).node = n
                 /\ Join(n, c, p).count = c
                 /\ Join(n, c, p).dst = p
  /\ \A n, p : Depart(n, p).type = "depart"
  /\ \A p : SelfDepart(p).type = "self_depart"
  /\ \A n, c : /\ SeedJoin(n, c).type = "seed_join"
              /\ SeedJoin(n, c).node = n
              /\ SeedJoin(n, c).count = c
  /\ \A n : SeedDepart(n).type = "seed_depart"
  BY DEF Join, Depart, SelfDepart, SeedJoin, SeedDepart

LEMMA JoinFields ==
  \A n, c, p : /\ Join(n, c, p).type = "join" /\ Join(n, c, p).dst = p
              /\ Join(n, c, p).node = n /\ Join(n, c, p).count = c
  BY DEF Join

LEMMA SeedJoinFields ==
  \A n, c : /\ SeedJoin(n, c).type = "seed_join"
           /\ SeedJoin(n, c).node = n /\ SeedJoin(n, c).count = c
  BY DEF SeedJoin

LEMMA JoinsDistinct ==
  /\ \A a, x, b, y : SeedJoin(a, x) = SeedJoin(b, y) => a = b /\ x = y
  /\ \A a, x, b, y, q : SeedJoin(a, x) # Join(b, y, q)
  /\ \A a, x, p, b, y, q : Join(a, x, p) = Join(b, y, q) => a = b /\ x = y /\ p = q
<1>1. \A a, x, b, y : SeedJoin(a, x) = SeedJoin(b, y) => a = b /\ x = y
  BY SMTT(60) DEF SeedJoin
<1>2. \A a, x, b, y, q : SeedJoin(a, x) # Join(b, y, q)
  <2>1. \A a, x : SeedJoin(a, x).type = "seed_join"
    BY MemberMessageTypes
  <2>2. \A b, y, q : Join(b, y, q).type = "join"
    BY MemberMessageTypes
  <2> QED
    BY <2>1, <2>2
<1>3. \A a, x, p, b, y, q : Join(a, x, p) = Join(b, y, q) => a = b /\ x = y /\ p = q
  BY SMTT(60) DEF Join
<1> QED
  BY <1>1, <1>2, <1>3

LEMMA DepartsDistinct ==
  /\ \A a, b : SeedDepart(a) = SeedDepart(b) => a = b
  /\ \A a, p, b, q : Depart(a, p) = Depart(b, q) => a = b /\ p = q
  /\ \A p, q : SelfDepart(p) = SelfDepart(q) => p = q
  BY SMTT(60) DEF SeedDepart, Depart, SelfDepart

(* A message of the storage protocol has a type of its own.                *)
LEMMA ServerMessageTypes == \A m \in Message : m.type \in ServerTypes
  BY SMTT(60) DEF Message, ServerTypes

LEMMA ElasticMessageFields ==
  ASSUME NEW m \in ElasticMessage
  PROVE  /\ m.type \in ServerTypes => m \in Message
         /\ m.type = "join" => m.node \in Node /\ m.count \in Nat /\ m.dst \in Thread
                               /\ m = Join(m.node, m.count, m.dst)
         /\ m.type = "depart" => m.node \in Node /\ m.dst \in Thread
                                 /\ m = Depart(m.node, m.dst)
         /\ m.type = "self_depart" => m.dst \in Thread /\ m = SelfDepart(m.dst)
         /\ m.type = "seed_join" => m.node \in Node /\ m.count \in Nat
                                    /\ m = SeedJoin(m.node, m.count)
         /\ m.type = "seed_depart" => m.node \in Node /\ m = SeedDepart(m.node)
<1>1. CASE m \in Message
  BY <1>1, ServerMessageTypes DEF ServerTypes
<1>2. CASE m \in [type : {"join"}, node : Node, count : Nat, dst : Thread]
  BY <1>2, SMTT(60) DEF Join, ServerTypes
<1>3. CASE m \in [type : {"depart"}, node : Node, dst : Thread]
  BY <1>3, SMTT(60) DEF Depart, ServerTypes
<1>4. CASE m \in [type : {"self_depart"}, dst : Thread]
  BY <1>4, SMTT(60) DEF SelfDepart, ServerTypes
<1>5. CASE m \in [type : {"seed_join"}, node : Node, count : Nat]
  BY <1>5, SMTT(60) DEF SeedJoin, ServerTypes
<1>6. CASE m \in [type : {"seed_depart"}, node : Node]
  BY <1>6, SMTT(60) DEF SeedDepart, ServerTypes
<1> QED
  BY <1>1, <1>2, <1>3, <1>4, <1>5, <1>6 DEF ElasticMessage

------------------------------------------------------------------------------
(* Type correctness.                                                       *)
ElasticTyped == VarsTyped /\ ElasticTypeOK

(* The steps of KvsServer see a state of the types they need.              *)
LEMMA ElasticStateTyped == ElasticTyped => StateTyped
  BY ElasticMessageFields DEF ElasticTyped, ElasticTypeOK, StateTyped, MsgsTyped

LEMMA ElasticTypedInit == ElasticInit => ElasticTyped
<1> SUFFICES ASSUME ElasticInit PROVE ElasticTyped
  OBVIOUS
<1>1. VarsTyped
  BY TypeInit, StepKeepsTypes DEF ElasticInit
<1>2. FullRing \in [Node -> Nat \cup {Absent}]
  BY SMTT(60) DEF FullRing
<1>3. status \in [Thread -> {"off", "up", "left"}]
  BY <1>1 DEF VarsTyped
<1>4. global_hash_rings \in [Thread -> [Node -> Nat \cup {Absent}]]
  BY <1>2 DEF ElasticInit, Init
<1>5. self_join_count \in [Node -> Nat]
  BY SMTT(60) DEF ElasticInit
<1> QED
  BY <1>1, <1>2, <1>3, <1>4, <1>5 DEF ElasticTyped, ElasticTypeOK, ElasticInit, Init

(* A step that leaves the stores alone.                                    *)
LEMMA StoreKept ==
  ASSUME VarsTyped, UNCHANGED <<storeVars, clientVars, monitor>>,
         status' \in [Thread -> {"off", "up", "left"}],
         global_hash_rings' \in [Thread -> [Node -> Nat \cup {Absent}]]
  PROVE  VarsTyped'
<1>1. Nat \cup {Absent} \subseteq Int
  BY SMTT(60) DEF Absent
<1>2. global_hash_rings' \in [Thread -> [Node -> Int]]
  BY <1>1, SMTT(60)
<1> QED
  BY <1>2 DEF VarsTyped, storeVars, dataVars, pendVars, clientVars

LEMMA RingEntrySet ==
  ASSUME ElasticTyped, NEW p \in Thread, NEW n \in Node, NEW c \in Nat \cup {Absent},
         global_hash_rings' = [global_hash_rings EXCEPT ![p][n] = c]
  PROVE  global_hash_rings' \in [Thread -> [Node -> Nat \cup {Absent}]]
<1>1. global_hash_rings \in [Thread -> [Node -> Nat \cup {Absent}]]
  BY DEF ElasticTyped, ElasticTypeOK
<1>2. [global_hash_rings[p] EXCEPT ![n] = c] \in [Node -> Nat \cup {Absent}]
  BY <1>1
<1> QED
  BY <1>1, <1>2

LEMMA ElasticSends ==
  ASSUME ElasticTyped, NEW m, NEW out, Handle(m, out), \A x \in out : x \in ElasticMessage
  PROVE  \A x \in msgs' : x \in ElasticMessage
  BY DEF ElasticTyped, ElasticTypeOK, Handle

LEMMA ServerMessageIsElastic == Message \subseteq ElasticMessage
  BY DEF ElasticMessage

LEMMA StartTyped ==
  ASSUME ElasticTyped, NEW p \in Thread, Start(p)
  PROVE  ElasticTyped'
<1> DEFINE n    == NodeOf(p)
           c    == self_join_count[n]
           ring == [x \in Node |-> IF x = n THEN c
                                   ELSE IF seed_ring[x] # Absent THEN 0 ELSE Absent]
<1>1. n \in Node /\ c \in Nat
  BY MembersAreThreads DEF ElasticTyped, ElasticTypeOK
<1>2. ring \in [Node -> Nat \cup {Absent}]
  BY <1>1, SMTT(60)
<1>3. global_hash_rings' \in [Thread -> [Node -> Nat \cup {Absent}]]
  <2>1. global_hash_rings' = [global_hash_rings EXCEPT ![p] = ring]
    BY DEF Start
  <2> QED
    BY <1>2, <2>1 DEF ElasticTyped, ElasticTypeOK
<1>4. status' \in [Thread -> {"off", "up", "left"}]
  BY DEF Start, ElasticTyped, ElasticTypeOK
<1>5. VarsTyped'
  BY <1>3, <1>4, StoreKept DEF Start, ElasticTyped
<1>6. ASSUME NEW m \in msgs' PROVE m \in ElasticMessage
  <2>1. Nodes(ring) \subseteq Node
    BY DEF Nodes
  <2>2. \/ m \in msgs
        \/ \E x \in Nodes(ring) : m = Join(n, c, MainThread(x))
        \/ m = SeedJoin(n, c)
    BY <1>6 DEF Start
  <2> QED
    BY <1>1, <2>1, <2>2, MemberMessagesMade, MembersAreThreads DEF ElasticTyped, ElasticTypeOK
<1> QED
  BY <1>3, <1>4, <1>5, <1>6 DEF Start, ElasticTyped, ElasticTypeOK, elasticVars

LEMMA SeedTyped == ElasticTyped /\ (SeedJoined \/ SeedDeparted) => ElasticTyped'
<1> SUFFICES ASSUME ElasticTyped, SeedJoined \/ SeedDeparted PROVE ElasticTyped'
  OBVIOUS
<1>0. UNCHANGED <<ringVars, storeVars, clientVars, monitor, join_gossip_map,
                  join_remove_set, self_join_count, removing>>
  BY DEF SeedJoined, SeedDeparted
<1>1. VarsTyped'
  BY <1>0 DEF ElasticTyped, VarsTyped, ringVars, storeVars, dataVars, pendVars, clientVars
<1>2. seed_ring' \in [Node -> Nat \cup {Absent}] /\ \A x \in msgs' : x \in ElasticMessage
  <2>1. CASE SeedJoined
    <3>1. PICK m \in msgs :
            /\ m.type = "seed_join"
            /\ LET new == Inserts(seed_ring, m.node, m.count) IN
               /\ seed_ring' = [seed_ring EXCEPT ![m.node] = IF new THEN m.count ELSE @]
               /\ Handle(m, IF new THEN {Join(m.node, m.count, MainThread(x)) :
                                           x \in Nodes(seed_ring) \ {m.node}} ELSE {})
      BY <2>1 DEF SeedJoined
    <3>2. m.node \in Node /\ m.count \in Nat
      BY <3>1, ElasticMessageFields DEF ElasticTyped, ElasticTypeOK
    <3>3. \A x \in Nodes(seed_ring) : Join(m.node, m.count, MainThread(x)) \in ElasticMessage
      BY <3>2, MemberMessagesMade, MembersAreThreads DEF Nodes
    <3>4. \A x \in msgs' : x \in ElasticMessage
      BY <3>1, <3>3, ElasticSends, SMTT(60)
    <3> QED
      BY <3>1, <3>2, <3>4 DEF ElasticTyped, ElasticTypeOK
  <2>2. CASE SeedDeparted
    <3>1. PICK m \in msgs : /\ m.type = "seed_depart"
                            /\ seed_ring' = [seed_ring EXCEPT ![m.node] = Absent]
                            /\ Handle(m, {})
      BY <2>2 DEF SeedDeparted
    <3>2. \A x \in msgs' : x \in ElasticMessage
      BY <3>1, ElasticSends, SMTT(60)
    <3> QED
      BY <3>1, <3>2 DEF ElasticTyped, ElasticTypeOK
  <2> QED
    BY <2>1, <2>2
<1> QED
  BY <1>0, <1>1, <1>2 DEF ElasticTyped, ElasticTypeOK, ringVars

LEMMA MonitorRemoveTyped ==
  ASSUME ElasticTyped, NEW n \in Node, MonitorRemove(n)
  PROVE  ElasticTyped'
<1>1. VarsTyped'
  BY DEF MonitorRemove, ElasticTyped, VarsTyped, ringVars, storeVars, dataVars, pendVars,
         clientVars
<1>2. \A x \in msgs' : x \in ElasticMessage
  BY MemberMessagesMade, MembersAreThreads DEF MonitorRemove, ElasticTyped, ElasticTypeOK
<1> QED
  BY <1>1, <1>2 DEF MonitorRemove, ElasticTyped, ElasticTypeOK, ringVars

LEMMA KnownItemsTyped ==
  ASSUME ElasticTyped, NEW p \in Thread
  PROVE  /\ StoredItems(p) \subseteq Item
         /\ KnownItems(p) \subseteq Item
         /\ \A S : {i.key : i \in StoredItems(p) \ S} \in SUBSET Key
<1>1. StoredItems(p) \subseteq Item
  BY ElasticStateTyped, StoredItemsTyped
<1>2. \A i \in Item : i.key \in Key
  BY DEF Item
<1> QED
  BY <1>1, <1>2 DEF KnownItems

(* What a thread receives about the membership.                            *)
LEMMA MemberReceived ==
  ASSUME ElasticTyped, NEW p \in Thread
  PROVE  /\ \A m \in Inbox(p, "join") : /\ m \in msgs /\ m = Join(m.node, m.count, p)
                                        /\ m.node \in Node /\ m.count \in Nat
         /\ \A m \in Inbox(p, "depart") : m.node \in Node
  BY ElasticMessageFields DEF Inbox, ElasticTyped, ElasticTypeOK

(* What a thread asks for and sends when a node that is new to it joins.   *)
JoinAsked(p, n) ==
  IF TierOf[n] = SelfTier(p) THEN {i.key : i \in StoredItems(p) \ KnownItems(p)} ELSE {}
JoinNews(p, m) ==
  (IF p = MainThread(NodeOf(p))
   THEN {Join(NodeOf(p), self_join_count[NodeOf(p)], MainThread(m.node))}
          \cup {Join(m.node, m.count, MainThread(x)) :
                  x \in (Ring(p) \cup {m.node}) \ {m.node, NodeOf(p)}}
   ELSE {}) \cup {Join(m.node, m.count, w) : w \in Workers(p)}

(* The two ways of node_join_handler.                                      *)
LEMMA NodeJoinCases ==
  ASSUME NEW p \in Thread, NodeJoin(p)
  PROVE  /\ UNCHANGED <<status, storeVars, clientVars, monitor, seed_ring, self_join_count,
                        removing>>
         /\ \E m \in Inbox(p, "join") :
              LET new   == Inserts(global_hash_rings[p], m.node, m.count)
                  items == IF TierOf[m.node] = SelfTier(p) THEN KnownItems(p) ELSE {}
              IN  \/ /\ ~new
                     /\ Handle(m, {})
                     /\ UNCHANGED <<ringVars, elasticVars>>
                  \/ /\ new
                     /\ global_hash_rings' = [global_hash_rings EXCEPT ![p][m.node] = m.count]
                     /\ \E ask \in AskIn(Ring(p) \cup {m.node}, p, JoinAsked(p, m.node)) :
                          Handle(m, ask \cup JoinNews(p, m))
                     /\ \E moves \in SUBSET (Thread \X items) :
                          join_gossip_map' = [join_gossip_map EXCEPT ![p] = @ \cup moves]
                     /\ \E lost \in SUBSET items :
                          join_remove_set' = [join_remove_set EXCEPT ![p] = @ \cup lost]
<1> DEFINE items(n) == IF TierOf[n] = SelfTier(p) THEN KnownItems(p) ELSE {}
           news(m)  == IF p = MainThread(NodeOf(p))
                       THEN {Join(NodeOf(p), self_join_count[NodeOf(p)], MainThread(m.node))}
                              \cup {Join(m.node, m.count, MainThread(x)) :
                                      x \in (Ring(p) \cup {m.node}) \ {m.node, NodeOf(p)}}
                       ELSE {}
           nodes(m) == Ring(p) \cup {m.node}
           lost(m)  == Lost(p, items(m.node), m.node, nodes(m))
           moves(m) == IF m.count > 0
                       THEN {x \in Thread \X items(m.node) :
                               NodeOf(x[1]) = m.node /\ x[1] \in ItemThreads(p, x[2], nodes(m))}
                       ELSE {x \in Thread \X lost(m) : x[1] \in ItemThreads(p, x[2], nodes(m))}
<1>1. UNCHANGED <<status, storeVars, clientVars, monitor, seed_ring, self_join_count, removing>>
  BY DEF NodeJoin, ringVars, elasticVars
<1>2. PICK m \in Inbox(p, "join") :
        \/ /\ ~Inserts(global_hash_rings[p], m.node, m.count)
           /\ Handle(m, {})
           /\ UNCHANGED <<ringVars, elasticVars>>
        \/ /\ Inserts(global_hash_rings[p], m.node, m.count)
           /\ global_hash_rings' = [global_hash_rings EXCEPT ![p][m.node] = m.count]
           /\ \E ask \in AskIn(Ring(p) \cup {m.node}, p, JoinAsked(p, m.node)) :
                Handle(m, ask \cup news(m) \cup {Join(m.node, m.count, w) : w \in Workers(p)})
           /\ join_gossip_map' = [join_gossip_map EXCEPT ![p] = @ \cup moves(m)]
           /\ join_remove_set' = [join_remove_set EXCEPT
                                    ![p] = IF m.count = 0 THEN @ \cup lost(m) ELSE @]
  BY DEF NodeJoin, JoinAsked
<1>3. \A ask : ask \cup news(m) \cup {Join(m.node, m.count, w) : w \in Workers(p)}
                 = ask \cup JoinNews(p, m)
  <2>1. JoinNews(p, m) = news(m) \cup {Join(m.node, m.count, w) : w \in Workers(p)}
    BY DEF JoinNews
  <2> HIDE DEF news
  <2> QED
    BY <2>1
<1>4. lost(m) \in SUBSET items(m.node) /\ {} \in SUBSET items(m.node)
  BY DEF Lost
<1> HIDE DEF news, lost
<1>5. moves(m) \in SUBSET (Thread \X items(m.node))
  BY <1>4
<1> HIDE DEF moves, items
<1>6. \E gone \in SUBSET items(m.node) :
        (IF m.count = 0 THEN join_remove_set[p] \cup lost(m) ELSE join_remove_set[p])
          = join_remove_set[p] \cup gone
  BY <1>4
<1> QED
  BY <1>1, <1>2, <1>3, <1>5, <1>6 DEF items

LEMMA JoinNewsMade ==
  ASSUME ElasticTyped, NEW p \in Thread, NEW m \in Inbox(p, "join"), NEW x \in JoinNews(p, m)
  PROVE  \/ \E q \in Thread : x = Join(m.node, m.count, q)
         \/ \E q \in Thread : x = Join(NodeOf(p), self_join_count[NodeOf(p)], q)
<1>1. m.node \in Node /\ Ring(p) \subseteq Node
  BY MemberReceived, RingNodes
<1> QED
  BY <1>1, MembersAreThreads DEF JoinNews

LEMMA NodeJoinTyped ==
  ASSUME ElasticTyped, NEW p \in Thread, NodeJoin(p)
  PROVE  ElasticTyped'
<1>0. /\ UNCHANGED <<status, storeVars, clientVars, monitor, seed_ring, self_join_count,
                     removing>>
      /\ NodeOf(p) \in Node
      /\ self_join_count[NodeOf(p)] \in Nat
  BY NodeJoinCases, MembersAreThreads DEF ElasticTyped, ElasticTypeOK
<1> DEFINE items(n) == IF TierOf[n] = SelfTier(p) THEN KnownItems(p) ELSE {}
<1>1. ASSUME NEW m \in Inbox(p, "join"), Handle(m, {}), UNCHANGED <<ringVars, elasticVars>>
      PROVE  ElasticTyped'
  <2>1. VarsTyped'
    BY <1>0, <1>1, StoreKept DEF ElasticTyped, ElasticTypeOK, ringVars
  <2>2. \A x \in msgs' : x \in ElasticMessage
    BY <1>1, ElasticSends, SMTT(60)
  <2> QED
    BY <1>1, <2>1, <2>2 DEF ElasticTyped, ElasticTypeOK, ringVars, elasticVars
<1>2. ASSUME NEW m \in Inbox(p, "join"),
             global_hash_rings' = [global_hash_rings EXCEPT ![p][m.node] = m.count],
             NEW ask \in AskIn(Ring(p) \cup {m.node}, p, JoinAsked(p, m.node)),
             Handle(m, ask \cup JoinNews(p, m)),
             NEW moves \in SUBSET (Thread \X items(m.node)),
             join_gossip_map' = [join_gossip_map EXCEPT ![p] = @ \cup moves],
             NEW lost \in SUBSET items(m.node),
             join_remove_set' = [join_remove_set EXCEPT ![p] = @ \cup lost]
      PROVE  ElasticTyped'
  <2>1. m.node \in Node /\ m.count \in Nat
    BY MemberReceived
  <2>2. items(m.node) \subseteq Item /\ JoinAsked(p, m.node) \in SUBSET Key
    BY KnownItemsTyped DEF JoinAsked
  <2> HIDE DEF items
  <2>3. global_hash_rings' \in [Thread -> [Node -> Nat \cup {Absent}]]
    BY <1>2, <2>1, RingEntrySet
  <2>4. VarsTyped'
    BY <1>0, <2>3, StoreKept DEF ElasticTyped, ElasticTypeOK
  <2>5. \A x \in msgs' : x \in ElasticMessage
    <3>1. \A x \in ask : x \in ElasticMessage
      BY <1>2, <2>2, AskInSends, ServerMessageIsElastic, SMTT(60)
    <3>2. \A x \in JoinNews(p, m) : x \in ElasticMessage
      BY <1>0, <2>1, JoinNewsMade, MemberMessagesMade, SMTT(60)
    <3> QED
      BY <1>2, <3>1, <3>2, ElasticSends, SMTT(60)
  <2>6. join_gossip_map' \in [Thread -> SUBSET (Thread \X Item)]
    <3>1. moves \subseteq Thread \X Item
      BY <2>2
    <3> QED
      BY <1>2, <3>1 DEF ElasticTyped, ElasticTypeOK
  <2>7. join_remove_set' \in [Thread -> SUBSET Item]
    BY <1>2, <2>2 DEF ElasticTyped, ElasticTypeOK
  <2> QED
    BY <1>0, <2>3, <2>4, <2>5, <2>6, <2>7 DEF ElasticTyped, ElasticTypeOK
<1> QED
  BY <1>1, <1>2, NodeJoinCases

LEMMA NodeDepartTyped ==
  ASSUME ElasticTyped, NEW p \in Thread, NodeDepart(p)
  PROVE  ElasticTyped'
<1>1. PICK m \in Inbox(p, "depart") :
        /\ global_hash_rings' = [global_hash_rings EXCEPT ![p][m.node] = Absent]
        /\ Handle(m, {Depart(m.node, w) : w \in Workers(p)})
        /\ UNCHANGED <<status, storeVars, clientVars, monitor, elasticVars>>
  BY DEF NodeDepart
<1>2. m.node \in Node
  BY MemberReceived
<1>3. global_hash_rings' \in [Thread -> [Node -> Nat \cup {Absent}]]
  BY <1>1, <1>2, RingEntrySet
<1>4. VarsTyped'
  BY <1>1, <1>3, StoreKept DEF ElasticTyped, ElasticTypeOK
<1>5. \A w \in Workers(p) : Depart(m.node, w) \in ElasticMessage
  BY <1>2, MemberMessagesMade, MembersAreThreads
<1>6. \A x \in msgs' : x \in ElasticMessage
  BY <1>1, <1>5, ElasticSends
<1> QED
  BY <1>1, <1>3, <1>4, <1>6 DEF ElasticTyped, ElasticTypeOK, elasticVars

(* Gossip is about one key.                                                *)
SentAbout(x) == x.type = "gossip" => \A u \in x.val : KeyOf[u] = x.key

LEMMA AsksAbout ==
  ASSUME NEW nodes, NEW p \in Thread, NEW ks \in SUBSET Key, NEW ask \in AskIn(nodes, p, ks)
  PROVE  \A x \in ask : x \in Message /\ SentAbout(x)
  BY AskInSends, SMTT(60) DEF SentAbout

(* A thread that leaves keeps what it stores.  Besides the news of its     *)
(* departure it sends lookups and gossip.                                  *)
DepartNews(p) ==
  IF p = MainThread(NodeOf(p))
  THEN {Depart(NodeOf(p), MainThread(x)) : x \in Ring(p) \ {NodeOf(p)}}
         \cup {SeedDepart(NodeOf(p))} \cup {SelfDepart(w) : w \in Workers(p)}
  ELSE {}

LEMMA SelfDepartsCases ==
  ASSUME ElasticTyped, NEW p \in Thread, SelfDeparts(p)
  PROVE  /\ status' = [status EXCEPT ![p] = "left"]
         /\ global_hash_rings' = [global_hash_rings EXCEPT ![p][NodeOf(p)] = Absent]
         /\ removing' = IF \A t \in Tid : <<NodeOf(p), t>> = p \/ status[<<NodeOf(p), t>>] = "left"
                        THEN removing \ {NodeOf(p)} ELSE removing
         /\ UNCHANGED <<storeVars, clientVars, monitor, join_gossip_map, join_remove_set,
                        seed_ring, self_join_count>>
         /\ \E m \in Inbox(p, "self_depart") : \E rest :
              /\ Handle(m, rest \cup DepartNews(p))
              /\ \A x \in rest : x \in Message /\ SentAbout(x)
<1> DEFINE n     == NodeOf(p)
           rest  == Ring(p) \ {n}
           asked == {i.key : i \in StoredItems(p) \ KnownItems(p)}
           to(i) == IF i.meta THEN get_responsible_threads_metadata(rest, i.key)
                    ELSE get_responsible_threads(rest, i.key,
                           key_replication_map[p][i.key], Tier)
           data  == UNION {UNION {SendItem(p, i, q) : q \in to(i)} : i \in KnownItems(p)}
<1>0. rest \in SUBSET Node
  BY RingNodes
<1>1. PICK m \in Inbox(p, "self_depart"), ask \in AskIn(rest, p, asked) :
        Handle(m, ask \cup DepartNews(p) \cup data)
  BY DEF SelfDeparts, DepartNews
<1>2. /\ status' = [status EXCEPT ![p] = "left"]
      /\ global_hash_rings' = [global_hash_rings EXCEPT ![p][NodeOf(p)] = Absent]
      /\ removing' = IF \A t \in Tid : <<NodeOf(p), t>> = p \/ status[<<NodeOf(p), t>>] = "left"
                     THEN removing \ {NodeOf(p)} ELSE removing
      /\ UNCHANGED <<storeVars, clientVars, monitor, join_gossip_map, join_remove_set,
                     seed_ring, self_join_count>>
  BY DEF SelfDeparts
<1>3. \A x \in ask : x \in Message /\ SentAbout(x)
  BY KnownItemsTyped, AsksAbout, SMTT(60)
<1>4. \A x \in data : x \in Message /\ SentAbout(x)
  <2> DEFINE To(i) == UNION {SendItem(p, i, q) : q \in to(i)}
  <2> HIDE DEF to, rest, asked
  <2>0. data = UNION {To(i) : i \in KnownItems(p)}
    OBVIOUS
  <2> HIDE DEF To, data
  <2> SUFFICES ASSUME NEW x \in data PROVE x \in Message /\ SentAbout(x)
    OBVIOUS
  <2>a. PICK i \in KnownItems(p) : x \in To(i)
    BY <2>0
  <2>1. \E q \in to(i) : x \in SendItem(p, i, q)
    BY <2>a DEF To
  <2>2. i \in Item /\ i.key \in Key
    BY KnownItemsTyped DEF Item
  <2>3. \A q \in to(i) : q \in Thread
    BY <1>0, <2>2, ResponsibleAreThreads DEF to
  <2>4. PICK q \in Thread : x \in SendItem(p, i, q)
    BY <2>1, <2>3
  <2>5. x \in Message
    BY <2>2, <2>4, ElasticStateTyped, ItemSent
  <2>6. SentAbout(x)
    BY <2>4, SendItemAbout DEF SentAbout
  <2> QED
    BY <2>5, <2>6
<1> HIDE DEF data
<1>5. Handle(m, (ask \cup data) \cup DepartNews(p))
  <2>1. ask \cup DepartNews(p) \cup data = (ask \cup data) \cup DepartNews(p)
    OBVIOUS
  <2> QED
    BY <1>1, <2>1
<1>6. \A x \in ask \cup data : x \in Message /\ SentAbout(x)
  BY <1>3, <1>4
<1> HIDE DEF rest, asked
<1>7. \E m1 \in Inbox(p, "self_depart") : \E rest1 :
        /\ Handle(m1, rest1 \cup DepartNews(p))
        /\ \A x \in rest1 : x \in Message /\ SentAbout(x)
  BY <1>5, <1>6
<1> QED
  BY <1>2, <1>7

LEMMA DepartNewsMade ==
  ASSUME NEW p \in Thread, NEW x \in DepartNews(p)
  PROVE  \/ \E y \in Node : x = Depart(NodeOf(p), MainThread(y))
         \/ x = SeedDepart(NodeOf(p))
         \/ \E w \in Thread : x = SelfDepart(w)
  BY RingNodes, MembersAreThreads DEF DepartNews

LEMMA SelfDepartsRings ==
  ASSUME ElasticTyped, NEW p \in Thread, SelfDeparts(p)
  PROVE  /\ status' = [status EXCEPT ![p] = "left"]
         /\ global_hash_rings' = [global_hash_rings EXCEPT ![p][NodeOf(p)] = Absent]
  BY SelfDepartsCases

LEMMA SelfDepartsTyped ==
  ASSUME ElasticTyped, NEW p \in Thread, SelfDeparts(p)
  PROVE  ElasticTyped'
<1>0. NodeOf(p) \in Node
  BY MembersAreThreads
<1>1. global_hash_rings' \in [Thread -> [Node -> Nat \cup {Absent}]]
  <2>1. Absent \in Nat \cup {Absent}
    OBVIOUS
  <2> QED
    BY <1>0, <2>1, SelfDepartsRings, RingEntrySet
<1>2. status' \in [Thread -> {"off", "up", "left"}]
  BY SelfDepartsRings DEF ElasticTyped, ElasticTypeOK
<1>3. VarsTyped'
  BY <1>1, <1>2, SelfDepartsCases, StoreKept DEF ElasticTyped
<1>4. \A x \in msgs' : x \in ElasticMessage
  <2>1. PICK m \in Inbox(p, "self_depart") : \E rest :
          /\ Handle(m, rest \cup DepartNews(p))
          /\ \A x \in rest : x \in Message
    BY SelfDepartsCases
  <2>2. \A x \in DepartNews(p) : x \in ElasticMessage
    BY <1>0, DepartNewsMade, MemberMessagesMade, MembersAreThreads
  <2> QED
    BY <2>1, <2>2, ServerMessageIsElastic DEF Handle, ElasticTyped, ElasticTypeOK
<1>5. removing' \subseteq Node
  BY SelfDepartsCases DEF ElasticTyped, ElasticTypeOK
<1> QED
  BY <1>1, <1>2, <1>3, <1>4, <1>5, SelfDepartsCases DEF ElasticTyped, ElasticTypeOK

(* What a process leaves when it dies: for each of the maps of its threads *)
(* the empty one.                                                          *)
LEMMA WipedTyped ==
  ASSUME NEW S, NEW n, NEW f \in [Thread -> S], NEW e \in S
  PROVE  [p \in Thread |-> IF NodeOf(p) = n THEN e ELSE f[p]] \in [Thread -> S]
  OBVIOUS

LEMMA DiesTyped ==
  ASSUME ElasticTyped, NEW n \in Node, NEW inFlight, Dies(n, inFlight),
         \A m \in inFlight : m \in ElasticMessage
  PROVE  ElasticTyped'
<1> USE DEF ElasticTyped, ElasticTypeOK, VarsTyped
<1>1. status' \in [Thread -> {"off", "up", "left"}]
  BY WipedTyped DEF Dies
<1>2. key_replication_map' \in [Thread -> [Key -> Version \cup {Unknown}]]
  BY WipedTyped DEF Dies
<1>3. stored' \in [Thread -> SUBSET Put] /\ pending_gossip' \in [Thread -> SUBSET Put]
  BY WipedTyped DEF Dies
<1>4. metadata' \in [Thread -> [Key -> Version]]
  BY WipedTyped, ZeroIsVersion DEF Dies
<1>5. local_changeset' \in [Thread -> SUBSET Item] /\ join_remove_set' \in [Thread -> SUBSET Item]
  BY WipedTyped DEF Dies
<1>6. pending_requests' \in [Thread -> SUBSET Request]
  BY WipedTyped DEF Dies
<1>7. join_gossip_map' \in [Thread -> SUBSET (Thread \X Item)]
  BY WipedTyped DEF Dies
<1>8. self_join_count' \in [Node -> Nat]
  BY SMTT(60) DEF Dies
<1>9. UNCHANGED <<global_hash_rings, sent, responses, accepted, monitor, seed_ring, removing>>
  BY DEF Dies, clientVars
<1>10. \A m \in msgs' : m \in ElasticMessage
  BY DEF Dies
<1> QED
  BY <1>1, <1>2, <1>3, <1>4, <1>5, <1>6, <1>7, <1>8, <1>9, <1>10

(* What a redistribution sends is gossip of what the thread stores.        *)
Batched(p) ==
  UNION {UNION {SendItem(p, i, q) :
                  i \in Batch({j \in Item : <<q, j>> \in join_gossip_map[p]})} : q \in Thread}

LEMMA BatchedSent ==
  ASSUME ElasticTyped, NEW p \in Thread, NEW x \in Batched(p)
  PROVE  /\ x \in Message /\ x.type \in {"gossip", "meta_gossip"}
         /\ x.type = "gossip" => \A u \in x.val : KeyOf[u] = x.key
<1>1. PICK q \in Thread :
        \E i \in Batch({j \in Item : <<q, j>> \in join_gossip_map[p]}) : x \in SendItem(p, i, q)
  BY SMTT(60) DEF Batched
<1>2. PICK i : x \in SendItem(p, i, q)
  BY <1>1
<1>3. i \in StoredItems(p)
  BY <1>2 DEF SendItem
<1>4. i \in Item
  BY <1>3, KnownItemsTyped
<1> QED
  BY <1>2, <1>4, ItemSent, SendItemAbout, ElasticStateTyped, SMTT(60)

(* The two ways a round of the redistribution ends.                        *)
LEMMA RedistributeCases ==
  ASSUME NEW p \in Thread, Redistribute(p)
  PROVE  \/ Dies(NodeOf(p), msgs \cup Batched(p))
         \/ /\ msgs' = msgs \cup Batched(p)
            /\ \E left \in SUBSET join_gossip_map[p] :
                 join_gossip_map' = [join_gossip_map EXCEPT ![p] = left]
            /\ \E new \in SUBSET stored[p] : stored' = [stored EXCEPT ![p] = new]
            /\ \E gone : metadata' = [metadata EXCEPT ![p] =
                                        [k \in Key |-> IF k \in gone THEN 0 ELSE @[k]]]
            /\ UNCHANGED <<ringVars, key_replication_map, local_changeset, pendVars,
                           clientVars, monitor, join_remove_set, seed_ring,
                           self_join_count, removing>>
<1> DEFINE due(q) == {i \in Item : <<q, i>> \in join_gossip_map[p]}
           left   == {x \in join_gossip_map[p] : Cardinality(due(x[1])) > Threshold}
           gone   == IF left = {} THEN join_remove_set[p] ELSE {}
<1>1. CASE /\ msgs' = msgs \cup Batched(p)
           /\ join_gossip_map' = [join_gossip_map EXCEPT ![p] = left]
           /\ stored' = [stored EXCEPT ![p] = {u \in @ : Data(KeyOf[u]) \notin gone}]
           /\ metadata' = [metadata EXCEPT ![p] =
                             [k \in Key |-> IF Meta(k) \in gone THEN 0 ELSE @[k]]]
           /\ UNCHANGED <<ringVars, key_replication_map, local_changeset, pendVars,
                          clientVars, monitor, join_remove_set, seed_ring,
                          self_join_count, removing>>
  <2> HIDE DEF gone
  <2>1. left \in SUBSET join_gossip_map[p]
    OBVIOUS
  <2>2. {u \in stored[p] : Data(KeyOf[u]) \notin gone} \in SUBSET stored[p]
    OBVIOUS
  <2>3. [k \in Key |-> IF Meta(k) \in gone THEN 0 ELSE metadata[p][k]]
          = [k \in Key |-> IF k \in {j \in Key : Meta(j) \in gone} THEN 0 ELSE metadata[p][k]]
    OBVIOUS
  <2> HIDE DEF left
  <2> QED
    BY <1>1, <2>1, <2>2, <2>3
<1>2. CASE Dies(NodeOf(p), msgs \cup Batched(p))
  BY <1>2
<1> QED
  BY <1>1, <1>2 DEF Redistribute, Batched

LEMMA RedistributeTyped ==
  ASSUME ElasticTyped, NEW p \in Thread, Redistribute(p)
  PROVE  ElasticTyped'
<1>1. \A m \in msgs \cup Batched(p) : m \in ElasticMessage
  BY BatchedSent, ServerMessageIsElastic DEF ElasticTyped, ElasticTypeOK
<1>2. CASE Dies(NodeOf(p), msgs \cup Batched(p))
  BY <1>1, <1>2, DiesTyped, MembersAreThreads
<1>3. ASSUME msgs' = msgs \cup Batched(p),
             NEW left \in SUBSET join_gossip_map[p],
             join_gossip_map' = [join_gossip_map EXCEPT ![p] = left],
             NEW new \in SUBSET stored[p], stored' = [stored EXCEPT ![p] = new],
             NEW gone, metadata' = [metadata EXCEPT ![p] =
                                      [k \in Key |-> IF k \in gone THEN 0 ELSE @[k]]],
             UNCHANGED <<ringVars, key_replication_map, local_changeset, pendVars,
                         clientVars, monitor, join_remove_set, seed_ring,
                         self_join_count, removing>>
      PROVE  ElasticTyped'
  <2> USE DEF ElasticTyped, ElasticTypeOK, VarsTyped
  <2>1. join_gossip_map' \in [Thread -> SUBSET (Thread \X Item)]
    BY <1>3
  <2>2. stored' \in [Thread -> SUBSET Put]
    BY <1>3
  <2>3. metadata' \in [Thread -> [Key -> Version]]
    BY <1>3, ZeroIsVersion
  <2> QED
    BY <1>1, <1>3, <2>1, <2>2, <2>3 DEF ringVars, pendVars, clientVars
<1> QED
  BY <1>2, <1>3, RedistributeCases

LEMMA MembershipTyped == ElasticTyped /\ Membership => ElasticTyped'
<1> SUFFICES ASSUME ElasticTyped, Membership PROVE ElasticTyped'
  OBVIOUS
<1>1. ASSUME NEW n \in Node, Crash(n) PROVE ElasticTyped'
  <2>1. PICK lost \in SUBSET ToNode(n) : Dies(n, msgs \ lost)
    BY <1>1 DEF Crash
  <2> QED
    BY <2>1, DiesTyped, SMTT(60) DEF ElasticTyped, ElasticTypeOK
<1> QED
  BY <1>1, StartTyped, SeedTyped, MonitorRemoveTyped, NodeJoinTyped, NodeDepartTyped,
     SelfDepartsTyped, RedistributeTyped DEF Membership

LEMMA ElasticTypedStep == ElasticTyped /\ [ElasticNext]_allVars => ElasticTyped'
<1> SUFFICES ASSUME ElasticTyped, [ElasticNext]_allVars, ~Membership PROVE ElasticTyped'
  BY MembershipTyped
<1>1. [Next]_vars /\ UNCHANGED elasticVars
  BY DEF ElasticNext, allVars
<1>2. StepTyped /\ UNCHANGED ringVars
  BY <1>1, ElasticStateTyped, ServerTyped, RingsUnchanged
<1>3. \A m \in msgs' : m \in ElasticMessage
  BY <1>2, ServerMessageIsElastic DEF StepTyped, Sends, ElasticTyped, ElasticTypeOK
<1> QED
  BY <1>1, <1>2, <1>3 DEF StepTyped, ElasticTyped, ElasticTypeOK, elasticVars, ringVars

(* The variables of the membership protocol, and those of the servers      *)
(* under it, keep the shape their declarations say (ElasticTypeOK).        *)
THEOREM ElasticTypes == ElasticSpec => []ElasticTypeOK
<1>1. ElasticTyped => ElasticTypeOK
  BY DEF ElasticTyped
<1> QED
  BY <1>1, ElasticTypedInit, ElasticTypedStep, PTL DEF ElasticSpec

------------------------------------------------------------------------------
(* What a membership step sends and receives.  Of the storage protocol it  *)
(* sends lookups and gossip, and receives nothing; only a crash loses      *)
(* messages.                                                               *)
MemberSends == \A x \in msgs' : x \in msgs \/ SentAbout(x)
ServerMsgsKept == \A x \in msgs : x.type \in ServerTypes => x \in msgs'

LEMMA MemberHandles ==
  ASSUME NEW m, m.type \notin ServerTypes, NEW out, Handle(m, out), \A x \in out : SentAbout(x)
  PROVE  MemberSends /\ ServerMsgsKept
  BY DEF Handle, MemberSends, ServerMsgsKept

LEMMA MemberMessagesAbout ==
  /\ \A n, c, p : SentAbout(Join(n, c, p))
  /\ \A n, p : SentAbout(Depart(n, p))
  /\ \A p : SentAbout(SelfDepart(p))
  /\ \A n, c : SentAbout(SeedJoin(n, c))
  /\ \A n : SentAbout(SeedDepart(n))
  BY MemberMessageTypes DEF SentAbout

LEMMA NodeJoinMessages ==
  ASSUME ElasticTyped, NEW p \in Thread, NodeJoin(p)
  PROVE  MemberSends /\ ServerMsgsKept
<1>1. PICK m \in Inbox(p, "join") :
        \/ Handle(m, {})
        \/ \E ask \in AskIn(Ring(p) \cup {m.node}, p, JoinAsked(p, m.node)) :
             Handle(m, ask \cup JoinNews(p, m))
  BY NodeJoinCases
<1>2. m.type \notin ServerTypes
  BY DEF Inbox, ServerTypes
<1>3. JoinAsked(p, m.node) \in SUBSET Key
  BY KnownItemsTyped DEF JoinAsked
<1>4. \A x \in JoinNews(p, m) : SentAbout(x)
  BY JoinNewsMade, MemberMessagesAbout, SMTT(60)
<1>5. CASE Handle(m, {})
  BY <1>2, <1>5, MemberHandles, SMTT(60)
<1>6. ASSUME NEW ask \in AskIn(Ring(p) \cup {m.node}, p, JoinAsked(p, m.node)),
             Handle(m, ask \cup JoinNews(p, m))
      PROVE  MemberSends /\ ServerMsgsKept
  <2>1. \A x \in ask : SentAbout(x)
    BY <1>3, AsksAbout, SMTT(60)
  <2>2. \A x \in ask \cup JoinNews(p, m) : SentAbout(x)
    BY <1>4, <2>1
  <2> QED
    BY <1>2, <1>6, <2>2, MemberHandles
<1> QED
  BY <1>1, <1>5, <1>6

LEMMA SelfDepartsMessages ==
  ASSUME ElasticTyped, NEW p \in Thread, SelfDeparts(p)
  PROVE  MemberSends /\ ServerMsgsKept
<1>1. PICK m \in Inbox(p, "self_depart") : \E rest :
        Handle(m, rest \cup DepartNews(p)) /\ \A x \in rest : SentAbout(x)
  BY SelfDepartsCases
<1>2. m.type \notin ServerTypes
  BY DEF Inbox, ServerTypes
<1>3. \A x \in DepartNews(p) : SentAbout(x)
  BY DepartNewsMade, MemberMessagesAbout, SMTT(60)
<1>4. PICK out : Handle(m, out) /\ \A x \in out : SentAbout(x)
  BY <1>1, <1>3, SMTT(60)
<1> QED
  BY <1>2, <1>4, MemberHandles

LEMMA MembershipMessages ==
  ASSUME ElasticTyped, Membership
  PROVE  /\ MemberSends
         /\ ServerMsgsKept \/ \E n \in Node : Crash(n)
<1>1. ASSUME NEW p \in Thread, Start(p) PROVE MemberSends /\ ServerMsgsKept
  BY <1>1, MemberMessagesAbout DEF Start, MemberSends, ServerMsgsKept
<1>2. CASE SeedJoined
  <2>1. PICK m \in msgs :
          /\ m.type = "seed_join"
          /\ Handle(m, {}) \/ Handle(m, {Join(m.node, m.count, MainThread(x)) :
                                           x \in Nodes(seed_ring) \ {m.node}})
    BY <1>2 DEF SeedJoined
  <2>2. m.type \notin ServerTypes
    BY <2>1 DEF ServerTypes
  <2>3. \A x \in {Join(m.node, m.count, MainThread(y)) : y \in Nodes(seed_ring) \ {m.node}} :
          SentAbout(x)
    BY MemberMessagesAbout
  <2>4. \A x \in {} : SentAbout(x)
    OBVIOUS
  <2> QED
    BY <2>1, <2>2, <2>3, <2>4, MemberHandles, SMTT(60)
<1>3. CASE SeedDeparted
  <2>1. PICK m \in msgs : m.type = "seed_depart" /\ Handle(m, {})
    BY <1>3 DEF SeedDeparted
  <2> QED
    BY <2>1, MemberHandles, SMTT(60) DEF ServerTypes
<1>4. ASSUME NEW n \in Node, MonitorRemove(n) PROVE MemberSends /\ ServerMsgsKept
  BY <1>4, MemberMessagesAbout DEF MonitorRemove, MemberSends, ServerMsgsKept
<1>5. ASSUME NEW n \in Node, Crash(n) PROVE MemberSends
  BY <1>5 DEF Crash, Dies, MemberSends
<1>6. ASSUME NEW p \in Thread, NodeDepart(p) PROVE MemberSends /\ ServerMsgsKept
  <2>1. PICK m \in Inbox(p, "depart") : Handle(m, {Depart(m.node, w) : w \in Workers(p)})
    BY <1>6 DEF NodeDepart
  <2>2. m.type \notin ServerTypes
    BY DEF Inbox, ServerTypes
  <2>3. \A x \in {Depart(m.node, w) : w \in Workers(p)} : SentAbout(x)
    BY MemberMessagesAbout
  <2> QED
    BY <2>1, <2>2, <2>3, MemberHandles
<1>7. ASSUME NEW p \in Thread, Redistribute(p) PROVE MemberSends /\ ServerMsgsKept
  <2>1. msgs' = msgs \cup Batched(p)
    BY <1>7, RedistributeCases DEF Dies
  <2>2. \A x \in Batched(p) : SentAbout(x)
    BY BatchedSent DEF SentAbout
  <2> QED
    BY <2>1, <2>2 DEF MemberSends, ServerMsgsKept
<1> QED
  BY <1>1, <1>2, <1>3, <1>4, <1>5, <1>6, <1>7, NodeJoinMessages, SelfDepartsMessages
     DEF Membership

------------------------------------------------------------------------------
(* What a membership step does to the stores: nothing is added, and only a *)
(* thread whose store is emptied forgets replication factors and what      *)
(* waits for them.                                                         *)
StoresShrink ==
  \A p \in Thread :
    /\ stored'[p] \subseteq stored[p]
    /\ key_replication_map'[p] = key_replication_map[p] \/ stored'[p] = {}
    /\ pending_requests'[p] \subseteq pending_requests[p]
    /\ pending_gossip'[p] \subseteq pending_gossip[p]

LEMMA DiesShrinks ==
  ASSUME NEW n, NEW inFlight, Dies(n, inFlight)
  PROVE  StoresShrink
  BY DEF Dies, StoresShrink

LEMMA MembershipShrinks ==
  ASSUME ElasticTyped, Membership
  PROVE  StoresShrink
<1>1. ASSUME UNCHANGED storeVars PROVE StoresShrink
  BY <1>1 DEF storeVars, dataVars, pendVars, StoresShrink
<1>2. ASSUME NEW p \in Thread, Redistribute(p) PROVE StoresShrink
  <2>1. ASSUME NEW new \in SUBSET stored[p], stored' = [stored EXCEPT ![p] = new],
               UNCHANGED <<key_replication_map, pendVars>>
        PROVE  StoresShrink
    BY <2>1 DEF pendVars, StoresShrink, ElasticTyped, VarsTyped
  <2> QED
    BY <1>2, <2>1, DiesShrinks, RedistributeCases
<1>3. ASSUME NEW n \in Node, Crash(n) PROVE StoresShrink
  BY <1>3, DiesShrinks DEF Crash
<1>4. ASSUME SeedJoined \/ SeedDeparted \/ \E n \in Node : MonitorRemove(n)
      PROVE  UNCHANGED storeVars
  BY <1>4 DEF SeedJoined, SeedDeparted, MonitorRemove
<1>5. ASSUME NEW p \in Thread, Start(p) \/ NodeJoin(p) \/ NodeDepart(p) \/ SelfDeparts(p)
      PROVE  UNCHANGED storeVars
  BY <1>5 DEF Start, NodeJoin, NodeDepart, SelfDeparts
<1> QED
  BY <1>1, <1>2, <1>3, <1>4, <1>5 DEF Membership

(* Every step is one of the servers, or of the membership.                 *)
LEMMA ElasticSteps ==
  ASSUME [ElasticNext]_allVars
  PROVE  Membership \/ ([Next]_vars /\ UNCHANGED elasticVars)
  BY DEF ElasticNext, allVars

ElasticBase == ElasticTyped /\ GossipAbout

LEMMA ElasticBaseInit == ElasticInit => ElasticBase
  BY ElasticTypedInit DEF ElasticInit, Init, ElasticBase, GossipAbout

LEMMA ElasticBaseStep == ElasticBase /\ [ElasticNext]_allVars => ElasticBase'
<1> SUFFICES ASSUME ElasticBase, [ElasticNext]_allVars PROVE ElasticBase'
  OBVIOUS
<1>1. ElasticTyped /\ GossipAbout /\ StateTyped
  BY ElasticStateTyped DEF ElasticBase
<1>2. ElasticTyped'
  BY <1>1, ElasticTypedStep
<1>3. GossipAbout'
  <2>1. CASE Membership
    BY <1>1, <2>1, MembershipMessages DEF MemberSends, SentAbout, GossipAbout
  <2> QED
    BY <1>1, <2>1, ElasticSteps, GossipAboutStep
<1> QED
  BY <1>2, <1>3 DEF ElasticBase

(* StoredHasReplication under membership changes: no join, departure,      *)
(* crash, restart or redistribution leaves a thread with a data key whose  *)
(* replication factor it does not know, so that the branch "This should    *)
(* never happen" of the join and departure routines is never taken.        *)
THEOREM ElasticReplicationKnown == ElasticSpec => []StoredHasReplication
<1> DEFINE Inv == ElasticBase /\ StoredHasReplication
<1>1. ElasticInit => Inv
  BY ElasticBaseInit DEF ElasticInit, Init, StoredHasReplication
<1>2. Inv /\ [ElasticNext]_allVars => Inv'
  <2> SUFFICES ASSUME Inv, [ElasticNext]_allVars PROVE StoredHasReplication'
    BY ElasticBaseStep
  <2>1. ElasticTyped /\ GossipAbout /\ StateTyped
    BY ElasticStateTyped DEF ElasticBase
  <2>2. CASE Membership
    BY <2>1, <2>2, MembershipShrinks DEF StoresShrink, StoredHasReplication, Knows
  <2> QED
    BY <2>1, <2>2, ElasticSteps, StoredHasReplicationStep
<1> QED
  BY <1>1, <1>2, PTL DEF ElasticSpec

(* OneTypePerKey under membership changes: what a thread receives from one *)
(* that loses a key to it, or leaves, is merged like any other gossip.     *)
THEOREM ElasticTypesKept == ElasticSpec => []OneTypePerKey
<1> DEFINE Inv == ElasticBase /\ OneTypePerKey
<1>1. ElasticInit => Inv
  BY ElasticBaseInit DEF ElasticInit, Init, OneTypePerKey
<1>2. Inv /\ [ElasticNext]_allVars => Inv'
  <2> SUFFICES ASSUME Inv, [ElasticNext]_allVars PROVE OneTypePerKey'
    BY ElasticBaseStep
  <2>1. ElasticTyped /\ GossipAbout /\ StateTyped
    BY ElasticStateTyped DEF ElasticBase
  <2>2. CASE Membership
    <3>1. StoresShrink
      BY <2>1, <2>2, MembershipShrinks
    <3> QED
      BY <3>1 DEF StoresShrink, OneTypePerKey
  <2> QED
    BY <2>1, <2>2, ElasticSteps, OneTypeStep
<1> QED
  BY <1>1, <1>2, PTL DEF ElasticSpec

(* No process is killed from outside (one that dies in a redistribution    *)
(* loses no message).                                                      *)
NoCrashes == \A n \in Node : MaxRestarts[n] = 0

(* NothingStranded under membership changes: what waits for a replication  *)
(* factor at a thread is never stranded by nodes that join, leave or die   *)
(* in a redistribution.  (A crash may take a lookup with it.)              *)
THEOREM ElasticLookupsPending ==
  ASSUME NoCrashes
  PROVE  ElasticSpec => []NothingStranded
<1> DEFINE Inv == ElasticBase /\ NothingStranded
<1>1. ElasticInit => Inv
  BY ElasticBaseInit DEF ElasticInit, Init, NothingStranded
<1>2. Inv /\ [ElasticNext]_allVars => Inv'
  <2> SUFFICES ASSUME Inv, [ElasticNext]_allVars PROVE NothingStranded'
    BY ElasticBaseStep
  <2>1. ElasticTyped /\ GossipAbout /\ StateTyped
    BY ElasticStateTyped DEF ElasticBase
  <2>2. ASSUME NEW n \in Node, Crash(n) PROVE FALSE
    <3>1. self_join_count[n] \in Nat /\ self_join_count[n] < 0
      BY <2>1, <2>2 DEF Crash, NoCrashes, ElasticTyped, ElasticTypeOK
    <3> QED
      BY <3>1, SMTT(60)
  <2>3. CASE Membership
    <3>1. ServerMsgsKept /\ StoresShrink
      BY <2>1, <2>2, <2>3, MembershipMessages, MembershipShrinks
    <3>2. \A p, k : WaitsForLookup(p, k) => WaitsForLookup(p, k)'
      BY <3>1 DEF WaitsForLookup, ServerMsgsKept, ServerTypes
    <3> QED
      BY <3>1, <3>2 DEF StoresShrink, NothingStranded
  <2> QED
    BY <2>1, <2>3, ElasticSteps, NothingStrandedStep
<1> QED
  BY <1>1, <1>2, PTL DEF ElasticSpec
==============================================================================
