--------------------------- MODULE KvsRings_proofs ---------------------------
(* How the hash rings follow the nodes, for the same constants as          *)
(* KvsElastic_proofs: nodes which join, crash and restart find each other, *)
(* and nodes which leave are forgotten.                                    *)
EXTENDS KvsElastic_proofs

(* The provers tried on a leaf that names none, with the seconds they get. *)
USE ZenonT(60), SMTT(60)

------------------------------------------------------------------------------
(* Threads and the messages of a departure.                                *)
LEMMA Colleagues ==
  /\ \A q \in Thread : \/ q = MainThread(NodeOf(q))
                      \/ q \in Workers(MainThread(NodeOf(q)))
  /\ \A p, q : q \in Workers(p) => NodeOf(q) = NodeOf(p)
  /\ \A q \in Thread : \E t \in Tid : q = <<NodeOf(q), t>>
  BY SMTT(60) DEF Workers, Thread, NodeOf, MainThread

LEMMA DepartFields ==
  \A a, p : /\ Depart(a, p).type = "depart" /\ Depart(a, p).dst = p
           /\ Depart(a, p).node = a
  BY DEF Depart

LEMMA SelfDepartFields ==
  \A p : SelfDepart(p).type = "self_depart" /\ SelfDepart(p).dst = p
  BY DEF SelfDepart

LEMMA DepartsApart ==
  /\ \A a, p, q : Depart(a, p) # SelfDepart(q)
  /\ \A a, b, q : SeedDepart(b) # Depart(a, q) /\ SeedDepart(b) # SelfDepart(q)
  BY SMTT(60) DEF Depart, SelfDepart, SeedDepart

------------------------------------------------------------------------------
(* Nodes that join, crash and restart find each other, as long as none is  *)
(* told to leave.  A main thread announces its node with the restart count *)
(* it has; every join message, every ring and the seed know a count that   *)
(* the node has announced.                                                 *)
NothingLeaves == MayLeave = {}

MainUp(a) == status[MainThread(a)] = "up"
MainRing(b) == global_hash_rings[MainThread(b)]
Counted(a, c) == c < self_join_count[a] \/ (c = self_join_count[a] /\ MainUp(a))

(* Node b knows the present count of node a, or will be told; node a has   *)
(* announced itself to the seed, which has not heard yet.                  *)
Told(a, b) == \/ MainRing(b)[a] = self_join_count[a]
              \/ Join(a, self_join_count[a], MainThread(b)) \in msgs
Announced(a) == SeedJoin(a, self_join_count[a]) \in msgs

CountsKnown ==
  /\ \A a, b \in Node : Counted(a, MainRing(b)[a])
  /\ \A a \in Node : Counted(a, seed_ring[a])
  /\ \A m \in msgs : m.type \in {"join", "seed_join"} => Counted(m.node, m.count)

SeedTold ==
  \A a \in Node :
    /\ MainUp(a) => seed_ring[a] = self_join_count[a] \/ Announced(a)
    /\ Announced(a) => seed_ring[a] # self_join_count[a]

SelfKnown == \A a \in Node : MainUp(a) => MainRing(a)[a] = self_join_count[a]

(* Of two nodes that run, one will hear of the other: one has told the     *)
(* other, or one is still to be announced by the seed, which tells every   *)
(* node it knows.  And who knows a node has told it of itself.             *)
PairsMeet ==
  \A a, b \in Node : a # b /\ MainUp(a) /\ MainUp(b) =>
    /\ Told(a, b) \/ Told(b, a) \/ Announced(a) \/ Announced(b)
    /\ MainRing(a)[b] = self_join_count[b] => Told(a, b)

NobodyLeaves ==
  \A m \in msgs : m.type \notin {"depart", "self_depart", "seed_depart"}

JoinInv == CountsKnown /\ SeedTold /\ SelfKnown /\ PairsMeet /\ NobodyLeaves

LEMMA JoinInvInit == ElasticInit => JoinInv
<1> SUFFICES ASSUME ElasticInit PROVE JoinInv
  OBVIOUS
<1>1. /\ \A a \in Node : MainUp(a) <=> a \in InitNodes
      /\ \A a, b \in Node : MainRing(b)[a] = IF a \in InitNodes THEN 0 ELSE Absent
      /\ \A a \in Node : seed_ring[a] = IF a \in InitNodes THEN 0 ELSE Absent
      /\ \A a \in Node : self_join_count[a] = 0
      /\ msgs = {}
  BY MembersAreThreads, SMTT(60) DEF ElasticInit, Init, MainUp, MainRing, FullRing
<1>2. Absent < 0
  BY SMTT(60) DEF Absent
<1>3. CountsKnown
  BY <1>1, <1>2 DEF CountsKnown, Counted
<1>4. SeedTold /\ SelfKnown /\ PairsMeet /\ NobodyLeaves
  BY <1>1 DEF SeedTold, SelfKnown, PairsMeet, NobodyLeaves, Told, Announced
<1> QED
  BY <1>3, <1>4 DEF JoinInv

(* A step of the servers neither receives nor sends membership messages.   *)
LEMMA NextKeepsMembers ==
  ASSUME StateTyped, [Next]_vars
  PROVE  \A m : m.type \notin ServerTypes => (m \in msgs' <=> m \in msgs)
<1>1. ASSUME NEW m \in msgs', m.type \notin ServerTypes PROVE m \in msgs
  BY <1>1, ServerTyped, ServerMessageTypes DEF StepTyped, Sends
<1>2. ASSUME NEW m \in msgs, m.type \notin ServerTypes, m \notin msgs' PROVE FALSE
  <2>1. \A x, out : Handle(x, out) => x = m
    BY <1>2 DEF Handle
  <2>2. /\ m.type # "request" /\ m.type # "gossip" /\ m.type # "meta_gossip"
        /\ m.type # "rep_request" /\ m.type # "rep_response" /\ m.type # "rep_change"
        /\ m.type # "meta_put" /\ m.type # "meta_ack"
    BY <1>2 DEF ServerTypes
  <2>3. CASE Client \/ Monitor \/ UNCHANGED vars
    <3>1. ~MonitorAnswered
      BY <2>1, <2>2 DEF MonitorAnswered
    <3> QED
      BY <1>2, <2>3, <3>1 DEF Client, Monitor, ClientSend, MonitorWrite, MonitorTimeout, vars
  <2>4. ASSUME NEW p \in Thread PROVE ~ServerStep(p)
    <3>1. ~HandleRequest(p)
      BY <2>1, <2>2 DEF HandleRequest, RequestPends, RequestServed, Inbox
    <3>2. ~HandleMetaRequest(p)
      BY <2>1, <2>2 DEF HandleMetaRequest, MetaGetServed, MetaPutServed, Inbox
    <3>3. \A x \in Inbox(p, "gossip") : ~(GossipPends(p, x) \/ GossipMerged(p, x))
      BY <2>1, <2>2 DEF GossipPends, GossipMerged, Inbox
    <3>4. \A x \in Inbox(p, "meta_gossip") : ~MetaGossipReceived(p, x)
      BY <2>1, <2>2 DEF MetaGossipReceived, Inbox
    <3>5. ~HandleRepResponse(p)
      BY <2>1, <2>2 DEF HandleRepResponse, RepResponseRetried, RepResponseApplied, Inbox
    <3>6. ~HandleRepChange(p)
      BY <2>1, <2>2 DEF HandleRepChange, ReplicationChange, Inbox
    <3>7. ~GossipTimer(p)
      BY <1>2 DEF GossipTimer
    <3> QED
      BY <3>1, <3>2, <3>3, <3>4, <3>5, <3>6, <3>7 DEF ServerStep, HandleGossip
  <2> QED
    BY <2>3, <2>4 DEF Next
<1> QED
  BY <1>1, <1>2

(* A step that starts and ends no main thread, and tells the seed nothing. *)
LEMMA JoinInvKept ==
  ASSUME ElasticTyped, JoinInv, UNCHANGED <<seed_ring, self_join_count>>,
         \A a \in Node : MainUp(a)' = MainUp(a),
         \A a \in Node : Announced(a)' = Announced(a),
         \A m \in msgs' : \/ m \in msgs
                          \/ m.type \in ServerTypes
                          \/ m.type = "join" /\ m.node \in Node /\ Counted(m.node, m.count),
         \A a, b \in Node : Counted(a, MainRing(b)'[a]),
         \A a \in Node : MainUp(a) => MainRing(a)'[a] = self_join_count[a],
         \A a, b \in Node : a # b /\ MainUp(a) /\ MainUp(b) =>
           /\ Told(a, b) => Told(a, b)'
           /\ MainRing(a)'[b] = self_join_count[b]
                => MainRing(a)[b] = self_join_count[b] \/ Told(a, b)'
  PROVE  JoinInv'
<1> USE DEF JoinInv
<1>1. \A a \in Node : \A c : Counted(a, c) => Counted(a, c)'
  BY DEF Counted
<1>2. CountsKnown'
  <2>1. \A m \in msgs' : m.type \in {"join", "seed_join"} => Counted(m.node, m.count)'
    <3> SUFFICES ASSUME NEW m \in msgs', m.type \in {"join", "seed_join"}
                 PROVE  m.node \in Node /\ Counted(m.node, m.count)
      BY <1>1
    <3> QED
      BY ElasticMessageFields DEF CountsKnown, ElasticTyped, ElasticTypeOK, ServerTypes
  <2> QED
    BY <1>1, <2>1 DEF CountsKnown
<1>3. SeedTold'
  BY DEF SeedTold
<1>4. SelfKnown'
  BY DEF SelfKnown
<1>5. PairsMeet'
  BY DEF PairsMeet
<1>6. NobodyLeaves'
  BY DEF NobodyLeaves, ServerTypes
<1> QED
  BY <1>2, <1>3, <1>4, <1>5, <1>6

(* A step that leaves the main threads and the messages about them alone.  *)
LEMMA JoinInvFrame ==
  ASSUME ElasticTyped, JoinInv, UNCHANGED <<seed_ring, self_join_count>>,
         \A a \in Node : MainUp(a)' = MainUp(a) /\ MainRing(a)' = MainRing(a),
         \A m \in msgs' : m \in msgs \/ m.type \in ServerTypes,
         \A a, b \in Node : \A c : Join(a, c, MainThread(b)) \in msgs
                                     => Join(a, c, MainThread(b)) \in msgs',
         \A a \in Node : \A c : SeedJoin(a, c) \in msgs => SeedJoin(a, c) \in msgs'
  PROVE  JoinInv'
<1>1. \A a \in Node : Announced(a)' = Announced(a)
  <2>1. \A a, c : SeedJoin(a, c).type \notin ServerTypes
    BY MemberMessageTypes DEF ServerTypes
  <2> QED
    BY <2>1, SMTT(60) DEF Announced
<1>2. \A a, b \in Node : Told(a, b) => Told(a, b)'
  BY DEF Told
<1>3. /\ \A a, b \in Node : Counted(a, MainRing(b)'[a])
      /\ \A a \in Node : MainUp(a) => MainRing(a)'[a] = self_join_count[a]
  BY DEF JoinInv, CountsKnown, SelfKnown
<1> QED
  BY <1>1, <1>2, <1>3, JoinInvKept

LEMMA JoinInvNext ==
  ASSUME ElasticTyped, JoinInv, [Next]_vars, UNCHANGED elasticVars
  PROVE  JoinInv'
<1>1. \A m : m.type \notin ServerTypes => (m \in msgs' <=> m \in msgs)
  BY ElasticStateTyped, NextKeepsMembers
<1>2. UNCHANGED ringVars
  BY RingsUnchanged
<1>3. /\ \A a, c, p : Join(a, c, p).type \notin ServerTypes
      /\ \A a, c : SeedJoin(a, c).type \notin ServerTypes
  BY MemberMessageTypes DEF ServerTypes
<1>4. \A a \in Node : MainUp(a)' = MainUp(a) /\ MainRing(a)' = MainRing(a)
  BY <1>2 DEF ringVars, MainUp, MainRing
<1> QED
  BY <1>1, <1>3, <1>4, JoinInvFrame DEF elasticVars

(* A main thread starts: no one has its count yet, the seed will hear of   *)
(* it, and all the nodes it knows.                                         *)
LEMMA JoinInvStart ==
  ASSUME ElasticTyped, JoinInv, NEW n \in Node, Start(MainThread(n))
  PROVE  JoinInv'
<1> DEFINE c    == self_join_count[n]
           ring == [x \in Node |-> IF x = n THEN c
                                   ELSE IF seed_ring[x] # Absent THEN 0 ELSE Absent]
<1> USE DEF JoinInv
<1>0. NodeOf(MainThread(n)) = n /\ MainThread(n) \in Thread
  BY MembersAreThreads
<1>1. /\ ~MainUp(n)
      /\ \A a \in Node : MainUp(a)' <=> (a = n \/ MainUp(a))
      /\ \A a \in Node : MainRing(a)' = IF a = n THEN ring ELSE MainRing(a)
  <2>1. \A a \in Node : MainThread(a) \in Thread /\ (MainThread(a) = MainThread(n) <=> a = n)
    BY MembersAreThreads
  <2> QED
    BY <1>0, <2>1 DEF Start, MainUp, MainRing, ElasticTyped, ElasticTypeOK
<1>2. /\ UNCHANGED <<seed_ring, self_join_count>>
      /\ msgs' = msgs \cup {Join(n, c, MainThread(x)) : x \in Nodes(ring) \ {n}}
                      \cup {SeedJoin(n, c)}
  BY <1>0 DEF Start, elasticVars
<1>3. /\ c \in Nat
      /\ \A a \in Node : self_join_count[a] \in Nat /\ seed_ring[a] \in Nat \cup {Absent}
      /\ \A a, b \in Node : MainRing(b)[a] \in Nat \cup {Absent}
  BY MembersAreThreads DEF ElasticTyped, ElasticTypeOK, MainRing
<1>4. \A x : Counted(n, x) => x # c
  BY <1>1, <1>3, SMTT(60) DEF Counted
<1>5. \A a \in Node : \A x : Counted(a, x) => Counted(a, x)'
  BY <1>1, <1>2 DEF Counted
<1>6. \A x : x = c => Counted(n, x)'
  BY <1>1, <1>2 DEF Counted
<1>7. ASSUME NEW a \in Node, NEW x, x = ring[a]
      PROVE  Counted(a, x)'
  <2>1. Counted(a, seed_ring[a])
    BY DEF CountsKnown
  <2>2. seed_ring[a] # Absent => Counted(a, 0)
    BY <1>3, <2>1, SMTT(60) DEF Counted
  <2>3. Counted(a, Absent)
    BY <1>3, SMTT(60) DEF Counted, Absent
  <2>4. \/ a = n /\ x = c
        \/ seed_ring[a] # Absent /\ x = 0
        \/ x = Absent
    BY <1>7
  <2> QED
    BY <1>5, <1>6, <2>2, <2>3, <2>4
<1>8. CountsKnown'
  <2>1. ASSUME NEW a \in Node, NEW b \in Node PROVE Counted(a, MainRing(b)[a])'
    <3> DEFINE x == MainRing(b)'[a]
    <3>1. CASE b = n
      <4>1. x = ring[a]
        BY <1>1, <3>1
      <4> QED
        BY <1>7, <4>1
    <3>2. CASE b # n
      <4>1. x = MainRing(b)[a]
        BY <1>1, <3>2
      <4> QED
        BY <1>5, <4>1 DEF CountsKnown
    <3> QED
      BY <3>1, <3>2
  <2>2. \A a \in Node : Counted(a, seed_ring[a])'
    BY <1>2, <1>5 DEF CountsKnown
  <2>3. ASSUME NEW m \in msgs', m.type \in {"join", "seed_join"}
        PROVE  Counted(m.node, m.count)'
    <3>1. CASE m \in msgs
      <4>1. m.node \in Node
        BY <2>3, <3>1, ElasticMessageFields DEF ElasticTyped, ElasticTypeOK
      <4> QED
        BY <1>5, <2>3, <3>1, <4>1 DEF CountsKnown
    <3>2. CASE m \notin msgs
      <4>1. (\E x : m = Join(n, c, MainThread(x))) \/ m = SeedJoin(n, c)
        BY <1>2, <2>3, <3>2
      <4>2. m.node = n /\ m.count = c
        BY <4>1, JoinFields, SeedJoinFields, SMTT(60)
      <4> QED
        BY <1>6, <4>2
    <3> QED
      BY <3>1, <3>2
  <2> QED
    BY <2>1, <2>2, <2>3 DEF CountsKnown
<1>9. ASSUME NEW a \in Node PROVE Announced(a)' <=> (a = n \/ Announced(a))
  <2> DEFINE x == SeedJoin(a, self_join_count[a])
  <2>1. Announced(a)' <=> x \in msgs'
    BY <1>2 DEF Announced
  <2>2. \A y : x # Join(n, c, y)
    BY JoinsDistinct, SMTT(60)
  <2>3. x = SeedJoin(n, c) <=> a = n
    BY JoinsDistinct
  <2> HIDE DEF x
  <2>4. x \in msgs' <=> (x \in msgs \/ x = SeedJoin(n, c))
    BY <1>2, <2>2
  <2> QED
    BY <2>1, <2>3, <2>4 DEF Announced, x
<1>10. SeedTold'
  <2>1. seed_ring[n] # c
    BY <1>4 DEF CountsKnown
  <2> QED
    BY <1>1, <1>2, <1>9, <2>1 DEF SeedTold
<1>11. SelfKnown'
  BY <1>1, <1>2 DEF SelfKnown
<1>12. PairsMeet'
  <2> SUFFICES ASSUME NEW a \in Node, NEW b \in Node, a # b, MainUp(a)', MainUp(b)'
               PROVE  /\ (Told(a, b) \/ Told(b, a) \/ Announced(a) \/ Announced(b))'
                      /\ (MainRing(a)[b] = self_join_count[b])' => Told(a, b)'
    BY DEF PairsMeet
  <2>1. CASE a # n /\ b # n
    <3>1. (Told(a, b) => Told(a, b)') /\ (Told(b, a) => Told(b, a)')
      BY <1>1, <1>2, <2>1 DEF Told
    <3> QED
      BY <1>1, <1>2, <1>9, <2>1, <3>1 DEF PairsMeet
  <2>2. CASE a = n
    <3>1. ASSUME ring[b] = self_join_count[b] PROVE Join(n, c, MainThread(b)) \in msgs'
      <4>1. ring[b] # Absent
        BY <1>3, <3>1, SMTT(60) DEF Absent
      <4> QED
        BY <1>2, <2>2, <4>1 DEF Nodes
    <3> QED
      BY <1>1, <1>2, <1>9, <2>2, <3>1 DEF Told
  <2>3. CASE b = n
    <3>1. MainRing(a)[n] # c
      BY <1>4 DEF CountsKnown
    <3> QED
      BY <1>1, <1>2, <1>9, <2>3, <3>1
  <2> QED
    BY <2>1, <2>2, <2>3
<1>13. NobodyLeaves'
  <2>1. \A m \in msgs' : \/ m \in msgs
                        \/ \E x : m = Join(n, c, MainThread(x))
                        \/ m = SeedJoin(n, c)
    BY <1>2
  <2>2. \A m \in msgs' : m \in msgs \/ m.type \in {"join", "seed_join"}
    BY <2>1, JoinFields, SeedJoinFields, SMTT(60)
  <2> QED
    BY <2>2 DEF NobodyLeaves
<1> QED
  BY <1>8, <1>10, <1>11, <1>12, <1>13

(* The seed hears of a node and tells the nodes it knows.                  *)
LEMMA JoinInvSeedJoined ==
  ASSUME ElasticTyped, JoinInv, SeedJoined
  PROVE  JoinInv'
<1> USE DEF JoinInv
<1>0. PICK m \in msgs :
        /\ m.type = "seed_join"
        /\ LET new == Inserts(seed_ring, m.node, m.count) IN
           /\ seed_ring' = [seed_ring EXCEPT ![m.node] = IF new THEN m.count ELSE @]
           /\ Handle(m, IF new THEN {Join(m.node, m.count, MainThread(x)) :
                                       x \in Nodes(seed_ring) \ {m.node}} ELSE {})
        /\ UNCHANGED <<ringVars, self_join_count>>
  BY DEF SeedJoined
<1> DEFINE n == m.node
           new == Inserts(seed_ring, n, m.count)
           out == IF new THEN {Join(n, m.count, MainThread(x)) :
                                 x \in Nodes(seed_ring) \ {n}} ELSE {}
<1>1. /\ n \in Node /\ m.count \in Nat /\ m = SeedJoin(n, m.count)
      /\ seed_ring \in [Node -> Nat \cup {Absent}]
      /\ \A a \in Node : self_join_count[a] \in Nat /\ seed_ring[a] \in Nat \cup {Absent}
  BY <1>0, ElasticMessageFields DEF ElasticTyped, ElasticTypeOK
<1>2. /\ seed_ring'[n] = IF new THEN m.count ELSE seed_ring[n]
      /\ \A a \in Node : a # n => seed_ring'[a] = seed_ring[a]
      /\ msgs' = (msgs \ {m}) \cup out
  BY <1>0, <1>1 DEF Handle
<1>3. /\ \A a \in Node : MainUp(a)' = MainUp(a) /\ MainRing(a)' = MainRing(a)
      /\ UNCHANGED self_join_count
      /\ \A a \in Node : \A x : Counted(a, x)' <=> Counted(a, x)
  BY <1>0 DEF ringVars, MainUp, MainRing, Counted
<1>4. Counted(n, m.count) /\ Counted(n, seed_ring[n])
  BY <1>0, <1>1 DEF CountsKnown
<1>5. \A x \in out : x.type = "join" /\ x.node = n /\ x.count = m.count
  <2>1. \A x \in out : \E y : x = Join(n, m.count, y)
    OBVIOUS
  <2> HIDE DEF out
  <2> QED
    BY <2>1, JoinFields, SMTT(60)
<1>6. ASSUME NEW a \in Node
      PROVE  Announced(a)' <=> (Announced(a) /\ ~(a = n /\ m.count = self_join_count[n]))
  <2> DEFINE x == SeedJoin(a, self_join_count[a])
  <2>1. Announced(a)' <=> x \in msgs'
    BY <1>3 DEF Announced
  <2>2. x.type = "seed_join"
    BY SeedJoinFields
  <2>3. x = m <=> (a = n /\ m.count = self_join_count[n])
    BY <1>1, JoinsDistinct, SMTT(60)
  <2> HIDE DEF x, out
  <2>4. x \in msgs' <=> (x \in msgs /\ x # m)
    BY <1>2, <1>5, <2>2
  <2> QED
    BY <2>1, <2>3, <2>4 DEF Announced, x
<1>7. \A a, b \in Node : Told(a, b) => Told(a, b)'
  <2>1. \A a, x, p : Join(a, x, p) # m
    BY <1>1, JoinsDistinct, SMTT(60)
  <2> HIDE DEF out
  <2> QED
    BY <1>2, <1>3, <2>1 DEF Told
<1>8. CountsKnown'
  <2>1. \A a, b \in Node : Counted(a, MainRing(b)[a])'
    BY <1>3 DEF CountsKnown
  <2>2. \A a \in Node : Counted(a, seed_ring[a])'
    BY <1>1, <1>2, <1>3, <1>4 DEF CountsKnown
  <2>3. ASSUME NEW x \in msgs', x.type \in {"join", "seed_join"}
        PROVE  Counted(x.node, x.count)'
    <3> HIDE DEF out
    <3>1. CASE x \in msgs
      <4>1. x.node \in Node
        BY <2>3, <3>1, ElasticMessageFields DEF ElasticTyped, ElasticTypeOK
      <4> QED
        BY <1>3, <2>3, <3>1, <4>1 DEF CountsKnown
    <3>2. CASE x \in out
      BY <1>1, <1>3, <1>4, <1>5, <3>2
    <3> QED
      BY <1>2, <3>1, <3>2
  <2> QED
    BY <2>1, <2>2, <2>3 DEF CountsKnown
<1>9. ASSUME m.count = self_join_count[n]
      PROVE  new /\ seed_ring'[n] = self_join_count[n]
  <2>1. Announced(n)
    BY <1>1, <1>9 DEF Announced
  <2>2. seed_ring[n] # self_join_count[n]
    BY <1>1, <2>1 DEF SeedTold
  <2>3. seed_ring[n] < self_join_count[n]
    BY <1>4, <2>2 DEF Counted
  <2>4. new
    BY <1>9, <2>3 DEF Inserts
  <2> QED
    BY <1>2, <1>9, <2>4
<1>10. ASSUME m.count # self_join_count[n]
       PROVE  seed_ring'[n] = self_join_count[n] <=> seed_ring[n] = self_join_count[n]
  <2>1. m.count < self_join_count[n]
    BY <1>4, <1>10 DEF Counted
  <2>2. CASE new
    <3>1. seed_ring[n] # self_join_count[n]
      BY <1>1, <2>1, <2>2, SMTT(60) DEF Inserts, Absent
    <3> QED
      BY <1>2, <1>10, <2>2, <3>1
  <2>3. CASE ~new
    BY <1>2, <2>3
  <2> QED
    BY <2>2, <2>3
<1> HIDE DEF new, out
<1>11. SeedTold'
  <2> SUFFICES ASSUME NEW a \in Node
               PROVE  /\ MainUp(a) => seed_ring'[a] = self_join_count[a] \/ Announced(a)'
                      /\ Announced(a)' => seed_ring'[a] # self_join_count[a]
    BY <1>3 DEF SeedTold
  <2>1. CASE a # n
    BY <1>2, <1>6, <2>1 DEF SeedTold
  <2>2. CASE a = n /\ m.count = self_join_count[n]
    BY <1>6, <1>9, <2>2
  <2>3. CASE a = n /\ m.count # self_join_count[n]
    BY <1>6, <1>10, <2>3 DEF SeedTold
  <2> QED
    BY <2>1, <2>2, <2>3
<1>12. SelfKnown'
  BY <1>3 DEF SelfKnown
<1>13. ASSUME NEW b \in Node, b # n, MainUp(b), m.count = self_join_count[n]
       PROVE  Told(n, b)' \/ Announced(b)'
  <2>1. CASE seed_ring[b] = Absent
    <3>1. seed_ring[b] # self_join_count[b]
      BY <1>1, <2>1, SMTT(60) DEF Absent
    <3>2. Announced(b)
      BY <1>13, <3>1 DEF SeedTold
    <3> QED
      BY <1>6, <1>13, <3>2
  <2>2. CASE seed_ring[b] # Absent
    <3>1. Join(n, m.count, MainThread(b)) \in out
      BY <1>9, <1>13, <2>2 DEF out, Nodes
    <3> QED
      BY <1>2, <1>3, <1>13, <3>1 DEF Told
  <2> QED
    BY <2>1, <2>2
<1>14. PairsMeet'
  <2> SUFFICES ASSUME NEW a \in Node, NEW b \in Node, a # b, MainUp(a), MainUp(b)
               PROVE  /\ Told(a, b)' \/ Told(b, a)' \/ Announced(a)' \/ Announced(b)'
                      /\ MainRing(a)[b] = self_join_count[b] => Told(a, b)'
    BY <1>3 DEF PairsMeet
  <2>1. MainRing(a)[b] = self_join_count[b] => Told(a, b)'
    BY <1>7 DEF PairsMeet
  <2>2. Told(a, b)' \/ Told(b, a)' \/ Announced(a)' \/ Announced(b)'
    BY <1>6, <1>7, <1>13 DEF PairsMeet
  <2> QED
    BY <2>1, <2>2
<1>15. NobodyLeaves'
  BY <1>2, <1>5 DEF NobodyLeaves
<1> QED
  BY <1>8, <1>11, <1>12, <1>14, <1>15

(* A worker thread hears of a node.                                        *)
LEMMA JoinInvWorker ==
  ASSUME ElasticTyped, JoinInv, NEW p \in Thread, p # MainThread(NodeOf(p)), NodeJoin(p)
  PROVE  JoinInv'
<1>1. PICK m \in Inbox(p, "join") :
        \/ Handle(m, {}) /\ UNCHANGED ringVars
        \/ /\ \E ask \in AskIn(Ring(p) \cup {m.node}, p, JoinAsked(p, m.node)) :
                Handle(m, ask \cup JoinNews(p, m))
           /\ global_hash_rings' = [global_hash_rings EXCEPT ![p][m.node] = m.count]
  BY NodeJoinCases
<1>2. m.dst = p /\ \A a \in Node : MainThread(a) # p
  BY MembersAreThreads DEF Inbox
<1>3. JoinNews(p, m) = {}
  BY DEF JoinNews, Workers
<1>4. \A m1 \in msgs' : m1 \in msgs \/ m1.type \in ServerTypes
  <2>1. JoinAsked(p, m.node) \in SUBSET Key
    BY KnownItemsTyped DEF JoinAsked
  <2>2. \A ask \in AskIn(Ring(p) \cup {m.node}, p, JoinAsked(p, m.node)) :
          \A x \in ask : x.type = "rep_request"
    BY <2>1, AskInSends, SMTT(60)
  <2> QED
    BY <1>1, <1>3, <2>2 DEF Handle, ServerTypes
<1>5. /\ \A a, b \in Node : \A c : Join(a, c, MainThread(b)) # m
      /\ \A a, c : SeedJoin(a, c) # m
  <2>1. m.type = "join"
    BY DEF Inbox
  <2>2. \A a, c, q : Join(a, c, q).dst = q
    BY MemberMessageTypes
  <2>3. \A a, c : SeedJoin(a, c).type = "seed_join"
    BY MemberMessageTypes
  <2> QED
    BY <1>2, <2>1, <2>2, <2>3, SMTT(60)
<1>6. \A x : x \in msgs /\ x # m => x \in msgs'
  BY <1>1 DEF Handle
<1>7. \A a \in Node : MainUp(a)' = MainUp(a) /\ MainRing(a)' = MainRing(a)
  <2>1. UNCHANGED status
    BY NodeJoinCases
  <2>2. \A a \in Node : global_hash_rings'[MainThread(a)] = global_hash_rings[MainThread(a)]
    BY <1>1, <1>2, MembersAreThreads DEF ringVars, ElasticTyped, ElasticTypeOK
  <2> QED
    BY <2>1, <2>2 DEF MainUp, MainRing
<1>8. UNCHANGED <<seed_ring, self_join_count>>
  BY NodeJoinCases
<1> QED
  BY <1>4, <1>5, <1>6, <1>7, <1>8, JoinInvFrame

(* A main thread hears of a node: it has its count, or will be told; and   *)
(* it tells the node of itself.                                            *)
LEMMA JoinInvNodeJoin ==
  ASSUME ElasticTyped, JoinInv, NEW b \in Node, NodeJoin(MainThread(b))
  PROVE  JoinInv'
<1> DEFINE p == MainThread(b)
<1>0. p \in Thread /\ NodeOf(p) = b /\ UNCHANGED <<status, seed_ring, self_join_count>>
  BY MembersAreThreads, NodeJoinCases
<1>1. PICK m \in Inbox(p, "join") :
        LET new == Inserts(global_hash_rings[p], m.node, m.count) IN
        \/ ~new /\ Handle(m, {}) /\ UNCHANGED ringVars
        \/ /\ new
           /\ \E ask \in AskIn(Ring(p) \cup {m.node}, p, JoinAsked(p, m.node)) :
                Handle(m, ask \cup JoinNews(p, m))
           /\ global_hash_rings' = [global_hash_rings EXCEPT ![p][m.node] = m.count]
  BY <1>0, NodeJoinCases
<1> DEFINE n   == m.node
           c   == m.count
           new == Inserts(MainRing(b), n, c)
<1>2. m \in msgs /\ m = Join(n, c, p) /\ n \in Node /\ c \in Nat
  BY <1>0, MemberReceived
<1>3. /\ \A a \in Node : MainUp(a)' = MainUp(a)
      /\ \A a, x \in Node : MainRing(x)'[a] = IF x = b /\ a = n /\ new THEN c ELSE MainRing(x)[a]
  <2>1. \A a \in Node : MainThread(a) = p <=> a = b
    BY MembersAreThreads
  <2>2. \A a \in Node : MainThread(a) \in Thread
    BY MembersAreThreads
  <2> HIDE DEF p
  <2>3. \A a, x \in Node : MainRing(x)'[a] = IF x = b /\ a = n /\ new THEN c ELSE MainRing(x)[a]
    <3>1. CASE ~new
      BY <1>1, <2>1, <3>1 DEF MainRing, ringVars
    <3>2. CASE new
      <4>1. global_hash_rings' = [global_hash_rings EXCEPT ![p][n] = c]
        BY <1>1, <2>1, <3>2 DEF MainRing
      <4> QED
        BY <1>2, <2>1, <2>2, <3>2, <4>1 DEF MainRing, ElasticTyped, ElasticTypeOK
    <3> QED
      BY <3>1, <3>2
  <2> QED
    BY <1>0, <2>3 DEF MainUp
<1>4. /\ Counted(n, c) /\ Counted(n, MainRing(b)[n])
      /\ self_join_count[n] \in Nat /\ MainRing(b)[n] \in Nat \cup {Absent}
  <2>1. m.type = "join"
    BY DEF Inbox
  <2> QED
    BY <1>0, <1>2, <2>1 DEF JoinInv, CountsKnown, ElasticTyped, ElasticTypeOK, MainRing
<1>5. new => MainRing(b)[n] # self_join_count[n]
  BY <1>2, <1>4, SMTT(60) DEF Inserts, Counted, Absent
<1>6. c = self_join_count[n] => new \/ MainRing(b)[n] = self_join_count[n]
  BY <1>2, <1>4, SMTT(60) DEF Inserts, Counted, Absent
<1> DEFINE ours == {Join(n, c, q) : q \in Thread}
                     \cup {Join(b, self_join_count[b], q) : q \in Thread}
<1>7. /\ \A x \in msgs' : x \in msgs \/ x.type \in ServerTypes \/ (new /\ x \in ours)
      /\ \A x \in msgs : x # m => x \in msgs'
      /\ new => Join(b, self_join_count[b], MainThread(n)) \in msgs'
  <2>1. CASE ~new
    BY <1>1, <2>1 DEF Handle, MainRing
  <2>2. CASE new
    <3>1. PICK ask \in AskIn(Ring(p) \cup {n}, p, JoinAsked(p, n)) :
            Handle(m, ask \cup JoinNews(p, m))
      BY <1>1, <2>2 DEF MainRing
    <3>2. JoinAsked(p, n) \in SUBSET Key
      BY <1>0, KnownItemsTyped DEF JoinAsked
    <3>3. \A x \in ask : x.type \in ServerTypes
      BY <1>0, <3>2, AskInSends, SMTT(60) DEF ServerTypes
    <3>4. \A x \in JoinNews(p, m) : x \in ours
      BY <1>0, JoinNewsMade
    <3>5. Join(b, self_join_count[b], MainThread(n)) \in JoinNews(p, m)
      BY <1>0 DEF JoinNews
    <3> HIDE DEF p, ours, new
    <3> QED
      BY <2>2, <3>1, <3>3, <3>4, <3>5 DEF Handle
  <2> QED
    BY <2>1, <2>2
<1> HIDE DEF new
<1>8. \A a \in Node : Announced(a)' = Announced(a)
  <2>1. \A a, x : SeedJoin(a, x) # m /\ SeedJoin(a, x) \notin ours
    BY <1>2, JoinsDistinct, SMTT(60)
  <2>2. \A a, x : SeedJoin(a, x).type \notin ServerTypes
    BY MemberMessageTypes DEF ServerTypes
  <2> HIDE DEF ours
  <2>3. \A a, x : SeedJoin(a, x) \in msgs' <=> SeedJoin(a, x) \in msgs
    BY <1>7, <2>1, <2>2
  <2> QED
    BY <1>0, <2>3, SMTT(60) DEF Announced
<1>9. \A x \in msgs' : \/ x \in msgs
                       \/ x.type \in ServerTypes
                       \/ x.type = "join" /\ x.node \in Node /\ Counted(x.node, x.count)
  <2>1. MainUp(b)
    BY DEF Inbox, MainUp
  <2>2. Counted(b, self_join_count[b])
    BY <2>1 DEF Counted
  <2>3. \A x \in ours : x.type = "join" /\ x.node \in Node /\ Counted(x.node, x.count)
    <3>1. \A x \in ours : \E q : x = Join(n, m.count, q) \/ x = Join(b, self_join_count[b], q)
      OBVIOUS
    <3> HIDE DEF ours
    <3> QED
      BY <1>2, <1>4, <2>2, <3>1, JoinFields, SMTT(60)
  <2> HIDE DEF ours
  <2> QED
    BY <1>7, <2>3
<1>10. \A a, x \in Node : Counted(a, MainRing(x)'[a])
  BY <1>3, <1>4 DEF JoinInv, CountsKnown
<1>11. \A a \in Node : MainUp(a) => MainRing(a)'[a] = self_join_count[a]
  BY <1>3, <1>5 DEF JoinInv, SelfKnown
<1>12. ASSUME NEW a \in Node, NEW x \in Node, Told(a, x) PROVE Told(a, x)'
  <2>1. CASE MainRing(x)[a] = self_join_count[a]
    <3>1. MainRing(x)'[a] = self_join_count[a]
      BY <1>3, <1>5, <2>1
    <3> QED
      BY <1>0, <3>1 DEF Told
  <2>2. CASE Join(a, self_join_count[a], MainThread(x)) \in msgs
    <3>1. CASE Join(a, self_join_count[a], MainThread(x)) = m
      <4>1. a = n /\ self_join_count[n] = c /\ x = b
        BY <1>2, <3>1, JoinsDistinct, MembersAreThreads, SMTT(60)
      <4>2. MainRing(x)'[a] = self_join_count[a]
        BY <1>3, <1>6, <4>1
      <4> QED
        BY <1>0, <4>2 DEF Told
    <3>2. CASE Join(a, self_join_count[a], MainThread(x)) # m
      BY <1>0, <1>7, <2>2, <3>2 DEF Told
    <3> QED
      BY <3>1, <3>2
  <2> QED
    BY <1>12, <2>1, <2>2 DEF Told
<1>13. ASSUME NEW a \in Node, NEW x \in Node, MainRing(a)'[x] = self_join_count[x]
       PROVE  MainRing(a)[x] = self_join_count[x] \/ Told(a, x)'
  <2>1. CASE a = b /\ x = n /\ new
    BY <1>0, <1>7, <2>1 DEF Told
  <2> QED
    BY <1>3, <1>13, <2>1
<1> QED
  BY <1>0, <1>3, <1>8, <1>9, <1>10, <1>11, <1>12, <1>13, JoinInvKept

(* A process dies: the count it will start with is new to everyone, and of *)
(* the other nodes nothing is forgotten.                                   *)
LEMMA JoinInvDies ==
  ASSUME ElasticTyped, JoinInv, NEW n \in Node, NEW inFlight, Dies(n, inFlight),
         \A m \in inFlight : m \in msgs \/ m.type \in ServerTypes,
         msgs \ ToNode(n) \subseteq inFlight
  PROVE  JoinInv'
<1> USE DEF JoinInv
<1>1. /\ msgs' = inFlight /\ UNCHANGED <<global_hash_rings, seed_ring>>
      /\ self_join_count'[n] = self_join_count[n] + 1
      /\ \A a \in Node : a # n => self_join_count'[a] = self_join_count[a]
      /\ \A a \in Node : MainUp(a)' <=> (a # n /\ MainUp(a))
      /\ \A a \in Node : MainRing(a)' = MainRing(a)
      /\ self_join_count[n] \in Nat
  <2>1. \A a \in Node : MainThread(a) \in Thread /\ NodeOf(MainThread(a)) = a
    BY MembersAreThreads
  <2>2. self_join_count' = [self_join_count EXCEPT ![n] = @ + 1]
    BY DEF Dies
  <2>3. \A a \in Node : MainUp(a)' <=> (a # n /\ MainUp(a))
    <3>1. status' = [p \in Thread |-> IF NodeOf(p) = n THEN "off" ELSE status[p]]
      BY DEF Dies
    <3> QED
      BY <2>1, <3>1 DEF MainUp
  <2>4. msgs' = inFlight /\ UNCHANGED <<global_hash_rings, seed_ring>>
    BY DEF Dies
  <2> QED
    BY <2>2, <2>3, <2>4 DEF MainRing, ElasticTyped, ElasticTypeOK
<1>2. \A a \in Node : \A x \in Int : Counted(a, x) => Counted(a, x)'
  <2>1. \A x \in Int : Counted(n, x) => Counted(n, x)'
    <3>1. \A x \in Int : Counted(n, x) => x < self_join_count[n] + 1
      BY <1>1, SMTT(60) DEF Counted
    <3> QED
      BY <1>1, <3>1 DEF Counted
  <2> QED
    BY <1>1, <2>1 DEF Counted
<1>3. CountsKnown'
  <2>0. Nat \subseteq Int /\ Nat \cup {Absent} \subseteq Int
    BY SMTT(60) DEF Absent
  <2>1. \A a, b \in Node : Counted(a, MainRing(b)[a])'
    <3>1. \A a, b \in Node : MainRing(b)[a] \in Int
      BY <2>0, MembersAreThreads DEF ElasticTyped, ElasticTypeOK, MainRing
    <3> QED
      BY <1>1, <1>2, <3>1 DEF CountsKnown
  <2>2. \A a \in Node : Counted(a, seed_ring[a])'
    <3>1. \A a \in Node : seed_ring[a] \in Int
      BY <2>0 DEF ElasticTyped, ElasticTypeOK
    <3> QED
      BY <1>1, <1>2, <3>1 DEF CountsKnown
  <2>3. ASSUME NEW m \in msgs', m.type \in {"join", "seed_join"}
        PROVE  Counted(m.node, m.count)'
    <3>1. m \in msgs
      BY <1>1, <2>3 DEF ServerTypes
    <3>2. m.node \in Node /\ m.count \in Int
      BY <2>0, <2>3, <3>1, ElasticMessageFields DEF ElasticTyped, ElasticTypeOK
    <3> QED
      BY <1>2, <2>3, <3>1, <3>2 DEF CountsKnown
  <2> QED
    BY <2>1, <2>2, <2>3 DEF CountsKnown
<1>4. ~Announced(n)'
  <2> DEFINE m == SeedJoin(n, self_join_count[n] + 1)
  <2>1. Announced(n)' => m \in msgs'
    BY <1>1 DEF Announced
  <2>2. m.type = "seed_join" /\ m.node = n /\ m.count = self_join_count[n] + 1
    BY SeedJoinFields
  <2> HIDE DEF m
  <2>3. ~Counted(n, self_join_count[n] + 1)
    BY <1>1, SMTT(60) DEF Counted
  <2>4. m \notin msgs
    BY <2>2, <2>3 DEF CountsKnown
  <2> QED
    BY <1>1, <2>1, <2>2, <2>4 DEF ServerTypes
<1>5. ASSUME NEW a \in Node, a # n PROVE Announced(a)' <=> Announced(a)
  <2> DEFINE m == SeedJoin(a, self_join_count[a])
  <2>1. m \notin ToNode(n)
    BY SMTT(60) DEF ToNode, SeedJoin
  <2>2. m.type \notin ServerTypes
    BY MemberMessageTypes DEF ServerTypes
  <2> HIDE DEF m
  <2>3. m \in msgs' <=> m \in msgs
    BY <1>1, <2>1, <2>2
  <2> QED
    BY <1>1, <1>5, <2>3 DEF Announced, m
<1>6. ASSUME NEW a \in Node, NEW b \in Node, a # n, b # n, Told(a, b) PROVE Told(a, b)'
  <2> DEFINE m == Join(a, self_join_count[a], MainThread(b))
  <2>1. m.dst = MainThread(b) /\ NodeOf(MainThread(b)) = b
    <3>1. m.dst = MainThread(b)
      BY JoinFields
    <3>2. NodeOf(MainThread(b)) = b
      BY MembersAreThreads
    <3> QED
      BY <3>1, <3>2
  <2> HIDE DEF m
  <2>2. m \in msgs => m \in msgs'
    BY <1>1, <1>6, <2>1 DEF ToNode
  <2> QED
    BY <1>1, <1>6, <2>2 DEF Told, m
<1>7. SeedTold'
  BY <1>1, <1>4, <1>5 DEF SeedTold
<1>8. SelfKnown'
  BY <1>1 DEF SelfKnown
<1>9. PairsMeet'
  BY <1>1, <1>5, <1>6 DEF PairsMeet
<1>10. NobodyLeaves'
  BY <1>1 DEF NobodyLeaves, ServerTypes
<1> QED
  BY <1>3, <1>7, <1>8, <1>9, <1>10

LEMMA JoinInvRedistribute ==
  ASSUME ElasticTyped, JoinInv, NEW p \in Thread, Redistribute(p)
  PROVE  JoinInv'
<1>1. \A m \in msgs \cup Batched(p) : m \in msgs \/ m.type \in ServerTypes
  BY BatchedSent DEF ServerTypes
<1>2. CASE Dies(NodeOf(p), msgs \cup Batched(p))
  BY <1>1, <1>2, JoinInvDies, MembersAreThreads
<1>3. CASE ~Dies(NodeOf(p), msgs \cup Batched(p))
  <2>1. msgs' = msgs \cup Batched(p) /\ UNCHANGED <<ringVars, seed_ring, self_join_count>>
    BY <1>3, RedistributeCases
  <2>2. \A a \in Node : MainUp(a)' = MainUp(a) /\ MainRing(a)' = MainRing(a)
    BY <2>1 DEF ringVars, MainUp, MainRing
  <2> QED
    BY <1>1, <2>1, <2>2, JoinInvFrame
<1> QED
  BY <1>2, <1>3

LEMMA JoinInvMembership ==
  ASSUME NothingLeaves, ElasticTyped, JoinInv, Membership
  PROVE  JoinInv'
<1>1. ~SeedDeparted
  BY DEF SeedDeparted, JoinInv, NobodyLeaves
<1>2. ASSUME NEW n \in Node PROVE ~MonitorRemove(n)
  BY DEF MonitorRemove, NothingLeaves
<1>3. ASSUME NEW p \in Thread PROVE ~NodeDepart(p) /\ ~SelfDeparts(p)
  BY DEF NodeDepart, SelfDeparts, Inbox, JoinInv, NobodyLeaves
<1>4. ASSUME NEW n \in Node, Crash(n) PROVE JoinInv'
  <2>1. PICK lost \in SUBSET ToNode(n) : Dies(n, msgs \ lost)
    BY <1>4 DEF Crash
  <2> QED
    BY <2>1, JoinInvDies
<1>5. ASSUME NEW p \in Thread, Start(p) PROVE JoinInv'
  <2>1. CASE p = MainThread(NodeOf(p))
    BY <1>5, <2>1, JoinInvStart, MembersAreThreads
  <2>2. CASE p # MainThread(NodeOf(p))
    <3>1. UNCHANGED <<msgs, seed_ring, self_join_count>>
      BY <1>5, <2>2 DEF Start, elasticVars
    <3>2. \A a \in Node : MainThread(a) # p
      BY <2>2, MembersAreThreads
    <3>3. \A a \in Node : MainUp(a)' = MainUp(a) /\ MainRing(a)' = MainRing(a)
      BY <1>5, <3>2, MembersAreThreads DEF Start, MainUp, MainRing, ElasticTyped, ElasticTypeOK
    <3> QED
      BY <3>1, <3>3, JoinInvFrame
  <2> QED
    BY <2>1, <2>2
<1>6. ASSUME NEW p \in Thread, NodeJoin(p) PROVE JoinInv'
  <2>1. CASE p = MainThread(NodeOf(p))
    BY <1>6, <2>1, JoinInvNodeJoin, MembersAreThreads
  <2> QED
    BY <1>6, <2>1, JoinInvWorker
<1> QED
  BY <1>1, <1>2, <1>3, <1>4, <1>5, <1>6, JoinInvSeedJoined, JoinInvRedistribute
     DEF Membership

(* When no membership message is in flight, the main threads and the seed  *)
(* agree.                                                                  *)
MainsAgree ==
  MembershipQuiet =>
    /\ \A b \in Running : /\ Ring(MainThread(b)) = Running
                          /\ \A a \in Running : MainRing(b)[a] = self_join_count[a]
    /\ Nodes(seed_ring) = Running

LEMMA JoinInvAgrees ==
  ASSUME ElasticTyped, JoinInv
  PROVE  MainsAgree
<1> SUFFICES ASSUME MembershipQuiet
             PROVE  /\ \A b \in Running : /\ Ring(MainThread(b)) = Running
                                          /\ \A a \in Running :
                                               MainRing(b)[a] = self_join_count[a]
                    /\ Nodes(seed_ring) = Running
  BY DEF MainsAgree
<1>1. /\ \A a \in Running : a \in Node /\ MainUp(a)
      /\ \A a \in Node : MainUp(a) => a \in Running
      /\ \A a \in Node : self_join_count[a] > 0 => a \in Running
  <2>1. 0 \in Tid
    BY NodeAssumption
  <2>2. /\ \A a \in Running : a \in Node /\ MainUp(a)
        /\ \A a \in Node : MainUp(a) => a \in Running
    BY <2>1 DEF Running, MembershipQuiet, MainUp, MainThread
  <2>3. \A a \in Node : self_join_count[a] > 0 => a \in Running
    BY <2>1 DEF MembershipQuiet
  <2> QED
    BY <2>2, <2>3
<1>2. /\ \A a \in Node : self_join_count[a] \in Nat /\ seed_ring[a] \in Nat \cup {Absent}
      /\ \A a, b \in Node : MainRing(b)[a] \in Nat \cup {Absent}
  BY MembersAreThreads DEF ElasticTyped, ElasticTypeOK, MainRing
<1>3. ASSUME NEW a \in Node, NEW x \in Nat, Counted(a, x) PROVE a \in Running
  <2>1. x < self_join_count[a] => self_join_count[a] > 0
    BY <1>2, SMTT(60)
  <2> QED
    BY <1>1, <1>3, <2>1 DEF Counted
<1>4. \A a \in Node : ~Announced(a)
  <2>1. \A a, c : SeedJoin(a, c).type = "seed_join"
    BY MemberMessageTypes
  <2> QED
    BY <2>1 DEF Announced, MembershipQuiet
<1>5. \A a, b \in Running : Told(a, b) => MainRing(b)[a] = self_join_count[a]
  BY <1>1, JoinFields, SMTT(60) DEF Told, MembershipQuiet, MainUp
<1>6. ASSUME NEW a \in Running, NEW b \in Running PROVE MainRing(b)[a] = self_join_count[a]
  <2>1. CASE a = b
    BY <1>1, <2>1 DEF JoinInv, SelfKnown
  <2>2. CASE a # b
    <3>1. Told(a, b) \/ Told(b, a)
      BY <1>1, <1>4, <2>2 DEF JoinInv, PairsMeet
    <3>2. CASE Told(b, a)
      <4>1. MainRing(a)[b] = self_join_count[b]
        BY <1>5, <3>2
      <4>2. Told(a, b)
        BY <1>1, <2>2, <4>1 DEF JoinInv, PairsMeet
      <4> QED
        BY <1>5, <4>2
    <3> QED
      BY <1>5, <3>1, <3>2
  <2> QED
    BY <2>1, <2>2
<1>7. \A x \in Nat : x # Absent
  BY SMTT(60) DEF Absent
<1>8. ASSUME NEW b \in Running PROVE Ring(MainThread(b)) = Running
  <2>1. ASSUME NEW a \in Node, MainRing(b)[a] # Absent PROVE a \in Running
    BY <1>1, <1>2, <1>3, <2>1 DEF JoinInv, CountsKnown
  <2>2. \A a \in Running : MainRing(b)[a] # Absent
    BY <1>1, <1>2, <1>6, <1>7
  <2> QED
    BY <1>1, <2>1, <2>2 DEF Ring, MainRing
<1>9. Nodes(seed_ring) = Running
  <2>1. ASSUME NEW a \in Node, seed_ring[a] # Absent PROVE a \in Running
    BY <1>2, <1>3, <2>1 DEF JoinInv, CountsKnown
  <2>2. \A a \in Running : seed_ring[a] # Absent
    BY <1>1, <1>2, <1>4, <1>7 DEF JoinInv, SeedTold
  <2> QED
    BY <1>1, <2>1, <2>2 DEF Nodes
<1> QED
  BY <1>6, <1>8, <1>9

(* The main threads of the nodes and the routing node find each other:     *)
(* while no node is told to leave, whatever joins, crashes and restarts,   *)
(* when no membership message is in flight each knows exactly the running  *)
(* nodes, the main threads with their restart counts.                      *)
THEOREM MainsFindEachOther ==
  ASSUME NothingLeaves
  PROVE  ElasticSpec => []MainsAgree
<1> DEFINE Inv == ElasticTyped /\ JoinInv
<1>1. ElasticInit => Inv
  BY ElasticTypedInit, JoinInvInit
<1>2. Inv /\ [ElasticNext]_allVars => Inv'
  BY ElasticTypedStep, ElasticSteps, JoinInvMembership, JoinInvNext
<1>3. Inv => MainsAgree
  BY JoinInvAgrees
<1> QED
  BY <1>1, <1>2, <1>3, PTL DEF ElasticSpec

SingleThread == Tid = {0}

LEMMA MainThreadsOnly ==
  ASSUME SingleThread, NEW p \in Thread, status[p] = "up"
  PROVE  p = MainThread(NodeOf(p)) /\ NodeOf(p) \in Running
  BY SMTT(60) DEF SingleThread, Thread, MainThread, NodeOf, Running

(* JoinCountsAgree: every restart is noticed everywhere, for any number of *)
(* nodes that join, crash and restart any number of times, as long as none *)
(* is told to leave and each runs one thread.                              *)
THEOREM RestartsNoticed ==
  ASSUME NothingLeaves, SingleThread
  PROVE  ElasticSpec => []JoinCountsAgree
<1>1. MainsAgree => JoinCountsAgree
  BY MainThreadsOnly DEF MainsAgree, JoinCountsAgree, MainRing
<1> QED
  BY <1>1, MainsFindEachOther, PTL

(* RingsConsistent: the running nodes and the routing node know exactly    *)
(* the running nodes, under the same assumptions.                          *)
THEOREM RingsConverge ==
  ASSUME NothingLeaves, SingleThread
  PROVE  ElasticSpec => []RingsConsistent
<1>1. MainsAgree => RingsConsistent
  BY MainThreadsOnly DEF MainsAgree, RingsConsistent
<1> QED
  BY <1>1, MainsFindEachOther, PTL

------------------------------------------------------------------------------
(* Nodes that are told to leave one after another are forgotten by those   *)
(* that stay, with any number of threads, as long as none is added and     *)
(* none crashes.                                                           *)
NothingStarts == MayStart = {} /\ NoCrashes

(* Thread p has taken node a out of its ring or will: it is told of the    *)
(* departure, or its main thread is, which passes that on, or p itself has *)
(* been told to end.                                                       *)
Forgets(p, a) ==
  \/ global_hash_rings[p][a] = Absent
  \/ Depart(a, p) \in msgs
  \/ MainUp(NodeOf(p)) /\ Depart(a, MainThread(NodeOf(p))) \in msgs
  \/ SelfDepart(p) \in msgs

RingsFollow ==
  \A p \in Thread : status[p] = "up" => \A a \in Node :
    IF MainUp(a) THEN global_hash_rings[p][a] # Absent ELSE Forgets(p, a)

WorkersFollow ==
  \A p \in Thread : status[p] = "up" => MainUp(NodeOf(p)) \/ SelfDepart(p) \in msgs

SeedFollows ==
  \A a \in Node : IF MainUp(a) THEN seed_ring[a] # Absent
                  ELSE seed_ring[a] = Absent \/ SeedDepart(a) \in msgs

NobodyJoins ==
  /\ \A m \in msgs : m.type \notin {"join", "seed_join"}
  /\ \A p \in Thread : join_gossip_map[p] = {}

DepartsTrue ==
  \A m \in msgs : m.type \in {"depart", "seed_depart"} => ~MainUp(m.node)

LeaveInv == RingsFollow /\ WorkersFollow /\ SeedFollows /\ NobodyJoins /\ DepartsTrue

LEMMA LeaveInvInit == ElasticInit => LeaveInv
<1> SUFFICES ASSUME ElasticInit PROVE LeaveInv
  OBVIOUS
<1>1. /\ \A p \in Thread : status[p] = "up" <=> NodeOf(p) \in InitNodes
      /\ \A a \in Node : MainUp(a) <=> a \in InitNodes
      /\ \A p \in Thread : \A a \in Node :
           global_hash_rings[p][a] = IF a \in InitNodes THEN 0 ELSE Absent
      /\ \A a \in Node : seed_ring[a] = IF a \in InitNodes THEN 0 ELSE Absent
      /\ \A p \in Thread : join_gossip_map[p] = {}
      /\ msgs = {}
  BY MembersAreThreads, SMTT(60) DEF ElasticInit, Init, MainUp, FullRing
<1>2. 0 # Absent
  BY SMTT(60) DEF Absent
<1> QED
  BY <1>1, <1>2, MembersAreThreads, SMTT(60) DEF LeaveInv, RingsFollow, Forgets, WorkersFollow,
     SeedFollows, NobodyJoins, DepartsTrue

(* The steps that are left when nothing joins.                             *)
LEMMA LeaveSteps ==
  ASSUME NothingStarts, ElasticTyped, NobodyJoins, [ElasticNext]_allVars
  PROVE  \/ [Next]_vars /\ UNCHANGED elasticVars
         \/ SeedDeparted
         \/ \E n \in Node : MonitorRemove(n)
         \/ \E p \in Thread : NodeDepart(p) \/ SelfDeparts(p)
<1>1. ~SeedJoined
  BY DEF SeedJoined, NobodyJoins
<1>2. ASSUME NEW n \in Node PROVE ~Crash(n)
  <2>1. self_join_count[n] \in Nat /\ MaxRestarts[n] = 0
    BY DEF ElasticTyped, ElasticTypeOK, NothingStarts, NoCrashes
  <2> QED
    BY <2>1, SMTT(60) DEF Crash
<1>3. ASSUME NEW p \in Thread PROVE ~Start(p)
  <2>1. NodeOf(p) \in Node
    BY MembersAreThreads
  <2>2. MaxRestarts[NodeOf(p)] = 0 /\ NodeOf(p) \notin MayStart
    BY <2>1 DEF NothingStarts, NoCrashes
  <2>3. 1 .. 0 = {}
    BY SMTT(60)
  <2> QED
    BY <2>2, <2>3 DEF Start
<1>4. ASSUME NEW p \in Thread PROVE ~NodeJoin(p) /\ ~Redistribute(p)
  BY DEF NodeJoin, Redistribute, Inbox, NobodyJoins
<1> QED
  BY <1>1, <1>2, <1>3, <1>4, ElasticSteps DEF Membership

LEMMA DepartTypes ==
  /\ \A a : /\ SeedDepart(a).type = "seed_depart" /\ SeedDepart(a).node = a
            /\ SeedDepart(a).type \notin ServerTypes
  /\ \A a, p : /\ Depart(a, p).type = "depart" /\ Depart(a, p).node = a
               /\ Depart(a, p).dst = p /\ Depart(a, p).type \notin ServerTypes
  /\ \A p : /\ SelfDepart(p).type = "self_depart" /\ SelfDepart(p).dst = p
            /\ SelfDepart(p).type \notin ServerTypes
  BY SMTT(60) DEF SeedDepart, Depart, SelfDepart, ServerTypes

(* A step that changes no ring and receives no news of a departure.        *)
LEMMA LeaveInvFrame ==
  ASSUME LeaveInv, UNCHANGED <<ringVars, seed_ring, join_gossip_map>>,
         \A m \in msgs' : m \in msgs \/ m.type \in ServerTypes \/ m.type = "self_depart",
         \A a : SeedDepart(a) \in msgs => SeedDepart(a) \in msgs',
         \A a, p : Depart(a, p) \in msgs => Depart(a, p) \in msgs',
         \A p : SelfDepart(p) \in msgs => SelfDepart(p) \in msgs'
  PROVE  LeaveInv'
<1> USE DEF LeaveInv
<1>1. \A a : MainUp(a)' = MainUp(a)
  BY DEF ringVars, MainUp
<1>2. RingsFollow' /\ WorkersFollow' /\ SeedFollows'
  <2>1. \A p \in Thread, a \in Node : Forgets(p, a) => Forgets(p, a)'
    BY <1>1 DEF ringVars, Forgets
  <2> QED
    BY <1>1, <2>1 DEF ringVars, RingsFollow, WorkersFollow, SeedFollows
<1>3. NobodyJoins' /\ DepartsTrue'
  BY <1>1 DEF NobodyJoins, DepartsTrue, ServerTypes
<1> QED
  BY <1>2, <1>3

LEMMA LeaveInvNext ==
  ASSUME ElasticTyped, LeaveInv, [Next]_vars, UNCHANGED elasticVars
  PROVE  LeaveInv'
<1>1. \A m : m.type \notin ServerTypes => (m \in msgs' <=> m \in msgs)
  BY ElasticStateTyped, NextKeepsMembers
<1>2. UNCHANGED <<ringVars, seed_ring, join_gossip_map>>
  BY RingsUnchanged DEF elasticVars
<1> QED
  BY <1>1, <1>2, DepartTypes, LeaveInvFrame

LEMMA LeaveInvMonitor ==
  ASSUME LeaveInv, NEW n \in Node, MonitorRemove(n)
  PROVE  LeaveInv'
  BY DepartTypes, LeaveInvFrame DEF MonitorRemove

LEMMA LeaveInvSeed ==
  ASSUME ElasticTyped, LeaveInv, SeedDeparted
  PROVE  LeaveInv'
<1> USE DEF LeaveInv
<1>1. PICK m \in msgs :
        /\ m.type = "seed_depart"
        /\ seed_ring' = [seed_ring EXCEPT ![m.node] = Absent]
        /\ Handle(m, {})
        /\ UNCHANGED <<ringVars, join_gossip_map>>
  BY DEF SeedDeparted
<1>2. m.node \in Node /\ m = SeedDepart(m.node) /\ ~MainUp(m.node)
  BY <1>1, ElasticMessageFields DEF ElasticTyped, ElasticTypeOK, DepartsTrue
<1>3. /\ \A a, p : Depart(a, p) # m
      /\ \A p : SelfDepart(p) # m
      /\ \A a : a # m.node => SeedDepart(a) # m
  <2>1. \A a, p : Depart(a, p).type # "seed_depart" /\ SelfDepart(p).type # "seed_depart"
    BY DepartTypes
  <2>2. \A a : SeedDepart(a).node = a
    BY DepartTypes
  <2> QED
    BY <1>1, <2>1, <2>2
<1>4. msgs' = msgs \ {m}
  BY <1>1 DEF Handle
<1>5. \A a : MainUp(a)' = MainUp(a)
  BY <1>1 DEF ringVars, MainUp
<1>6. RingsFollow' /\ WorkersFollow'
  <2>1. \A p \in Thread, a \in Node : Forgets(p, a) => Forgets(p, a)'
    BY <1>1, <1>3, <1>4, <1>5 DEF ringVars, Forgets
  <2> QED
    BY <1>1, <1>3, <1>4, <1>5, <2>1 DEF ringVars, RingsFollow, WorkersFollow
<1>7. SeedFollows'
  <2>1. seed_ring \in [Node -> Nat \cup {Absent}]
    BY DEF ElasticTyped, ElasticTypeOK
  <2> QED
    BY <1>1, <1>2, <1>3, <1>4, <1>5, <2>1 DEF SeedFollows
<1>8. NobodyJoins' /\ DepartsTrue'
  BY <1>1, <1>4, <1>5 DEF NobodyJoins, DepartsTrue
<1> QED
  BY <1>6, <1>7, <1>8

(* A thread takes out a node that has left; a main thread passes it on.    *)
LEMMA LeaveInvNodeDepart ==
  ASSUME ElasticTyped, LeaveInv, NEW p \in Thread, NodeDepart(p)
  PROVE  LeaveInv'
<1> USE DEF LeaveInv
<1>1. PICK m \in Inbox(p, "depart") :
        /\ global_hash_rings' = [global_hash_rings EXCEPT ![p][m.node] = Absent]
        /\ Handle(m, {Depart(m.node, w) : w \in Workers(p)})
        /\ UNCHANGED <<status, elasticVars>>
  BY DEF NodeDepart
<1> DEFINE n == m.node
<1>2. n \in Node /\ m \in msgs /\ m = Depart(n, p) /\ ~MainUp(n)
  BY ElasticMessageFields DEF ElasticTyped, ElasticTypeOK, DepartsTrue, Inbox
<1> HIDE DEF n
<1>3. /\ \A a, q : Depart(a, q) = m => a = n /\ q = p
      /\ \A a : SelfDepart(a) # m /\ SeedDepart(a) # m
  BY <1>2, DepartsDistinct, DepartsApart
<1>4. /\ \A x \in msgs : x # m => x \in msgs'
      /\ \A x \in msgs' : x \in msgs \/ \E w \in Workers(p) : x = Depart(n, w)
      /\ \A w \in Workers(p) : Depart(n, w) \in msgs'
  BY <1>1 DEF Handle, n
<1>5. \A a : MainUp(a)' = MainUp(a)
  BY <1>1 DEF MainUp
<1>6. \A q \in Thread, a \in Node :
        global_hash_rings'[q][a] = IF q = p /\ a = n THEN Absent ELSE global_hash_rings[q][a]
  <2>1. global_hash_rings \in [Thread -> [Node -> Nat \cup {Absent}]]
    BY DEF ElasticTyped, ElasticTypeOK
  <2> QED
    BY <1>1, <1>2, <2>1 DEF n
<1>7. \A q \in Thread, a \in Node : Forgets(q, a) => Forgets(q, a)'
  <2> SUFFICES ASSUME NEW q \in Thread, NEW a \in Node, Forgets(q, a) PROVE Forgets(q, a)'
    OBVIOUS
  <2>1. CASE global_hash_rings[q][a] = Absent
    BY <1>6, <2>1 DEF Forgets
  <2>2. CASE Depart(a, q) \in msgs
    <3>1. CASE Depart(a, q) = m
      <4>1. q = p /\ a = n
        BY <1>3, <3>1
      <4>2. global_hash_rings'[q][a] = Absent
        BY <1>6, <4>1
      <4> QED
        BY <4>2 DEF Forgets
    <3> QED
      BY <1>4, <2>2, <3>1 DEF Forgets
  <2>3. CASE MainUp(NodeOf(q)) /\ Depart(a, MainThread(NodeOf(q))) \in msgs
    <3>1. CASE Depart(a, MainThread(NodeOf(q))) = m
      <4>1. a = n /\ p = MainThread(NodeOf(q))
        BY <1>3, <3>1
      <4>2. q = p \/ q \in Workers(p)
        BY <4>1, Colleagues
      <4> QED
        BY <1>4, <1>6, <4>1, <4>2 DEF Forgets
    <3> QED
      BY <1>4, <1>5, <2>3, <3>1 DEF Forgets
  <2>4. CASE SelfDepart(q) \in msgs
    BY <1>3, <1>4, <2>4 DEF Forgets
  <2> QED
    BY <2>1, <2>2, <2>3, <2>4 DEF Forgets
<1>8. RingsFollow' /\ WorkersFollow' /\ SeedFollows'
  <2>1. UNCHANGED <<status, seed_ring>>
    BY <1>1 DEF elasticVars
  <2>2. RingsFollow'
    BY <1>2, <1>5, <1>6, <1>7, <2>1 DEF RingsFollow
  <2> QED
    BY <1>3, <1>4, <1>5, <2>1, <2>2 DEF WorkersFollow, SeedFollows
<1>9. NobodyJoins' /\ DepartsTrue'
  <2>1. \A x \in msgs' : x \in msgs \/ (x.type = "depart" /\ x.node = n)
    <3>1. \A w : Depart(n, w).type = "depart" /\ Depart(n, w).node = n
      BY DepartFields
    <3> QED
      BY <1>4, <3>1
  <2>2. UNCHANGED join_gossip_map
    BY <1>1 DEF elasticVars
  <2> QED
    BY <1>2, <1>5, <2>1, <2>2 DEF NobodyJoins, DepartsTrue
<1> QED
  BY <1>8, <1>9

(* A thread ends.  The main thread tells all the nodes it knows, which are *)
(* at least those that run, the seed and its workers, which end too.       *)
LEMMA LeaveInvSelf ==
  ASSUME ElasticTyped, LeaveInv, NEW p \in Thread, SelfDeparts(p)
  PROVE  LeaveInv'
<1> USE DEF LeaveInv
<1> DEFINE n == NodeOf(p)
<1>0. n \in Node /\ \A q \in Thread : NodeOf(q) \in Node
  BY MembersAreThreads
<1>1. PICK m \in Inbox(p, "self_depart") : \E rest :
        Handle(m, rest \cup DepartNews(p)) /\ \A x \in rest : x \in Message
  BY SelfDepartsCases
<1>2. m = SelfDepart(p) /\ status[p] = "up"
  BY ElasticMessageFields DEF ElasticTyped, ElasticTypeOK, Inbox
<1>3. /\ \A a, q : Depart(a, q) # m
      /\ \A a : SeedDepart(a) # m
      /\ \A q : q # p => SelfDepart(q) # m
  BY <1>2, DepartsDistinct, DepartsApart
<1>4. /\ \A x \in msgs : x # m => x \in msgs'
      /\ \A x \in DepartNews(p) : x \in msgs'
      /\ \A x \in msgs' : x \in msgs \/ x.type \in ServerTypes \/ x \in DepartNews(p)
  BY <1>1, ServerMessageTypes DEF Handle
<1>5. /\ \A q \in Thread : status'[q] = IF q = p THEN "left" ELSE status[q]
      /\ \A q \in Thread : q # p => global_hash_rings'[q] = global_hash_rings[q]
      /\ UNCHANGED <<seed_ring, join_gossip_map>>
  <2>1. status \in [Thread -> {"off", "up", "left"}]
        /\ global_hash_rings \in [Thread -> [Node -> Nat \cup {Absent}]]
    BY DEF ElasticTyped, ElasticTypeOK
  <2>2. UNCHANGED <<seed_ring, join_gossip_map>>
    BY SelfDepartsCases
  <2> QED
    BY <2>1, <2>2, SelfDepartsRings
<1>6. \A a \in Node : MainUp(a)' <=> MainUp(a) /\ MainThread(a) # p
  BY <1>2, <1>5, MembersAreThreads DEF MainUp
<1>7. ASSUME p = MainThread(n)
      PROVE  /\ \A b \in Node : b # n /\ MainUp(b) => Depart(n, MainThread(b)) \in msgs'
             /\ SeedDepart(n) \in msgs'
             /\ \A q \in Thread : q # p /\ NodeOf(q) = n => SelfDepart(q) \in msgs'
  <2>1. \A b \in Node : MainUp(b) => b \in Ring(p)
    BY <1>2 DEF RingsFollow, Ring
  <2>2. \A q \in Thread : q # p /\ NodeOf(q) = n => q \in Workers(p)
    BY <1>7, Colleagues
  <2> QED
    BY <1>4, <1>7, <2>1, <2>2 DEF DepartNews
<1>8. \A a \in Node : MainThread(a) = p => a = n
  BY MembersAreThreads
<1> HIDE DEF n
<1>9. WorkersFollow'
  <2> SUFFICES ASSUME NEW q \in Thread, q # p, status[q] = "up"
               PROVE  MainUp(NodeOf(q))' \/ SelfDepart(q) \in msgs'
    BY <1>5 DEF WorkersFollow
  <2>1. CASE SelfDepart(q) \in msgs
    BY <1>3, <1>4, <2>1
  <2>2. CASE MainUp(NodeOf(q))
    BY <1>0, <1>6, <1>7, <1>8, <2>2
  <2> QED
    BY <2>1, <2>2 DEF WorkersFollow
<1>10. RingsFollow'
  <2> SUFFICES ASSUME NEW q \in Thread, q # p, status[q] = "up", NEW a \in Node
               PROVE  IF MainUp(a)' THEN global_hash_rings[q][a] # Absent ELSE Forgets(q, a)'
    BY <1>5 DEF RingsFollow
  <2>1. CASE MainUp(a)'
    BY <1>6, <2>1 DEF RingsFollow
  <2>2. CASE ~MainUp(a)' /\ SelfDepart(q) \in msgs'
    BY <2>2 DEF Forgets
  <2>3. CASE ~MainUp(a)' /\ SelfDepart(q) \notin msgs'
    <3>1. MainUp(NodeOf(q))' /\ SelfDepart(q) \notin msgs
      BY <1>3, <1>4, <1>5, <1>9, <2>3 DEF WorkersFollow
    <3>2. CASE MainUp(a)
      <4>1. p = MainThread(n) /\ a = n
        BY <1>6, <1>8, <2>3, <3>2
      <4>2. MainUp(NodeOf(q)) /\ NodeOf(q) # n
        BY <1>0, <1>6, <3>1, <4>1
      <4>3. Depart(a, MainThread(NodeOf(q))) \in msgs'
        BY <1>0, <1>7, <4>1, <4>2
      <4> QED
        BY <2>3, <3>1, <4>3 DEF Forgets
    <3>3. CASE ~MainUp(a)
      <4>1. \/ global_hash_rings[q][a] = Absent
            \/ Depart(a, q) \in msgs
            \/ Depart(a, MainThread(NodeOf(q))) \in msgs
        BY <3>1, <3>3 DEF RingsFollow, Forgets
      <4>2. \/ global_hash_rings'[q][a] = Absent
            \/ Depart(a, q) \in msgs'
            \/ Depart(a, MainThread(NodeOf(q))) \in msgs'
        BY <1>3, <1>4, <1>5, <4>1
      <4> QED
        BY <2>3, <3>1, <4>2 DEF Forgets
    <3> QED
      BY <2>3, <3>2, <3>3
  <2> QED
    BY <2>1, <2>2, <2>3
<1>11. SeedFollows'
  BY <1>3, <1>4, <1>5, <1>6, <1>7, <1>8 DEF SeedFollows
<1>12. NobodyJoins' /\ DepartsTrue'
  <2>1. \A x \in DepartNews(p) : /\ x.type \notin {"join", "seed_join"}
                                 /\ x.type \in {"depart", "seed_depart"}
                                      => x.node = n /\ p = MainThread(n)
    <3>1. \A x \in DepartNews(p) : p = MainThread(n)
      BY DEF DepartNews, n
    <3> QED
      BY <3>1, DepartNewsMade, DepartTypes, SMTT(60) DEF n
  <2>2. ASSUME p = MainThread(n) PROVE ~MainUp(n)'
    BY <1>0, <1>6, <2>2
  <2>3. \A x \in msgs : x.type \in {"depart", "seed_depart"} => x.node \in Node
    BY ElasticMessageFields DEF ElasticTyped, ElasticTypeOK
  <2>4. NobodyJoins'
    BY <1>4, <1>5, <2>1 DEF NobodyJoins, ServerTypes
  <2>5. DepartsTrue'
    BY <1>4, <1>6, <2>1, <2>2, <2>3 DEF DepartsTrue, ServerTypes
  <2> QED
    BY <2>4, <2>5
<1> QED
  BY <1>9, <1>10, <1>11, <1>12

LEMMA LeaveInvStep ==
  ASSUME NothingStarts, ElasticTyped, LeaveInv, [ElasticNext]_allVars
  PROVE  LeaveInv'
  BY LeaveSteps, LeaveInvNext, LeaveInvSeed, LeaveInvMonitor, LeaveInvNodeDepart,
     LeaveInvSelf DEF LeaveInv

LEMMA LeaveInvAgrees ==
  ASSUME LeaveInv
  PROVE  RingsConsistent
<1> SUFFICES ASSUME MembershipQuiet
             PROVE  /\ \A p \in Thread : status[p] = "up" => Ring(p) = Running
                    /\ Nodes(seed_ring) = Running
  BY DEF RingsConsistent
<1>1. Running \subseteq Node /\ \A a \in Node : MainUp(a) <=> a \in Running
  <2>1. 0 \in Tid
    BY NodeAssumption
  <2> QED
    BY <2>1 DEF Running, MembershipQuiet, MainUp, MainThread
<1>2. ASSUME NEW p \in Thread, status[p] = "up", NEW a \in Node
      PROVE  global_hash_rings[p][a] # Absent <=> MainUp(a)
  <2>1. \A q : status[q] = "up" => Depart(a, q) \notin msgs /\ SelfDepart(q) \notin msgs
    <3> SUFFICES ASSUME NEW q, status[q] = "up"
                 PROVE  Depart(a, q) \notin msgs /\ SelfDepart(q) \notin msgs
      OBVIOUS
    <3>1. Depart(a, q) \notin msgs
      BY DepartFields, SMTT(60) DEF MembershipQuiet
    <3>2. SelfDepart(q) \notin msgs
      BY SelfDepartFields DEF MembershipQuiet
    <3> QED
      BY <3>1, <3>2
  <2>2. MainUp(NodeOf(p)) => Depart(a, MainThread(NodeOf(p))) \notin msgs
    BY <2>1 DEF MainUp
  <2> QED
    BY <1>2, <2>1, <2>2 DEF LeaveInv, RingsFollow, Forgets
<1>3. \A a \in Node : seed_ring[a] # Absent <=> MainUp(a)
  <2>1. \A a : SeedDepart(a) \notin msgs
    BY DepartTypes DEF MembershipQuiet
  <2> QED
    BY <2>1 DEF LeaveInv, SeedFollows
<1> QED
  BY <1>1, <1>2, <1>3 DEF Ring, Nodes

(* RingsConsistent when nodes leave: with any number of threads per node,  *)
(* when no membership message is in flight, every thread that runs and the *)
(* routing node have forgotten the nodes that were told to leave, and know *)
(* all the others, as long as none is added and none crashes.              *)
THEOREM LeaversForgotten ==
  ASSUME NothingStarts
  PROVE  ElasticSpec => []RingsConsistent
<1> DEFINE Inv == ElasticTyped /\ LeaveInv
<1>1. ElasticInit => Inv
  BY ElasticTypedInit, LeaveInvInit
<1>2. Inv /\ [ElasticNext]_allVars => Inv'
  BY ElasticTypedStep, LeaveInvStep
<1>3. Inv => RingsConsistent
  BY LeaveInvAgrees
<1> QED
  BY <1>1, <1>2, <1>3, PTL DEF ElasticSpec
==============================================================================
