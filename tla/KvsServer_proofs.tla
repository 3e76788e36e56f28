-------------------------- MODULE KvsServer_proofs ---------------------------
(* The types of KvsServer, when a thread stores and drops a key, that what *)
(* waits for a replication factor is not forgotten, that the values of a   *)
(* key are of one lattice type, that no accepted PUT is lost and that      *)
(* gossip misses no owner, for every number of nodes, threads, tiers, keys *)
(* and requests and every sequence of replication factors.                 *)
EXTENDS KvsServer, FiniteSetTheorems, WellFoundedInduction, TLAPS

(* The provers tried on a leaf that names none, with the seconds they get. *)
USE ZenonT(60), SMTT(60)

------------------------------------------------------------------------------
(* The types of the variables of KvsServer when the servers may also send  *)
(* messages of other types to each other, as those of KvsElastic do; and   *)
(* what a step of KvsServer then does.                                     *)
ServerTypes == {"request", "gossip", "meta_gossip", "rep_request", "rep_response",
                "rep_change", "meta_put", "meta_ack"}
VarsTyped ==
  /\ status \in [Thread -> {"off", "up", "left"}]
  /\ global_hash_rings \in [Thread -> [Node -> Int]]
  /\ key_replication_map \in [Thread -> [Key -> Version \cup {Unknown}]]
  /\ stored \in [Thread -> SUBSET Put]
  /\ metadata \in [Thread -> [Key -> Version]]
  /\ local_changeset \in [Thread -> SUBSET Item]
  /\ pending_requests \in [Thread -> SUBSET Request]
  /\ pending_gossip \in [Thread -> SUBSET Put]
  /\ sent \in [Request -> Nat]
  /\ responses \in [Request -> SUBSET (0..2)]
  /\ accepted \subseteq Put
  /\ monitor \in [Key -> [written : Version, waiting : Version, current : Version]]
MsgsTyped == \A m \in msgs : m.type \in ServerTypes => m \in Message
StateTyped == VarsTyped /\ MsgsTyped

Sends == \A m \in msgs' : m \in msgs \/ m \in Message
StepTyped == VarsTyped' /\ Sends

LEMMA StepKeepsTypes ==
  /\ TypeOK <=> VarsTyped /\ \A m \in msgs : m \in Message
  /\ TypeOK => StateTyped
  /\ StateTyped /\ StepTyped => StateTyped'
  /\ TypeOK /\ StepTyped => TypeOK'
  BY DEF TypeOK, VarsTyped, MsgsTyped, StateTyped, Sends, StepTyped

------------------------------------------------------------------------------
(* Messages.                                                               *)

(* The fields of a message of each type.                                   *)
LEMMA MessageFields ==
  ASSUME NEW m \in Message
  PROVE  /\ m.type = "request" => m.req \in Request /\ m.dst \in Thread
         /\ m.type = "gossip" =>
              m.key \in Key /\ m.val \in SUBSET Put /\ m.dst \in Thread
         /\ m.type = "meta_gossip" =>
              m.key \in Key /\ m.version \in Version /\ m.dst \in Thread
         /\ m.type = "rep_request" =>
              m.key \in Key /\ m.from \in Thread /\ m.dst \in Thread
         /\ m.type = "rep_response" =>
              /\ m.key \in Key /\ m.version \in Version
              /\ m.error \in 0..2 /\ m.dst \in Thread
         /\ m.type = "rep_change" =>
              m.key \in Key /\ m.version \in Version /\ m.dst \in Thread
         /\ m.type = "meta_put" =>
              m.key \in Key /\ m.version \in Version /\ m.dst \in Thread
         /\ m.type = "meta_ack" =>
              m.key \in Key /\ m.version \in Version /\ m.error \in 0..2
  BY DEF Message

(* The constructors make messages.                                         *)
LEMMA MessagesMade ==
  /\ \A r \in Request, p \in Thread : UserRequest(r, p) \in Message
  /\ \A k \in Key, val \in SUBSET Put, p \in Thread : Gossip(k, val, p) \in Message
  /\ \A k \in Key, v \in Version, p \in Thread :
       /\ MetaGossip(k, v, p) \in Message
       /\ RepChange(k, v, p) \in Message
       /\ MetaPut(k, v, p) \in Message
  /\ \A k \in Key, from \in Thread, p \in Thread : RepRequest(k, from, p) \in Message
  /\ \A k \in Key, err \in 0..2, v \in Version, p \in Thread :
       /\ RepResponse(k, err, v, p) \in Message
       /\ MetaAck(k, v, err) \in Message
  BY SMTT(60) DEF Message, UserRequest, Gossip, MetaGossip, RepChange, MetaPut,
         RepRequest, RepResponse, MetaAck

(* What the constructors put in a message.                                 *)
LEMMA MessageTypes ==
  /\ \A r, p : UserRequest(r, p).type = "request"
  /\ \A k, v, p : /\ MetaGossip(k, v, p).type = "meta_gossip"
                 /\ RepChange(k, v, p).type = "rep_change"
                 /\ MetaPut(k, v, p).type = "meta_put"
  /\ \A k, v, err : MetaAck(k, v, err).type = "meta_ack"
  /\ \A k, val, p : /\ Gossip(k, val, p).type = "gossip"
                   /\ Gossip(k, val, p).key = k
                   /\ Gossip(k, val, p).val = val
                   /\ Gossip(k, val, p).dst = p
  /\ \A k, from, p : /\ RepRequest(k, from, p).type = "rep_request"
                    /\ RepRequest(k, from, p).key = k
                    /\ RepRequest(k, from, p).from = from
  /\ \A k, err, v, p : /\ RepResponse(k, err, v, p).type = "rep_response"
                      /\ RepResponse(k, err, v, p).key = k
                      /\ RepResponse(k, err, v, p).dst = p
  BY DEF UserRequest, Gossip, MetaGossip, RepRequest, RepResponse, RepChange,
         MetaPut, MetaAck

LEMMA ZeroIsVersion == 0 \in Version
  BY ReplicationAssumption, SMTT(60) DEF Version

(* A received message.                                                     *)
LEMMA Received ==
  ASSUME StateTyped, NEW p \in Thread
  PROVE  /\ \A m \in Inbox(p, "request") : m.req \in Request /\ KeyOf[m.req] \in Key
         /\ \A m \in Inbox(p, "gossip") : m.key \in Key /\ m.val \in SUBSET Put
         /\ \A m \in Inbox(p, "meta_gossip") : m.key \in Key /\ m.version \in Version
         /\ \A m \in Inbox(p, "rep_request") : m.key \in Key /\ m.from \in Thread
         /\ \A m \in Inbox(p, "rep_response") :
              /\ m.key \in Key /\ m.version \in Version
              /\ (IF m.error = 0 THEN m.version ELSE 0) \in Version
         /\ \A m \in Inbox(p, "rep_change") : m.key \in Key /\ m.version \in Version
         /\ \A m \in Inbox(p, "meta_put") : m.key \in Key /\ m.version \in Version
<1>1. ASSUME NEW type \in ServerTypes, NEW m \in Inbox(p, type)
      PROVE  m \in Message /\ m.type = type
  BY <1>1 DEF Inbox, StateTyped, MsgsTyped
<1>2. \A m \in Inbox(p, "request") : m.req \in Request /\ KeyOf[m.req] \in Key
  BY <1>1, MessageFields, RequestAssumption DEF ServerTypes
<1>3. \A m \in Inbox(p, "gossip") : m.key \in Key /\ m.val \in SUBSET Put
  BY <1>1, MessageFields DEF ServerTypes
<1>4. \A m \in Inbox(p, "meta_gossip") : m.key \in Key /\ m.version \in Version
  BY <1>1, MessageFields DEF ServerTypes
<1>5. \A m \in Inbox(p, "rep_request") : m.key \in Key /\ m.from \in Thread
  BY <1>1, MessageFields DEF ServerTypes
<1>6. \A m \in Inbox(p, "rep_response") : m.key \in Key /\ m.version \in Version
  BY <1>1, MessageFields DEF ServerTypes
<1>7. \A m \in Inbox(p, "rep_change") : m.key \in Key /\ m.version \in Version
  BY <1>1, MessageFields DEF ServerTypes
<1>8. \A m \in Inbox(p, "meta_put") : m.key \in Key /\ m.version \in Version
  BY <1>1, MessageFields DEF ServerTypes
<1> QED
  BY <1>2, <1>3, <1>4, <1>5, <1>6, <1>7, <1>8, ZeroIsVersion

------------------------------------------------------------------------------
(* Operators.                                                              *)

(* Responsible threads are threads.                                        *)
LEMMA ResponsibleAreThreads ==
  ASSUME NEW nodes \in SUBSET Node, NEW k \in Key
  PROVE  /\ \A v, tiers : get_responsible_threads(nodes, k, v, tiers) \subseteq Thread
         /\ get_responsible_threads_metadata(nodes, k) \subseteq Thread
         /\ \A t, r : responsible_global(nodes, k, t, r) \subseteq nodes
<1>1. \A S, rank, n : FirstOnWalk(S, rank, n) \subseteq S
  BY DEF FirstOnWalk
<1>2. \A t, r : responsible_global(nodes, k, t, r) \subseteq nodes
  BY <1>1 DEF responsible_global, InTier
<1>3. \A t, r : responsible_local(k, t, r) \subseteq Tid
  BY <1>1 DEF responsible_local
<1>4. ASSUME NEW v, NEW tiers
      PROVE  get_responsible_threads(nodes, k, v, tiers) \subseteq Thread
  BY <1>2, <1>3, SMTT(60) DEF get_responsible_threads, Thread
<1>5. get_responsible_threads_metadata(nodes, k) \subseteq Thread
  <2>1. FirstOnWalk(InTier(nodes, MemTier), MetaRank[k], 1) \subseteq Node
    BY <1>1 DEF InTier
  <2>2. FirstOnWalk(Tid, MetaTidRank[k], MetaLocalRep) \subseteq Tid
    BY <1>1
  <2> QED
    BY <2>1, <2>2 DEF get_responsible_threads_metadata, Thread
<1> QED
  BY <1>2, <1>4, <1>5

LEMMA RingNodes ==
  ASSUME NEW p \in Thread
  PROVE  Ring(p) \in SUBSET Node
  BY DEF Ring

(* The targets of gossip are threads.                                      *)
LEMMA TargetsAreThreads ==
  ASSUME NEW p \in Thread, NEW k \in Key
  PROVE  /\ \A v : SelfTierThreads(p, k, v) \subseteq Thread
         /\ \A v : AllTierThreads(p, k, v) \subseteq Thread
         /\ MetaThreads(p, k) \subseteq Thread
         /\ \A old, new : RepChangeTargets(p, k, old, new) \subseteq Thread
  BY RingNodes, ResponsibleAreThreads
     DEF SelfTierThreads, AllTierThreads, MetaThreads, RepChangeTargets

(* A set of lookups asks about every key of the set and sends nothing      *)
(* else.                                                                   *)
LEMMA AskInSends ==
  ASSUME NEW p \in Thread, NEW ks \in SUBSET Key, NEW nodes, NEW ask \in AskIn(nodes, p, ks)
  PROVE  /\ \A m \in ask : m \in Message /\ m.type = "rep_request"
         /\ \A k \in ks : \E q \in Thread : RepRequest(k, p, q) \in ask
<1>1. PICK to \in [ks -> Thread] : ask = {RepRequest(k, p, to[k]) : k \in ks}
  BY DEF AskIn
<1>2. \A k \in ks : RepRequest(k, p, to[k]) \in Message
  BY MessagesMade
<1>3. \A k \in ks : RepRequest(k, p, to[k]).type = "rep_request"
  BY DEF RepRequest
<1> QED
  BY <1>1, <1>2, <1>3

LEMMA AskSends ==
  ASSUME NEW p \in Thread, NEW ks \in SUBSET Key, NEW ask \in Ask(p, ks)
  PROVE  /\ \A m \in ask : m \in Message /\ m.type = "rep_request"
         /\ \A k \in ks : \E q \in Thread : RepRequest(k, p, q) \in ask
  BY AskInSends DEF Ask

LEMMA AskUnknownSends ==
  ASSUME NEW p \in Thread, NEW ks \in SUBSET Key, NEW ask \in AskUnknown(p, ks)
  PROVE  \A m \in ask : m \in Message /\ m.type = "rep_request"
<1> DEFINE unknown == {k \in ks : ~Knows(p, k)}
<1>1. unknown \in SUBSET Key /\ ask \in Ask(p, unknown)
  BY DEF AskUnknown
<1> QED
  BY <1>1, AskSends

(* Merging takes some of the PUTs that are offered.                        *)
LEMMA MergesOffered ==
  ASSUME NEW S, NEW offered, NEW k, NEW new \in Merges(S, offered, k)
  PROVE  new \subseteq offered
  BY DEF Merges

LEMMA ErrorCodes ==
  ASSUME NEW r, NEW S
  PROVE  ErrorCode(r, S) \in 0..2
  BY SMTT(60) DEF ErrorCode

LEMMA StoredItemsTyped ==
  ASSUME StateTyped, NEW p \in Thread
  PROVE  StoredItems(p) \subseteq Item
<1>1. \A u \in stored[p] : KeyOf[u] \in Key
  BY RequestAssumption DEF StateTyped, VarsTyped, Put
<1>2. \A k \in Key : Data(k) \in Item /\ Meta(k) \in Item
  BY DEF Item, Data, Meta
<1> QED
  BY <1>1, <1>2 DEF StoredItems

------------------------------------------------------------------------------
(* Type correctness.                                                       *)
LEMMA HandleTyped ==
  ASSUME NEW m, NEW out, Handle(m, out), \A x \in out : x \in Message
  PROVE  Sends
  BY DEF Handle, Sends

LEMMA RespondTyped ==
  ASSUME StateTyped, NEW code, \A r \in DOMAIN code : code[r] \in 0..2, Respond(code)
  PROVE  responses' \in [Request -> SUBSET (0..2)]
  BY SMTT(60) DEF StateTyped, VarsTyped, Respond

LEMMA TypeInit == Init => TypeOK
<1> SUFFICES ASSUME Init PROVE TypeOK
  OBVIOUS
<1>1. FullRing \in [Node -> Int]
  BY SMTT(60) DEF FullRing, Absent
<1>2. 0 \in Version
  BY ZeroIsVersion
<1>3. monitor \in [Key -> [written : Version, waiting : Version, current : Version]]
  BY <1>2 DEF Init
<1> QED
  BY <1>1, <1>2, <1>3 DEF Init, TypeOK

LEMMA ClientTyped == StateTyped /\ Client => StepTyped
<1> SUFFICES ASSUME StateTyped, NEW r \in Request, NEW p \in Thread, ClientSend(r, p)
             PROVE  StepTyped
  BY DEF Client
<1>1. Sends
  BY MessagesMade DEF ClientSend, Sends
<1> QED
  BY <1>1, SMTT(60)
     DEF StateTyped, VarsTyped, StepTyped, ClientSend, ringVars, dataVars, pendVars

LEMMA RequestPendsTyped ==
  ASSUME StateTyped, NEW p \in Thread, NEW m \in Inbox(p, "request"), RequestPends(p, m)
  PROVE  StepTyped
<1>1. m.req \in Request
  BY Received
<1>2. {KeyOf[m.req]} \in SUBSET Key
  BY <1>1, RequestAssumption
<1>3. Sends
  BY <1>2, AskSends, HandleTyped DEF RequestPends
<1> QED
  BY <1>1, <1>3 DEF RequestPends, StateTyped, StepTyped, VarsTyped, ringVars, dataVars, clientVars

LEMMA RequestServedTyped ==
  ASSUME StateTyped, NEW p \in Thread, NEW m \in Inbox(p, "request"), RequestServed(p, m)
  PROVE  StepTyped
<1>1. m.req \in Request /\ KeyOf[m.req] \in Key
  BY Received
<1>2. PICK new \in SUBSET Put :
        /\ stored' = [stored EXCEPT ![p] = @ \cup new]
        /\ local_changeset' = [local_changeset EXCEPT
                                 ![p] = @ \cup {Data(KeyOf[m.req]) : u \in new}]
        /\ accepted' = accepted \cup new
  BY MergesOffered DEF RequestServed
<1>3. {Data(KeyOf[m.req]) : u \in new} \subseteq Item
  <2>1. Data(KeyOf[m.req]) \in Item
    BY <1>1 DEF Data, Item
  <2> QED
    BY <2>1
<1>4. Sends
  BY HandleTyped, SMTT(60) DEF RequestServed
<1>5. responses' \in [Request -> SUBSET (0..2)]
  <2> DEFINE code == [x \in {m.req} |-> ErrorCode(x, stored[p])]
  <2>1. Respond(code)
    BY DEF RequestServed
  <2>2. \A r \in DOMAIN code : code[r] \in 0..2
    BY ErrorCodes
  <2> HIDE DEF code
  <2> QED
    BY <2>1, <2>2, RespondTyped
<1> QED
  BY <1>1, <1>2, <1>3, <1>4, <1>5
     DEF RequestServed, StateTyped, StepTyped, VarsTyped, ringVars, pendVars

LEMMA MetadataTyped ==
  ASSUME StateTyped, NEW p \in Thread, NEW k \in Key, NEW v \in Version,
         metadata' = [metadata EXCEPT ![p][k] = IF v > @ THEN v ELSE @]
  PROVE  metadata' \in [Thread -> [Key -> Version]]
<1> DEFINE w == IF v > metadata[p][k] THEN v ELSE metadata[p][k]
<1>1. w \in Version
  BY SMTT(60) DEF StateTyped, VarsTyped
<1>2. metadata' = [metadata EXCEPT ![p] = [metadata[p] EXCEPT ![k] = w]]
  BY DEF StateTyped, VarsTyped
<1> HIDE DEF w
<1> QED
  BY <1>1, <1>2, SMTT(60) DEF StateTyped, VarsTyped

LEMMA MetaTyped ==
  ASSUME StateTyped, NEW p \in Thread,
         \/ HandleMetaRequest(p)
         \/ \E m \in Inbox(p, "meta_gossip") : MetaGossipReceived(p, m)
  PROVE  StepTyped
<1>1. ASSUME NEW m \in Inbox(p, "rep_request"), MetaGetServed(p, m)
      PROVE  StepTyped
  <2>1. m.key \in Key /\ m.from \in Thread
    BY Received
  <2>2. 0 \in Version /\ metadata[p][m.key] \in Version
    BY <2>1, ReplicationAssumption, SMTT(60) DEF StateTyped, VarsTyped, Version
  <2> DEFINE v   == metadata[p][m.key]
             err == IF p \notin MetaThreads(p, m.key) THEN 2
                    ELSE IF v = 0 THEN 1 ELSE 0
             ver == IF err = 0 THEN v ELSE 0
  <2>3. err \in 0..2 /\ ver \in Version /\ Handle(m, {RepResponse(m.key, err, ver, m.from)})
    BY <1>1, <2>2, SMTT(60) DEF MetaGetServed
  <2> HIDE DEF err, ver
  <2>4. RepResponse(m.key, err, ver, m.from) \in Message
    BY <2>1, <2>3, MessagesMade
  <2>5. Sends
    BY <2>3, <2>4, HandleTyped
  <2> QED
    BY <1>1, <2>5
       DEF MetaGetServed, StateTyped, StepTyped, VarsTyped, ringVars, dataVars, pendVars, clientVars
<1>2. ASSUME NEW m \in Inbox(p, "meta_put"), MetaPutServed(p, m)
      PROVE  StepTyped
  <2>1. m.key \in Key /\ m.version \in Version
    BY Received
  <2>2. Meta(m.key) \in Item
    BY <2>1 DEF Meta, Item
  <2>3. Sends
    <3>1. MetaAck(m.key, m.version, 0) \in Message /\ MetaAck(m.key, m.version, 2) \in Message
      BY <2>1, MessagesMade, SMTT(60)
    <3>2. \/ Handle(m, {MetaAck(m.key, m.version, 0)})
          \/ Handle(m, {MetaAck(m.key, m.version, 2)})
      BY <1>2 DEF MetaPutServed
    <3> QED
      BY <3>1, <3>2, HandleTyped
  <2>4. metadata' \in [Thread -> [Key -> Version]]
    <3>1. CASE UNCHANGED metadata
      BY <3>1 DEF StateTyped, VarsTyped
    <3>2. CASE metadata' = [metadata EXCEPT
                 ![p][m.key] = IF m.version > @ THEN m.version ELSE @]
      BY <2>1, <3>2, MetadataTyped
    <3> QED
      BY <1>2, <3>1, <3>2 DEF MetaPutServed
  <2>5. local_changeset' \in [Thread -> SUBSET Item]
    <3>1. \/ local_changeset' = [local_changeset EXCEPT ![p] = @ \cup {Meta(m.key)}]
          \/ UNCHANGED local_changeset
      BY <1>2 DEF MetaPutServed
    <3> QED
      BY <2>2, <3>1, SMTT(60) DEF StateTyped, VarsTyped
  <2> QED
    BY <1>2, <2>3, <2>4, <2>5
       DEF MetaPutServed, StateTyped, StepTyped, VarsTyped, ringVars, pendVars, clientVars
<1>3. ASSUME NEW m \in Inbox(p, "meta_gossip"), MetaGossipReceived(p, m)
      PROVE  StepTyped
  <2>1. m.key \in Key /\ m.version \in Version
    BY Received
  <2>2. \A q \in MetaThreads(p, m.key) : MetaGossip(m.key, m.version, q) \in Message
    BY <2>1, TargetsAreThreads, MessagesMade
  <2>3. Sends
    <3> DEFINE out == {MetaGossip(m.key, m.version, q) : q \in MetaThreads(p, m.key)}
    <3>1. Handle(m, {}) \/ Handle(m, out)
      BY <1>3 DEF MetaGossipReceived
    <3>2. \A x \in out : x \in Message
      BY <2>2
    <3> HIDE DEF out
    <3> QED
      BY <3>1, <3>2, HandleTyped, SMTT(60)
  <2>4. metadata' \in [Thread -> [Key -> Version]]
    <3>1. CASE UNCHANGED metadata
      BY <3>1 DEF StateTyped, VarsTyped
    <3>2. CASE metadata' = [metadata EXCEPT
                 ![p][m.key] = IF m.version > @ THEN m.version ELSE @]
      BY <2>1, <3>2, MetadataTyped
    <3> QED
      BY <1>3, <3>1, <3>2 DEF MetaGossipReceived
  <2> QED
    BY <1>3, <2>3, <2>4
       DEF MetaGossipReceived, StateTyped, StepTyped, VarsTyped, ringVars, pendVars, clientVars
<1> QED
  BY <1>1, <1>2, <1>3 DEF HandleMetaRequest

LEMMA GossipTyped ==
  ASSUME StateTyped, NEW p \in Thread, NEW m \in Inbox(p, "gossip"),
         GossipPends(p, m) \/ GossipMerged(p, m)
  PROVE  StepTyped
<1>1. m.key \in Key /\ m.val \in SUBSET Put
  BY Received
<1>2. CASE GossipPends(p, m)
  <2>1. {m.key} \in SUBSET Key
    BY <1>1
  <2>2. Sends
    BY <1>2, <2>1, AskSends, HandleTyped DEF GossipPends
  <2> QED
    BY <1>1, <1>2, <2>2 DEF GossipPends, StateTyped, StepTyped, VarsTyped, ringVars, dataVars, clientVars
<1>3. CASE GossipMerged(p, m)
  <2>1. PICK new \in SUBSET Put : stored' = [stored EXCEPT ![p] = @ \cup new]
    BY <1>1, <1>3, MergesOffered DEF GossipMerged
  <2>2. Sends
    BY <1>3, HandleTyped, SMTT(60) DEF GossipMerged
  <2> QED
    BY <1>3, <2>1, <2>2 DEF GossipMerged, StateTyped, StepTyped, VarsTyped, ringVars, pendVars, clientVars
<1> QED
  BY <1>2, <1>3

LEMMA RepResponseRetriedTyped ==
  ASSUME StateTyped, NEW p \in Thread, NEW m \in Inbox(p, "rep_response"),
         RepResponseRetried(p, m)
  PROVE  StepTyped
<1>1. {m.key} \in SUBSET Key
  BY Received
<1>2. Sends
  BY <1>1, AskSends, HandleTyped DEF RepResponseRetried
<1> QED
  BY <1>2 DEF RepResponseRetried, StateTyped, StepTyped, VarsTyped, ringVars, dataVars, pendVars, clientVars

LEMMA RepResponseAppliedTyped ==
  ASSUME StateTyped, NEW p \in Thread, NEW m \in Inbox(p, "rep_response"),
         RepResponseApplied(p, m)
  PROVE  StepTyped
<1> DEFINE k       == m.key
           v       == IF m.error = 0 THEN m.version ELSE 0
           threads == SelfTierThreads(p, k, v)
           reqs    == Of(pending_requests[p], k)
           held    == Of(pending_gossip[p], k)
<1>1. k \in Key /\ v \in Version
  BY Received
<1>2. reqs \in SUBSET Request /\ held \in SUBSET Put
  BY DEF StateTyped, VarsTyped, Of
<1>3. /\ key_replication_map' = [key_replication_map EXCEPT ![p][k] = v]
      /\ pending_requests' = [pending_requests EXCEPT ![p] = @ \ reqs]
      /\ pending_gossip' = [pending_gossip EXCEPT ![p] = @ \ held]
      /\ UNCHANGED <<ringVars, metadata, sent, monitor>>
  BY DEF RepResponseApplied
<1>4. key_replication_map' \in [Thread -> [Key -> Version \cup {Unknown}]]
  <2>1. key_replication_map' =
          [key_replication_map EXCEPT ![p] = [key_replication_map[p] EXCEPT ![k] = v]]
    BY <1>3 DEF StateTyped, VarsTyped
  <2> HIDE DEF k, v
  <2> QED
    BY <1>1, <2>1 DEF StateTyped, VarsTyped
<1>5. /\ pending_requests' \in [Thread -> SUBSET Request]
      /\ pending_gossip' \in [Thread -> SUBSET Put]
  <2> HIDE DEF reqs, held
  <2> QED
    BY <1>3 DEF StateTyped, VarsTyped
<1>6. /\ stored' \in [Thread -> SUBSET Put]
      /\ local_changeset' \in [Thread -> SUBSET Item]
      /\ accepted' \subseteq Put
      /\ responses' \in [Request -> SUBSET (0..2)]
      /\ Sends
  <2>1. CASE p \in threads
    <3>0. PICK new \in Merges(stored[p], reqs \cap Put, k) :
             \E more \in Merges(stored[p] \cup new, held, k) :
             \E early \in SUBSET (reqs \ Put) :
             /\ stored' = [stored EXCEPT ![p] = @ \cup new \cup more]
             /\ local_changeset' = [local_changeset EXCEPT
                                      ![p] = @ \cup {Data(k) : u \in new}]
             /\ accepted' = accepted \cup new
             /\ Respond([x \in reqs |->
                  ErrorCode(x, IF x \in early THEN stored[p] ELSE stored[p] \cup new)])
             /\ Handle(m, {})
      BY <2>1 DEF RepResponseApplied
    <3>1. PICK more \in Merges(stored[p] \cup new, held, k),
               early \in SUBSET (reqs \ Put) :
             /\ stored' = [stored EXCEPT ![p] = @ \cup new \cup more]
             /\ local_changeset' = [local_changeset EXCEPT
                                      ![p] = @ \cup {Data(k) : u \in new}]
             /\ accepted' = accepted \cup new
             /\ Respond([x \in reqs |->
                  ErrorCode(x, IF x \in early THEN stored[p] ELSE stored[p] \cup new)])
             /\ Handle(m, {})
      BY <3>0
    <3>2. new \in SUBSET Put /\ more \in SUBSET Put
      BY <1>2, MergesOffered, SMTT(60)
    <3>3. Data(k) \in Item
      BY <1>1 DEF Data, Item
    <3>4. Sends
      BY <3>1, HandleTyped, SMTT(60)
    <3>5. responses' \in [Request -> SUBSET (0..2)]
      <4> DEFINE code == [x \in reqs |->
                   ErrorCode(x, IF x \in early THEN stored[p] ELSE stored[p] \cup new)]
      <4>1. Respond(code)
        BY <3>1
      <4>2. \A r \in DOMAIN code : code[r] \in 0..2
        BY ErrorCodes
      <4> HIDE DEF code
      <4> QED
        BY <4>1, <4>2, RespondTyped
    <3>6. local_changeset' \in [Thread -> SUBSET Item]
      <4>1. {Data(k) : u \in new} \subseteq Item
        BY <3>3
      <4> QED
        BY <3>1, <4>1 DEF StateTyped, VarsTyped
    <3>7. stored' \in [Thread -> SUBSET Put] /\ accepted' \subseteq Put
      BY <3>1, <3>2 DEF StateTyped, VarsTyped
    <3> QED
      BY <3>4, <3>5, <3>6, <3>7
  <2>2. CASE p \notin threads
    <3> DEFINE out == {Gossip(k, held, q) : q \in IF held = {} THEN {} ELSE threads}
               code == [x \in reqs |-> 2]
    <3>1. /\ Respond(code)
          /\ Handle(m, out)
          /\ UNCHANGED <<stored, local_changeset, accepted>>
      BY <2>2 DEF RepResponseApplied
    <3>2. \A x \in out : x \in Message
      BY <1>1, <1>2, TargetsAreThreads, MessagesMade
    <3>3. \A r \in DOMAIN code : code[r] \in 0..2
      BY SMTT(60)
    <3> HIDE DEF out, code
    <3>4. Sends
      BY <3>1, <3>2, HandleTyped
    <3>5. responses' \in [Request -> SUBSET (0..2)]
      BY <3>1, <3>3, RespondTyped
    <3> QED
      BY <3>1, <3>4, <3>5 DEF StateTyped, VarsTyped
  <2> QED
    BY <2>1, <2>2
<1> QED
  BY <1>3, <1>4, <1>5, <1>6 DEF StateTyped, StepTyped, VarsTyped, ringVars

LEMMA ReplicationChangeTyped ==
  ASSUME StateTyped, NEW p \in Thread, NEW m \in Inbox(p, "rep_change"),
         ReplicationChange(p, m)
  PROVE  StepTyped
<1> DEFINE k       == m.key
           old     == key_replication_map[p][k]
           value   == Of(stored[p], k)
           moves   == value # {} /\ Knows(p, k)
           leaves  == moves /\ p \notin AllTierThreads(p, k, m.version)
           targets == IF moves THEN RepChangeTargets(p, k, old, m.version) ELSE {}
           workers == IF p = MainThread(NodeOf(p))
                      THEN {<<NodeOf(p), t>> : t \in Tid \ {0}} ELSE {}
           asked   == {KeyOf[u] : u \in value}
<1>1. k \in Key /\ m.version \in Version
  BY Received
<1>2. value \in SUBSET Put /\ asked \in SUBSET Key
  BY RequestAssumption, SMTT(60) DEF StateTyped, VarsTyped, Of, Put
<1>3. workers \subseteq Thread
  BY SMTT(60) DEF Thread, NodeOf
<1>4. targets \subseteq Thread
  BY <1>1, TargetsAreThreads
<1>5. PICK ask \in AskUnknown(p, asked) :
        Handle(m, ask \cup {RepChange(k, m.version, q) : q \in workers}
                      \cup {Gossip(k, value, q) : q \in targets})
  BY DEF ReplicationChange
<1>6. Sends
  <2> DEFINE out == ask \cup {RepChange(k, m.version, q) : q \in workers}
                        \cup {Gossip(k, value, q) : q \in targets}
  <2> HIDE DEF k, value, workers, targets, asked
  <2>1. \A x \in ask : x \in Message
    BY <1>2, <1>5, AskUnknownSends
  <2>2. \A x \in out : x \in Message
    BY <1>1, <1>2, <1>3, <1>4, <2>1, MessagesMade
  <2>3. Handle(m, out)
    BY <1>5
  <2> HIDE DEF out
  <2> QED
    BY <2>2, <2>3, HandleTyped
<1>7. /\ key_replication_map' = [key_replication_map EXCEPT ![p][k] = m.version]
      /\ stored' = [stored EXCEPT ![p] = IF leaves THEN @ \ value ELSE @]
      /\ local_changeset' = [local_changeset EXCEPT
                               ![p] = IF leaves THEN @ \ {Data(k)} ELSE @]
      /\ UNCHANGED <<ringVars, metadata, pendVars, clientVars, monitor>>
  BY DEF ReplicationChange
<1> HIDE DEF value, leaves
<1>8. key_replication_map' \in [Thread -> [Key -> Version \cup {Unknown}]]
  <2>1. key_replication_map' = [key_replication_map EXCEPT
          ![p] = [key_replication_map[p] EXCEPT ![k] = m.version]]
    BY <1>7 DEF StateTyped, VarsTyped
  <2> HIDE DEF k
  <2> QED
    BY <1>1, <2>1 DEF StateTyped, VarsTyped
<1>9. /\ stored' \in [Thread -> SUBSET Put]
      /\ local_changeset' \in [Thread -> SUBSET Item]
  BY <1>7 DEF StateTyped, VarsTyped
<1> QED
  BY <1>6, <1>7, <1>8, <1>9 DEF StateTyped, StepTyped, VarsTyped, ringVars, pendVars, clientVars

(* What the periodic gossip sends.                                         *)
LEMMA ItemSent ==
  ASSUME StateTyped, NEW p \in Thread, NEW i \in Item, NEW q \in Thread,
         NEW x \in SendItem(p, i, q)
  PROVE  x \in Message /\ x.type \in {"gossip", "meta_gossip"}
<1>1. i.key \in Key
  BY DEF Item
<1>3. metadata[p][i.key] \in Version /\ Of(stored[p], i.key) \in SUBSET Put
  BY <1>1, SMTT(60) DEF StateTyped, VarsTyped, Of
<1>4. \/ x = MetaGossip(i.key, metadata[p][i.key], q)
      \/ x = Gossip(i.key, Of(stored[p], i.key), q)
  BY DEF SendItem
<1>5. x \in Message
  BY <1>1, <1>3, <1>4, MessagesMade
<1>6. x.type \in {"gossip", "meta_gossip"}
  <2>1. CASE x = MetaGossip(i.key, metadata[p][i.key], q)
    BY <2>1 DEF MetaGossip
  <2>2. CASE x = Gossip(i.key, Of(stored[p], i.key), q)
    BY <2>2 DEF Gossip
  <2> QED
    BY <1>4, <2>1, <2>2
<1> QED
  BY <1>5, <1>6

LEMMA SendItemTyped ==
  ASSUME StateTyped, NEW p \in Thread, NEW i \in Item, NEW q \in GossipTargets(p, i),
         NEW x \in SendItem(p, i, q)
  PROVE  x \in Message /\ x.type \in {"gossip", "meta_gossip"}
<1>1. i.key \in Key
  BY DEF Item
<1>2. q \in Thread
  BY <1>1, TargetsAreThreads DEF GossipTargets
<1> QED
  BY <1>2, ItemSent

LEMMA GossipTimerTyped ==
  ASSUME StateTyped, NEW p \in Thread, GossipTimer(p)
  PROVE  StepTyped
<1> DEFINE asked == {i.key : i \in {j \in local_changeset[p] : ~j.meta}}
           data  == UNION {UNION {SendItem(p, i, q) : q \in GossipTargets(p, i)} :
                              i \in local_changeset[p]}
<1>1. PICK ask \in AskUnknown(p, asked) : msgs' = msgs \cup ask \cup data
  BY DEF GossipTimer
<1>2. local_changeset[p] \subseteq Item /\ asked \in SUBSET Key
  BY SMTT(60) DEF StateTyped, VarsTyped, Item
<1>3. \A x \in data : x \in Message
  BY <1>2, SendItemTyped, SMTT(60)
<1>4. \A x \in ask : x \in Message
  BY <1>2, AskUnknownSends
<1>5. Sends
  BY <1>1, <1>3, <1>4 DEF Sends
<1>6. local_changeset' \in [Thread -> SUBSET Item]
  BY DEF GossipTimer, StateTyped, VarsTyped
<1> QED
  BY <1>5, <1>6 DEF GossipTimer, StateTyped, StepTyped, VarsTyped, ringVars, pendVars, clientVars

LEMMA MonitorTyped == StateTyped /\ Monitor => StepTyped
<1> SUFFICES ASSUME StateTyped, Monitor PROVE StepTyped
  OBVIOUS
<1> USE DEF ringVars, dataVars, pendVars, clientVars
<1>0. MonitorRing \in SUBSET Node
  BY DEF MonitorRing
<1>1. ASSUME NEW k \in Key, MonitorWrite(k)
      PROVE  StepTyped
  <2>1. monitor[k].written + 1 \in Version
    BY <1>1, ReplicationAssumption, SMTT(60) DEF MonitorWrite, StateTyped, VarsTyped, Version
  <2>2. Sends
    <3>1. PICK q \in get_responsible_threads_metadata(MonitorRing, k) :
            msgs' = msgs \cup {MetaPut(k, monitor[k].written + 1, q)}
      BY <1>1 DEF MonitorWrite
    <3>2. q \in Thread
      BY <1>0, ResponsibleAreThreads
    <3>3. MetaPut(k, monitor[k].written + 1, q) \in Message
      BY <2>1, <3>2, MessagesMade
    <3> QED
      BY <3>1, <3>3 DEF Sends
  <2>3. monitor' \in [Key -> [written : Version, waiting : Version, current : Version]]
    BY <1>1, <2>1, ZenonT(30) DEF MonitorWrite, StateTyped, VarsTyped
  <2> QED
    BY <1>1, <2>2, <2>3 DEF MonitorWrite, StateTyped, StepTyped, VarsTyped
<1>2. ASSUME NEW k \in Key, MonitorTimeout(k)
      PROVE  StepTyped
  <2>1. 0 \in Version
    BY ZeroIsVersion
  <2>2. monitor' \in [Key -> [written : Version, waiting : Version, current : Version]]
    BY <1>2, <2>1 DEF MonitorTimeout, StateTyped, VarsTyped
  <2> QED
    BY <1>2, <2>2 DEF MonitorTimeout, StateTyped, StepTyped, VarsTyped, Sends
<1>3. ASSUME MonitorAnswered
      PROVE  StepTyped
  <2>1. PICK m \in msgs :
          LET k == m.key  confirmed == m.error = 0 /\ monitor[k].waiting = m.version IN
          /\ m.type = "meta_ack"
          /\ Handle(m, IF confirmed
                       THEN {RepChange(k, m.version, q) :
                               q \in MonitorTargets(k, monitor[k].current, m.version)}
                       ELSE {})
          /\ monitor' = [monitor EXCEPT
                           ![k].current = IF confirmed THEN m.version ELSE @,
                           ![k].waiting = IF @ = m.version THEN 0 ELSE @]
          /\ UNCHANGED <<ringVars, key_replication_map, dataVars, pendVars, clientVars>>
    BY <1>3 DEF MonitorAnswered
  <2>2. m.key \in Key /\ m.version \in Version /\ 0 \in Version
    BY <2>1, MessageFields, ZeroIsVersion DEF StateTyped, MsgsTyped, ServerTypes
  <2> DEFINE targets == MonitorTargets(m.key, monitor[m.key].current, m.version)
             out == {RepChange(m.key, m.version, q) : q \in targets}
  <2>3. targets \subseteq Thread
    <3>1. \A r : \A t \in Tier :
            responsible_global(MonitorRing, m.key, t, r) \subseteq Node
      BY <1>0 DEF responsible_global, FirstOnWalk, InTier
    <3> QED
      BY <3>1, NodeAssumption, SMTT(60) DEF MonitorTargets, MainThread, Thread
  <2>4. Sends
    <3>1. Handle(m, out) \/ Handle(m, {})
      BY <2>1
    <3>2. \A x \in out : x \in Message
      BY <2>2, <2>3, MessagesMade
    <3> HIDE DEF out
    <3> QED
      BY <3>1, <3>2, HandleTyped, SMTT(60)
  <2>5. monitor' \in [Key -> [written : Version, waiting : Version, current : Version]]
    <3>1. PICK c \in Version, w \in Version :
            monitor' = [monitor EXCEPT ![m.key] =
              [monitor[m.key] EXCEPT !.current = c, !.waiting = w]]
      <4> DEFINE old == monitor[m.key]
                 c == IF m.error = 0 /\ old.waiting = m.version THEN m.version
                      ELSE old.current
                 w == IF old.waiting = m.version THEN 0 ELSE old.waiting
      <4>1. c \in Version /\ w \in Version
        BY <2>2 DEF StateTyped, VarsTyped
      <4>2. monitor' = [monitor EXCEPT ![m.key] = [old EXCEPT !.current = c, !.waiting = w]]
        BY <2>1, <2>2 DEF StateTyped, VarsTyped
      <4> HIDE DEF c, w
      <4> QED
        BY <4>1, <4>2
    <3> QED
      BY <2>2, <3>1 DEF StateTyped, VarsTyped
  <2> QED
    BY <2>1, <2>4, <2>5 DEF StateTyped, StepTyped, VarsTyped
<1> QED
  BY <1>1, <1>2, <1>3 DEF Monitor

LEMMA ServerTyped == StateTyped /\ [Next]_vars => StepTyped
<1> SUFFICES ASSUME StateTyped, [Next]_vars PROVE StepTyped
  OBVIOUS
<1>1. CASE UNCHANGED vars
  BY <1>1 DEF StateTyped, VarsTyped, StepTyped, Sends, vars, ringVars, dataVars,
              pendVars, clientVars
<1>2. ASSUME NEW p \in Thread, ServerStep(p)
      PROVE  StepTyped
  BY <1>2, RequestPendsTyped, RequestServedTyped, MetaTyped, GossipTyped,
     RepResponseRetriedTyped, RepResponseAppliedTyped, ReplicationChangeTyped,
     GossipTimerTyped
     DEF ServerStep, HandleRequest, HandleMetaRequest, HandleGossip,
         HandleRepResponse, HandleRepChange
<1> QED
  BY <1>1, <1>2, ClientTyped, MonitorTyped DEF Next

LEMMA TypeStep == StateTyped /\ [Next]_vars => StateTyped'
  BY ServerTyped, StepKeepsTypes

(* Every variable keeps its shape under every handler of the server        *)
(* threads, the clients and the monitoring node.                           *)
THEOREM TypeCorrect == Spec => []TypeOK
<1>1. Init => TypeOK
  BY TypeInit
<1>2. TypeOK /\ [Next]_vars => TypeOK'
  BY ServerTyped, StepKeepsTypes
<1> QED
  BY <1>1, <1>2, PTL DEF Spec

------------------------------------------------------------------------------
(* Which steps take a PUT out of the place it is in.                       *)

(* Pending gossip goes only when a lookup for its key is answered.         *)
LEMMA PendingShrinks ==
  ASSUME StateTyped, [Next]_vars, NEW p \in Thread, NEW u \in pending_gossip[p],
         u \notin pending_gossip'[p]
  PROVE  \E m \in Inbox(p, "rep_response") :
           RepResponseApplied(p, m) /\ KeyOf[u] = m.key
<1>1. CASE Client \/ Monitor \/ UNCHANGED vars
  BY <1>1 DEF Client, Monitor, ClientSend, MonitorWrite, MonitorTimeout,
              MonitorAnswered, vars, pendVars
<1>2. ASSUME NEW q \in Thread, ServerStep(q)
      PROVE  \E m \in Inbox(q, "rep_response") : RepResponseApplied(q, m)
  <2>1. ASSUME NEW m, GossipPends(q, m) PROVE u \in pending_gossip'[p]
    BY <2>1 DEF GossipPends, StateTyped, VarsTyped
  <2> QED
    BY <1>2, <2>1
       DEF ServerStep, HandleRequest, HandleMetaRequest, HandleGossip,
           HandleRepResponse, HandleRepChange, RequestPends, RequestServed,
           MetaGetServed, MetaPutServed, GossipMerged, MetaGossipReceived,
           RepResponseRetried, ReplicationChange, GossipTimer, pendVars
<1>3. ASSUME NEW q \in Thread, NEW m \in Inbox(q, "rep_response"),
             RepResponseApplied(q, m)
      PROVE  q = p /\ KeyOf[u] = m.key
  <2>1. pending_gossip' = [pending_gossip EXCEPT ![q] = @ \ Of(pending_gossip[q], m.key)]
    BY <1>3 DEF RepResponseApplied
  <2> QED
    BY <2>1 DEF StateTyped, VarsTyped, Of
<1> QED
  BY <1>1, <1>2, <1>3 DEF Next

(* A gossip message goes only when its receiver handles it.                *)
LEMMA GossipConsumed ==
  ASSUME StateTyped, [Next]_vars, NEW m \in msgs, m.type = "gossip", m \notin msgs'
  PROVE  \E p \in Thread : m \in Inbox(p, "gossip") /\ (GossipPends(p, m) \/ GossipMerged(p, m))
<1>1. \A x, out : Handle(x, out) => x = m
  BY DEF Handle
<1>2. CASE Client \/ Monitor \/ UNCHANGED vars
  <2>1. ~MonitorAnswered
    BY <1>1 DEF MonitorAnswered
  <2> QED
    BY <1>2, <2>1 DEF Client, Monitor, ClientSend, MonitorWrite, MonitorTimeout, vars
<1>3. ASSUME NEW p \in Thread, ServerStep(p)
      PROVE  m \in Inbox(p, "gossip") /\ (GossipPends(p, m) \/ GossipMerged(p, m))
  <2>1. ~HandleRequest(p)
    BY <1>1 DEF HandleRequest, RequestPends, RequestServed, Inbox
  <2>2. ~HandleMetaRequest(p)
    BY <1>1 DEF HandleMetaRequest, MetaGetServed, MetaPutServed, Inbox
  <2>3. ~HandleRepResponse(p)
    BY <1>1 DEF HandleRepResponse, RepResponseRetried, RepResponseApplied, Inbox
  <2>4. ~HandleRepChange(p)
    BY <1>1 DEF HandleRepChange, ReplicationChange, Inbox
  <2>5. ~GossipTimer(p)
    BY DEF GossipTimer
  <2>6. \A x \in Inbox(p, "meta_gossip") : ~MetaGossipReceived(p, x)
    BY <1>1 DEF MetaGossipReceived, Inbox
  <2>7. \A x : GossipPends(p, x) \/ GossipMerged(p, x) => x = m
    BY <1>1 DEF GossipPends, GossipMerged
  <2> QED
    BY <1>3, <2>1, <2>2, <2>3, <2>4, <2>5, <2>6, <2>7 DEF ServerStep, HandleGossip
<1> QED
  BY <1>2, <1>3 DEF Next

(* A PUT is accepted where it is stored, and there it is to be gossiped.   *)
LEMMA AcceptedStored ==
  ASSUME StateTyped, [Next]_vars, NEW u \in accepted', u \notin accepted
  PROVE  \E p \in Thread : /\ status[p] = "up" /\ u \in stored'[p]
                           /\ Data(KeyOf[u]) \in local_changeset'[p]
<1>1. CASE Client \/ Monitor \/ UNCHANGED vars
  BY <1>1, ZenonT(30) DEF Client, Monitor, ClientSend, MonitorWrite, MonitorTimeout,
              MonitorAnswered, vars, clientVars
<1> DEFINE Here(p) == u \in stored'[p] /\ Data(KeyOf[u]) \in local_changeset'[p]
<1>2. ASSUME NEW p \in Thread, NEW k, NEW new, NEW more, \A w \in new : KeyOf[w] = k,
             stored' = [stored EXCEPT ![p] = @ \cup new \cup more],
             local_changeset' = [local_changeset EXCEPT ![p] = @ \cup {Data(k) : w \in new}],
             accepted' = accepted \cup new
      PROVE  Here(p)
  BY <1>2 DEF StateTyped, VarsTyped
<1>3. ASSUME NEW p \in Thread, ServerStep(p)
      PROVE  status[p] = "up" /\ Here(p)
  <2>1. ASSUME NEW m, RequestServed(p, m) PROVE Here(p)
    <3>1. PICK new \in Merges(stored[p], {m.req} \cap Put, KeyOf[m.req]) :
            /\ stored' = [stored EXCEPT ![p] = @ \cup new]
            /\ local_changeset' = [local_changeset EXCEPT
                                     ![p] = @ \cup {Data(KeyOf[m.req]) : w \in new}]
            /\ accepted' = accepted \cup new
      BY <2>1 DEF RequestServed
    <3>2. \A w \in new : KeyOf[w] = KeyOf[m.req]
      BY MergesOffered
    <3>3. stored' = [stored EXCEPT ![p] = @ \cup new \cup {}]
      BY <3>1
    <3> HIDE DEF Here
    <3> QED
      BY <1>2, <3>1, <3>2, <3>3
  <2>2. ASSUME NEW m, RepResponseApplied(p, m) PROVE Here(p)
    <3>1. PICK new \in Merges(stored[p], Of(pending_requests[p], m.key) \cap Put, m.key) : \E more :
            /\ stored' = [stored EXCEPT ![p] = @ \cup new \cup more]
            /\ local_changeset' = [local_changeset EXCEPT
                                     ![p] = @ \cup {Data(m.key) : w \in new}]
            /\ accepted' = accepted \cup new
      BY <2>2, ZenonT(30) DEF RepResponseApplied
    <3>2. \A w \in new : KeyOf[w] = m.key
      BY MergesOffered DEF Of
    <3> HIDE DEF Here
    <3> QED
      BY <1>2, <3>1, <3>2
  <2> HIDE DEF Here
  <2> QED
    BY <1>3, <2>1, <2>2
       DEF ServerStep, HandleRequest, HandleMetaRequest, HandleGossip,
           HandleRepResponse, HandleRepChange, RequestPends, MetaGetServed,
           MetaPutServed, GossipPends, GossipMerged, MetaGossipReceived,
           RepResponseRetried, ReplicationChange, GossipTimer, clientVars, Inbox
<1> QED
  BY <1>1, <1>3 DEF Next

------------------------------------------------------------------------------
(* Gossip about a key carries PUTs of that key only.                       *)
GossipAbout ==
  \A m \in msgs : m.type = "gossip" => \A u \in m.val : KeyOf[u] = m.key

(* A message that is not gossip does not disturb GossipAbout.              *)
LEMMA HandleAbout ==
  ASSUME GossipAbout, NEW m, NEW out, Handle(m, out),
         \A x \in out : x.type = "gossip" => \A u \in x.val : KeyOf[u] = x.key
  PROVE  GossipAbout'
  BY DEF Handle, GossipAbout

(* Nor does one message that is not gossip, or none.                       *)
LEMMA HandleOther ==
  ASSUME GossipAbout, NEW m, NEW x, x.type # "gossip",
         Handle(m, {x}) \/ Handle(m, {})
  PROVE  GossipAbout'
  BY DEF Handle, GossipAbout

(* What send_gossip sends is about the key of the item.                    *)
LEMMA SendItemAbout ==
  ASSUME NEW p, NEW i, NEW q, NEW x \in SendItem(p, i, q), x.type = "gossip"
  PROVE  \A u \in x.val : KeyOf[u] = x.key
<1>1. CASE x = MetaGossip(i.key, metadata[p][i.key], q)
  BY <1>1 DEF MetaGossip
<1>2. CASE x = Gossip(i.key, Of(stored[p], i.key), q)
  BY <1>2 DEF Gossip, Of
<1> QED
  BY <1>1, <1>2 DEF SendItem

(* The other messages are not gossip.                                      *)
LEMMA OthersAreNotGossip ==
  /\ \A r, p : UserRequest(r, p).type # "gossip"
  /\ \A k, v, p : /\ MetaGossip(k, v, p).type # "gossip"
                 /\ RepChange(k, v, p).type # "gossip"
                 /\ MetaPut(k, v, p).type # "gossip"
  /\ \A k, v, err : MetaAck(k, v, err).type # "gossip"
  /\ \A k, err, v, p : RepResponse(k, err, v, p).type # "gossip"
  BY DEF UserRequest, MetaGossip, RepResponse, RepChange, MetaPut, MetaAck

LEMMA GossipAboutStep ==
  ASSUME StateTyped, GossipAbout, [Next]_vars
  PROVE  GossipAbout'
<1> DEFINE About(x) == x.type = "gossip" => \A u \in x.val : KeyOf[u] = x.key
<1>1. CASE UNCHANGED vars
  BY <1>1 DEF GossipAbout, vars
<1>2. CASE Client
  BY <1>2, OthersAreNotGossip, SMTT(60) DEF Client, ClientSend, GossipAbout
<1>3. CASE Monitor
  <2>1. ASSUME NEW k \in Key, MonitorWrite(k) PROVE GossipAbout'
    BY <2>1, OthersAreNotGossip DEF MonitorWrite, GossipAbout
  <2>2. ASSUME NEW k \in Key, MonitorTimeout(k) PROVE GossipAbout'
    BY <2>2 DEF MonitorTimeout, GossipAbout
  <2>3. CASE MonitorAnswered
    <3>1. PICK m \in msgs :
            \/ Handle(m, {RepChange(m.key, m.version, q) :
                  q \in MonitorTargets(m.key, monitor[m.key].current, m.version)})
            \/ Handle(m, {})
      BY <2>3 DEF MonitorAnswered
    <3> QED
      BY <3>1, OthersAreNotGossip, SMTT(60) DEF Handle, GossipAbout
  <2> QED
    BY <1>3, <2>1, <2>2, <2>3 DEF Monitor
<1>4. ASSUME NEW p \in Thread, ServerStep(p)
      PROVE  GossipAbout'
  <2>1. ASSUME NEW m \in Inbox(p, "request"), RequestPends(p, m) \/ RequestServed(p, m)
        PROVE  GossipAbout'
    <3>1. {KeyOf[m.req]} \in SUBSET Key
      BY Received
    <3>2. CASE RequestPends(p, m)
      BY <3>1, <3>2, AskSends, HandleAbout DEF RequestPends
    <3>3. CASE RequestServed(p, m)
      BY <3>3 DEF RequestServed, Handle, GossipAbout
    <3> QED
      BY <2>1, <3>2, <3>3
  <2>2. CASE HandleMetaRequest(p)
    <3>1. ASSUME NEW m, MetaGetServed(p, m) PROVE GossipAbout'
      <4>1. PICK err, v : Handle(m, {RepResponse(m.key, err, v, m.from)})
        BY <3>1 DEF MetaGetServed
      <4> QED
        BY <4>1, OthersAreNotGossip, HandleOther, SMTT(60)
    <3>2. ASSUME NEW m, MetaPutServed(p, m) PROVE GossipAbout'
      <4>1. PICK err : Handle(m, {MetaAck(m.key, m.version, err)})
        BY <3>2 DEF MetaPutServed
      <4> QED
        BY <4>1, OthersAreNotGossip, HandleOther, SMTT(60)
    <3> QED
      BY <2>2, <3>1, <3>2 DEF HandleMetaRequest
  <2>3. ASSUME NEW m \in Inbox(p, "gossip"), GossipPends(p, m) \/ GossipMerged(p, m)
        PROVE  GossipAbout'
    <3>1. {m.key} \in SUBSET Key
      BY Received
    <3>2. CASE GossipPends(p, m)
      BY <3>1, <3>2, AskSends, HandleAbout DEF GossipPends
    <3>3. CASE GossipMerged(p, m)
      BY <3>3 DEF GossipMerged, Handle, GossipAbout
    <3> QED
      BY <2>3, <3>2, <3>3
  <2>4. ASSUME NEW m \in Inbox(p, "meta_gossip"), MetaGossipReceived(p, m)
        PROVE  GossipAbout'
    BY <2>4, OthersAreNotGossip, SMTT(60) DEF MetaGossipReceived, Handle, GossipAbout
  <2>5. ASSUME NEW m \in Inbox(p, "rep_response"), RepResponseRetried(p, m)
        PROVE  GossipAbout'
    <3>1. {m.key} \in SUBSET Key
      BY Received
    <3> QED
      BY <2>5, <3>1, AskSends, HandleAbout DEF RepResponseRetried
  <2>6. ASSUME NEW m \in Inbox(p, "rep_response"), RepResponseApplied(p, m)
        PROVE  GossipAbout'
    <3>1. PICK to : Handle(m, {}) \/
            Handle(m, {Gossip(m.key, Of(pending_gossip[p], m.key), q) : q \in to})
      BY <2>6 DEF RepResponseApplied
    <3> DEFINE held == Of(pending_gossip[p], m.key)
               out  == {Gossip(m.key, held, q) : q \in to}
    <3>2. \A u \in held : KeyOf[u] = m.key
      BY DEF Of
    <3>3. Handle(m, {}) \/ Handle(m, out)
      BY <3>1
    <3> HIDE DEF held
    <3>4. \A q : About(Gossip(m.key, held, q))
      BY <3>2 DEF Gossip
    <3> HIDE DEF About
    <3>5. \A x \in out : About(x)
      BY <3>4
    <3> HIDE DEF out
    <3>6. CASE Handle(m, {})
      BY <3>6, OthersAreNotGossip, HandleOther
    <3>7. CASE Handle(m, out)
      BY <3>5, <3>7, HandleAbout DEF About
    <3> QED
      BY <3>3, <3>6, <3>7
  <2>7. ASSUME NEW m \in Inbox(p, "rep_change"), ReplicationChange(p, m)
        PROVE  GossipAbout'
    <3> DEFINE value == Of(stored[p], m.key)
    <3>1. {KeyOf[u] : u \in value} \in SUBSET Key
      BY RequestAssumption, SMTT(60) DEF StateTyped, VarsTyped, Of, Put
    <3>2. PICK ask, workers, targets :
            /\ ask \in AskUnknown(p, {KeyOf[u] : u \in value})
            /\ Handle(m, ask \cup {RepChange(m.key, m.version, q) : q \in workers}
                             \cup {Gossip(m.key, value, q) : q \in targets})
      BY <2>7 DEF ReplicationChange
    <3>3. \A x \in ask : About(x)
      BY <3>1, <3>2, AskUnknownSends
    <3>4. \A u \in value : KeyOf[u] = m.key
      BY DEF Of
    <3>5. \A q : About(RepChange(m.key, m.version, q))
      BY DEF RepChange
    <3> HIDE DEF value
    <3>6. \A q : About(Gossip(m.key, value, q))
      BY <3>4 DEF Gossip
    <3> HIDE DEF About
    <3> DEFINE out == ask \cup {RepChange(m.key, m.version, q) : q \in workers}
                          \cup {Gossip(m.key, value, q) : q \in targets}
    <3>7. Handle(m, out) /\ \A x \in out : About(x)
      BY <3>2, <3>3, <3>5, <3>6
    <3> HIDE DEF out
    <3> QED
      BY <3>7, HandleAbout DEF About
  <2>8. CASE GossipTimer(p)
    <3> DEFINE asked == {i.key : i \in {j \in local_changeset[p] : ~j.meta}}
               data  == UNION {UNION {SendItem(p, i, q) : q \in GossipTargets(p, i)} :
                                  i \in local_changeset[p]}
    <3>1. PICK ask \in AskUnknown(p, asked) : msgs' = msgs \cup ask \cup data
      BY <2>8 DEF GossipTimer
    <3>2. asked \in SUBSET Key
      BY SMTT(60) DEF StateTyped, VarsTyped, Item
    <3>3. \A x \in ask : About(x)
      BY <3>1, <3>2, AskUnknownSends
    <3>4. \A x \in data : About(x)
      <4> DEFINE To(i) == UNION {SendItem(p, i, q) : q \in GossipTargets(p, i)}
      <4>1. ASSUME NEW i \in local_changeset[p], NEW x \in To(i) PROVE About(x)
        <5>1. PICK q : x \in SendItem(p, i, q)
          BY <4>1
        <5> HIDE DEF To, data
        <5> QED
          BY <5>1, SendItemAbout
      <4>2. data = UNION {To(i) : i \in local_changeset[p]}
        OBVIOUS
      <4> HIDE DEF To, data
      <4> QED
        BY <4>1, <4>2
    <3> HIDE DEF data
    <3> QED
      BY <3>1, <3>3, <3>4 DEF GossipAbout
  <2> QED
    BY <1>4, <2>1, <2>2, <2>3, <2>4, <2>5, <2>6, <2>7, <2>8
       DEF ServerStep, HandleRequest, HandleGossip, HandleRepResponse, HandleRepChange
<1> QED
  BY <1>1, <1>2, <1>3, <1>4 DEF Next

------------------------------------------------------------------------------
(* No handler forgets a replication factor.                                *)
LEMMA KnowsKept ==
  ASSUME StateTyped, [Next]_vars, NEW p \in Thread, NEW k \in Key, Knows(p, k)
  PROVE  Knows(p, k)'
<1>1. \/ UNCHANGED key_replication_map
      \/ \E q \in Thread : \E j : \E v \in Version :
           key_replication_map' = [key_replication_map EXCEPT ![q][j] = v]
  <2>1. ASSUME NEW q \in Thread, NEW m \in Inbox(q, "rep_response"),
               RepResponseApplied(q, m)
        PROVE  \E j : \E v \in Version :
                 key_replication_map' = [key_replication_map EXCEPT ![q][j] = v]
    <3> DEFINE v == IF m.error = 0 THEN m.version ELSE 0
    <3>1. v \in Version
      BY Received
    <3>2. key_replication_map' = [key_replication_map EXCEPT ![q][m.key] = v]
      BY <2>1 DEF RepResponseApplied
    <3> HIDE DEF v
    <3> QED
      BY <3>1, <3>2
  <2>2. ASSUME NEW q \in Thread, NEW m \in Inbox(q, "rep_change"),
               ReplicationChange(q, m)
        PROVE  \E j : \E v \in Version :
                 key_replication_map' = [key_replication_map EXCEPT ![q][j] = v]
    <3>1. m.version \in Version
      BY Received
    <3>2. key_replication_map' = [key_replication_map EXCEPT ![q][m.key] = m.version]
      BY <2>2 DEF ReplicationChange
    <3> QED
      BY <3>1, <3>2
  <2> QED
    BY <2>1, <2>2
       DEF Next, Client, Monitor, ServerStep, HandleRequest, HandleMetaRequest,
           HandleGossip, HandleRepResponse, HandleRepChange, ClientSend,
           MonitorWrite, MonitorTimeout, MonitorAnswered, RequestPends,
           RequestServed, MetaGetServed, MetaPutServed, GossipPends, GossipMerged,
           MetaGossipReceived, RepResponseRetried, GossipTimer, vars
<1>2. CASE UNCHANGED key_replication_map
  BY <1>2 DEF Knows
<1>3. ASSUME NEW q \in Thread, NEW j, NEW v \in Version,
             key_replication_map' = [key_replication_map EXCEPT ![q][j] = v]
      PROVE  Knows(p, k)'
  <2>1. v # Unknown
    BY RequestAssumption
  <2> QED
    BY <1>3, <2>1 DEF Knows, StateTyped, VarsTyped
<1> QED
  BY <1>1, <1>2, <1>3

(* What a thread comes to store, it knows the replication factor of.       *)
LEMMA StoredGrows ==
  ASSUME StateTyped, GossipAbout, [Next]_vars, NEW p \in Thread, NEW u \in stored'[p]
  PROVE  u \in stored[p] \/ Knows(p, KeyOf[u])'
<1>1. ASSUME NEW m \in Inbox(p, "request"), RequestServed(p, m), u \notin stored[p]
      PROVE  Knows(p, KeyOf[u])'
  <2>1. u = m.req
    <3>1. PICK new \in Merges(stored[p], {m.req} \cap Put, KeyOf[m.req]) :
            stored' = [stored EXCEPT ![p] = @ \cup new]
      BY <1>1 DEF RequestServed
    <3>2. u \in new
      BY <1>1, <3>1 DEF StateTyped, VarsTyped
    <3>3. new \subseteq {m.req} \cap Put
      BY MergesOffered
    <3> QED
      BY <3>2, <3>3
  <2> QED
    BY <1>1, <2>1 DEF RequestServed, Responsible, Knows
<1>2. ASSUME NEW m \in Inbox(p, "gossip"), GossipMerged(p, m), u \notin stored[p]
      PROVE  Knows(p, KeyOf[u])'
  <2>1. u \in m.val
    <3>1. PICK new \in Merges(stored[p], m.val, m.key) :
            stored' = [stored EXCEPT ![p] = @ \cup new]
      BY <1>2 DEF GossipMerged
    <3>2. u \in new
      BY <1>2, <3>1 DEF StateTyped, VarsTyped
    <3>3. new \subseteq m.val
      BY MergesOffered
    <3> QED
      BY <3>2, <3>3
  <2>2. KeyOf[u] = m.key
    BY <2>1 DEF GossipAbout, Inbox
  <2> QED
    BY <1>2, <2>2 DEF GossipMerged, Responsible, Knows
<1>3. ASSUME NEW m \in Inbox(p, "rep_response"), RepResponseApplied(p, m),
             u \notin stored[p]
      PROVE  Knows(p, KeyOf[u])'
  <2> DEFINE v == IF m.error = 0 THEN m.version ELSE 0
  <2>1. v \in Version /\ m.key \in Key
    BY Received
  <2>2. KeyOf[u] = m.key
    <3> DEFINE reqs == Of(pending_requests[p], m.key)
               held == Of(pending_gossip[p], m.key)
    <3>1. PICK new \in Merges(stored[p], reqs \cap Put, m.key) :
          \E more \in Merges(stored[p] \cup new, held, m.key) :
            stored' = [stored EXCEPT ![p] = @ \cup new \cup more]
      BY <1>3 DEF RepResponseApplied
    <3>2. PICK more \in Merges(stored[p] \cup new, held, m.key) :
            stored' = [stored EXCEPT ![p] = @ \cup new \cup more]
      BY <3>1
    <3>3. new \subseteq reqs /\ more \subseteq held
      BY MergesOffered
    <3>4. u \in reqs \/ u \in held
      BY <1>3, <3>2, <3>3 DEF StateTyped, VarsTyped
    <3> QED
      BY <3>4 DEF Of
  <2>3. key_replication_map' = [key_replication_map EXCEPT ![p][m.key] = v]
    BY <1>3 DEF RepResponseApplied
  <2> HIDE DEF v
  <2> QED
    BY <2>1, <2>2, <2>3, RequestAssumption DEF Knows, StateTyped, VarsTyped
<1>4. ASSUME NEW q \in Thread, q # p, ServerStep(q)
      PROVE  stored'[p] = stored[p]
  BY <1>4 DEF ServerStep, HandleRequest, HandleMetaRequest, HandleGossip,
              HandleRepResponse, HandleRepChange, RequestPends, RequestServed,
              MetaGetServed, MetaPutServed, GossipPends, GossipMerged,
              MetaGossipReceived, RepResponseRetried, RepResponseApplied,
              ReplicationChange, GossipTimer, dataVars, StateTyped, VarsTyped
<1>5. CASE ServerStep(p)
  <2>1. ASSUME NEW m, ReplicationChange(p, m)
        PROVE  stored'[p] \subseteq stored[p]
    BY <2>1 DEF ReplicationChange, StateTyped, VarsTyped
  <2> QED
    BY <1>1, <1>2, <1>3, <1>5, <2>1
       DEF ServerStep, HandleRequest, HandleMetaRequest, HandleGossip,
           HandleRepResponse, HandleRepChange, RequestPends, MetaGetServed,
           MetaPutServed, GossipPends, MetaGossipReceived, RepResponseRetried,
           GossipTimer, dataVars
<1>6. CASE Client \/ Monitor \/ UNCHANGED vars
  BY <1>6 DEF Client, Monitor, ClientSend, MonitorWrite, MonitorTimeout,
              MonitorAnswered, vars, dataVars
<1> QED
  BY <1>4, <1>5, <1>6 DEF Next

LEMMA StoredHasReplicationStep ==
  ASSUME StateTyped, GossipAbout, StoredHasReplication, [Next]_vars
  PROVE  StoredHasReplication'
<1> SUFFICES ASSUME NEW p \in Thread, NEW u \in stored'[p]
             PROVE  Knows(p, KeyOf[u])'
  BY DEF StoredHasReplication
<1>1. CASE u \in stored[p]
  <2>1. KeyOf[u] \in Key /\ Knows(p, KeyOf[u])
    BY <1>1, RequestAssumption DEF StateTyped, VarsTyped, StoredHasReplication, Put
  <2> QED
    BY <2>1, KnowsKept
<1> QED
  BY <1>1, StoredGrows

(* A thread never stores a data key whose replication factor it does not   *)
(* know, so the branches "Missing key replication factor ... This should   *)
(* never happen" of the gossip, join, departure and replication change     *)
(* routines are dead while the membership of the cluster stands.           *)
THEOREM StoredReplicationKnown == Spec => []StoredHasReplication
<1> DEFINE Inv == StateTyped /\ GossipAbout /\ StoredHasReplication
<1>1. Init => Inv
  BY TypeInit, StepKeepsTypes DEF Init, GossipAbout, StoredHasReplication
<1>2. Inv /\ [Next]_vars => Inv'
  BY TypeStep, GossipAboutStep, StoredHasReplicationStep
<1>3. Inv => StoredHasReplication
  OBVIOUS
<1> QED
  BY <1>1, <1>2, <1>3, PTL DEF Spec

------------------------------------------------------------------------------
(* The threads of a thread's own tier are among those of all tiers.        *)
LEMMA SelfTierAmongAll ==
  ASSUME NEW p \in Thread, NEW k, NEW v
  PROVE  SelfTierThreads(p, k, v) \subseteq AllTierThreads(p, k, v)
<1>1. SelfTier(p) \in Tier
  BY NodeAssumption DEF SelfTier, NodeOf, Thread
<1> QED
  BY <1>1 DEF SelfTierThreads, AllTierThreads, get_responsible_threads

(* Only replication_change_handler takes values out of the store.          *)
LEMMA StoredShrinks ==
  ASSUME StateTyped, [Next]_vars, NEW p \in Thread, ~(stored[p] \subseteq stored'[p])
  PROVE  \E m \in Inbox(p, "rep_change") : ReplicationChange(p, m)
<1>1. CASE Client \/ Monitor \/ UNCHANGED vars
  BY <1>1 DEF Client, Monitor, ClientSend, MonitorWrite, MonitorTimeout,
              MonitorAnswered, vars, dataVars
<1>2. ASSUME NEW q \in Thread, ServerStep(q), ~HandleRepChange(q)
      PROVE  stored[p] \subseteq stored'[p]
  <2>1. ASSUME NEW m, RequestServed(q, m) PROVE stored[p] \subseteq stored'[p]
    <3>1. PICK new : stored' = [stored EXCEPT ![q] = @ \cup new]
      BY <2>1 DEF RequestServed
    <3>2. stored \in [Thread -> SUBSET Put]
      BY DEF StateTyped, VarsTyped
    <3> QED
      BY <3>1, <3>2
  <2>2. ASSUME NEW m, GossipMerged(q, m) PROVE stored[p] \subseteq stored'[p]
    BY <2>2 DEF GossipMerged, StateTyped, VarsTyped
  <2>3. ASSUME NEW m, RepResponseApplied(q, m) PROVE stored[p] \subseteq stored'[p]
    <3>1. UNCHANGED stored \/
          \E new, more : stored' = [stored EXCEPT ![q] = @ \cup new \cup more]
      BY <2>3 DEF RepResponseApplied
    <3> QED
      BY <3>1 DEF StateTyped, VarsTyped
  <2> QED
    BY <1>2, <2>1, <2>2, <2>3
       DEF ServerStep, HandleRequest, HandleMetaRequest, HandleGossip,
           HandleRepResponse, RequestPends, MetaGetServed, MetaPutServed,
           GossipPends, MetaGossipReceived, RepResponseRetried, GossipTimer, dataVars
<1>3. ASSUME NEW q \in Thread, NEW m \in Inbox(q, "rep_change"),
             ReplicationChange(q, m), q # p
      PROVE  stored[p] \subseteq stored'[p]
  BY <1>3 DEF ReplicationChange, StateTyped, VarsTyped
<1> QED
  BY <1>1, <1>2, <1>3 DEF Next, HandleRepChange

(* A thread drops a key only when it is not responsible for it any more.   *)
THEOREM OnlyForeignDropped == Spec => DropsOnlyForeign
<1>1. ASSUME StateTyped, [Next]_vars, NEW p \in Thread, NEW k \in Key,
             Of(stored[p], k) # {}, Of(stored'[p], k) = {}
      PROVE  ~Responsible(p, k)'
  <2>1. PICK m \in Inbox(p, "rep_change") : ReplicationChange(p, m)
    BY <1>1, StoredShrinks DEF Of
  <2>2. m.key \in Key /\ m.version \in Version
    BY <1>1, Received
  <2> DEFINE value  == Of(stored[p], m.key)
             leaves == p \notin AllTierThreads(p, m.key, m.version)
  <2>3. \/ stored'[p] = stored[p]
        \/ leaves /\ stored'[p] = stored[p] \ value
    BY <1>1, <2>1 DEF ReplicationChange, StateTyped, VarsTyped
  <2>4. leaves /\ k = m.key
    BY <1>1, <2>3 DEF Of
  <2>5. UNCHANGED global_hash_rings /\ key_replication_map'[p][k] = m.version
    BY <1>1, <2>1, <2>2, <2>4 DEF ReplicationChange, ringVars, StateTyped, VarsTyped
  <2>6. SelfTierThreads(p, k, m.version)' = SelfTierThreads(p, k, m.version)
    BY <2>5 DEF SelfTierThreads, Ring
  <2> QED
    BY <2>4, <2>5, <2>6, SelfTierAmongAll DEF Responsible
<1>2. StateTyped /\ [Next]_vars =>
        [\A p \in Thread : \A k \in Key :
           Of(stored[p], k) # {} /\ Of(stored'[p], k) = {} /\ status'[p] = "up"
             => ~Responsible(p, k)']_vars
  BY <1>1
<1> QED
  BY <1>2, TypeCorrect, StepKeepsTypes, PTL DEF Spec, DropsOnlyForeign

------------------------------------------------------------------------------
(* What keeps a thread waiting for a lookup in sight of its answer.        *)
LEMMA WaitKept ==
  ASSUME NEW m, m.type \notin {"rep_request", "rep_response"},
         msgs \ {m} \subseteq msgs', NEW p, NEW k, WaitsForLookup(p, k)
  PROVE  WaitsForLookup(p, k)'
  BY DEF WaitsForLookup

LEMMA AskWaits ==
  ASSUME NEW p \in Thread, NEW k \in Key, NEW ask \in Ask(p, {k}), ask \subseteq msgs'
  PROVE  WaitsForLookup(p, k)'
<1>1. PICK q \in Thread : RepRequest(k, p, q) \in ask
  BY AskSends
<1> QED
  BY <1>1, MessageTypes, SMTT(60) DEF WaitsForLookup

(* A step that leaves the queues alone, or adds what a lookup was sent     *)
(* for, and consumes no lookup.                                            *)
LEMMA StrandedByOther ==
  ASSUME NothingStranded, NEW m, m.type \notin {"rep_request", "rep_response"},
         msgs \ {m} \subseteq msgs',
         \A p \in Thread :
           /\ \A r \in pending_requests'[p] :
                r \in pending_requests[p] \/ WaitsForLookup(p, KeyOf[r])'
           /\ \A u \in pending_gossip'[p] :
                u \in pending_gossip[p] \/ WaitsForLookup(p, KeyOf[u])'
  PROVE  NothingStranded'
  BY WaitKept DEF NothingStranded

LEMMA RequestPendsStranded ==
  ASSUME StateTyped, NothingStranded, NEW p \in Thread, NEW m \in Inbox(p, "request"),
         RequestPends(p, m)
  PROVE  NothingStranded'
<1> DEFINE k == KeyOf[m.req]
<1>1. k \in Key /\ m.type = "request"
  BY Received DEF Inbox
<1>2. PICK ask \in Ask(p, {k}) : msgs' = (msgs \ {m}) \cup ask
  BY DEF RequestPends, Handle
<1>3. WaitsForLookup(p, k)'
  BY <1>1, <1>2, AskWaits
<1>4. /\ pending_requests' = [pending_requests EXCEPT ![p] = @ \cup {m.req}]
      /\ UNCHANGED pending_gossip
  BY DEF RequestPends
<1>5. \A q \in Thread : \A r \in pending_requests'[q] :
        r \in pending_requests[q] \/ (q = p /\ r = m.req)
  BY <1>4 DEF StateTyped, VarsTyped
<1> QED
  BY <1>1, <1>2, <1>3, <1>4, <1>5, StrandedByOther

LEMMA GossipPendsStranded ==
  ASSUME StateTyped, GossipAbout, NothingStranded, NEW p \in Thread,
         NEW m \in Inbox(p, "gossip"), GossipPends(p, m)
  PROVE  NothingStranded'
<1>1. m.key \in Key /\ m.type = "gossip" /\ \A u \in m.val : KeyOf[u] = m.key
  BY Received DEF GossipAbout, Inbox
<1>2. PICK ask \in Ask(p, {m.key}) : msgs' = (msgs \ {m}) \cup ask
  BY DEF GossipPends, Handle
<1>3. WaitsForLookup(p, m.key)'
  BY <1>1, <1>2, AskWaits
<1>4. /\ pending_gossip' = [pending_gossip EXCEPT ![p] = @ \cup m.val]
      /\ UNCHANGED pending_requests
  BY DEF GossipPends
<1>5. \A q \in Thread : \A u \in pending_gossip'[q] :
        u \in pending_gossip[q] \/ (q = p /\ u \in m.val)
  BY <1>4 DEF StateTyped, VarsTyped
<1> QED
  BY <1>1, <1>2, <1>3, <1>4, <1>5, StrandedByOther

LEMMA MetaGetServedStranded ==
  ASSUME StateTyped, NothingStranded, NEW p \in Thread,
         NEW m \in Inbox(p, "rep_request"), MetaGetServed(p, m)
  PROVE  NothingStranded'
<1>1. PICK err, v : msgs' = (msgs \ {m}) \cup {RepResponse(m.key, err, v, m.from)}
  BY DEF MetaGetServed, Handle
<1>2. m.type = "rep_request"
  BY DEF Inbox
<1>3. ASSUME NEW q, NEW k, WaitsForLookup(q, k)
      PROVE  WaitsForLookup(q, k)'
  <2>1. PICK x \in msgs : /\ x.type \in {"rep_request", "rep_response"}
                          /\ x.key = k
                          /\ q = IF x.type = "rep_request" THEN x.from ELSE x.dst
    BY <1>3 DEF WaitsForLookup
  <2>2. CASE x = m
    <3>1. q = m.from /\ k = m.key
      BY <1>2, <2>1, <2>2
    <3> QED
      BY <1>1, <3>1, MessageTypes, SMTT(60) DEF WaitsForLookup
  <2>3. CASE x # m
    BY <1>1, <2>1, <2>3 DEF WaitsForLookup
  <2> QED
    BY <2>2, <2>3
<1> QED
  BY <1>3 DEF MetaGetServed, pendVars, NothingStranded

LEMMA RepResponseStranded ==
  ASSUME StateTyped, NothingStranded, NEW p \in Thread,
         NEW m \in Inbox(p, "rep_response"),
         RepResponseRetried(p, m) \/ RepResponseApplied(p, m)
  PROVE  NothingStranded'
<1>1. m.type = "rep_response" /\ m.dst = p /\ m.key \in Key
  BY Received DEF Inbox
<1>2. ASSUME NEW q, NEW k, WaitsForLookup(q, k), msgs \ {m} \subseteq msgs',
             q # p \/ k # m.key
      PROVE  WaitsForLookup(q, k)'
  BY <1>1, <1>2 DEF WaitsForLookup
<1>3. CASE RepResponseRetried(p, m)
  <2>1. PICK ask \in Ask(p, {m.key}) : msgs' = (msgs \ {m}) \cup ask
    BY <1>3 DEF RepResponseRetried, Handle
  <2>2. WaitsForLookup(p, m.key)'
    BY <1>1, <2>1, AskWaits
  <2>3. UNCHANGED pendVars
    BY <1>3 DEF RepResponseRetried
  <2> QED
    BY <1>2, <2>1, <2>2, <2>3 DEF NothingStranded, pendVars
<1>4. CASE RepResponseApplied(p, m)
  <2>1. msgs \ {m} \subseteq msgs'
    BY <1>4 DEF RepResponseApplied, Handle
  <2>2. /\ pending_requests' = [pending_requests EXCEPT
                                  ![p] = @ \ Of(pending_requests[p], m.key)]
        /\ pending_gossip' = [pending_gossip EXCEPT
                                ![p] = @ \ Of(pending_gossip[p], m.key)]
    BY <1>4 DEF RepResponseApplied
  <2>3. ASSUME NEW q \in Thread
        PROVE  /\ \A r \in pending_requests'[q] :
                    r \in pending_requests[q] /\ (q # p \/ KeyOf[r] # m.key)
               /\ \A u \in pending_gossip'[q] :
                    u \in pending_gossip[q] /\ (q # p \/ KeyOf[u] # m.key)
    BY <2>2 DEF StateTyped, VarsTyped, Of
  <2> QED
    BY <1>2, <2>1, <2>3 DEF NothingStranded
<1> QED
  BY <1>3, <1>4

LEMMA NothingStrandedStep ==
  ASSUME StateTyped, GossipAbout, NothingStranded, [Next]_vars
  PROVE  NothingStranded'
<1>1. ASSUME NEW m, m.type \notin {"rep_request", "rep_response"},
             msgs \ {m} \subseteq msgs', UNCHANGED pendVars
      PROVE  NothingStranded'
  BY <1>1, StrandedByOther DEF pendVars
<1>2. ASSUME NEW p \in Thread, HandleRequest(p) PROVE NothingStranded'
  <2>1. ASSUME NEW m \in Inbox(p, "request"), RequestServed(p, m)
        PROVE  NothingStranded'
    BY <1>1, <2>1 DEF RequestServed, Handle, Inbox
  <2> QED
    BY <1>2, <2>1, RequestPendsStranded DEF HandleRequest
<1>3. ASSUME NEW p \in Thread, HandleMetaRequest(p) PROVE NothingStranded'
  <2>1. ASSUME NEW m \in Inbox(p, "meta_put"), MetaPutServed(p, m)
        PROVE  NothingStranded'
    BY <1>1, <2>1 DEF MetaPutServed, Handle, Inbox
  <2> QED
    BY <1>3, <2>1, MetaGetServedStranded DEF HandleMetaRequest
<1>4. ASSUME NEW p \in Thread, HandleGossip(p) PROVE NothingStranded'
  <2>1. ASSUME NEW m \in Inbox(p, "gossip"), GossipMerged(p, m)
        PROVE  NothingStranded'
    BY <1>1, <2>1 DEF GossipMerged, Handle, Inbox
  <2>2. ASSUME NEW m \in Inbox(p, "meta_gossip"), MetaGossipReceived(p, m)
        PROVE  NothingStranded'
    BY <1>1, <2>2 DEF MetaGossipReceived, Handle, Inbox
  <2> QED
    BY <1>4, <2>1, <2>2, GossipPendsStranded DEF HandleGossip
<1>5. ASSUME NEW p \in Thread, HandleRepResponse(p) PROVE NothingStranded'
  BY <1>5, RepResponseStranded DEF HandleRepResponse
<1>6. ASSUME NEW p \in Thread, HandleRepChange(p) PROVE NothingStranded'
  <2>1. PICK m \in Inbox(p, "rep_change") : ReplicationChange(p, m)
    BY <1>6 DEF HandleRepChange
  <2>2. msgs \ {m} \subseteq msgs' /\ UNCHANGED pendVars
    BY <2>1 DEF ReplicationChange, Handle
  <2> QED
    BY <1>1, <2>2 DEF Inbox
<1>7. ASSUME msgs \subseteq msgs', UNCHANGED pendVars PROVE NothingStranded'
  BY <1>7 DEF NothingStranded, WaitsForLookup, pendVars
<1>8. ASSUME NEW p \in Thread, GossipTimer(p) PROVE NothingStranded'
  <2>1. msgs \subseteq msgs' /\ UNCHANGED pendVars
    BY <1>8 DEF GossipTimer
  <2> QED
    BY <1>7, <2>1
<1>9. CASE Client
  BY <1>7, <1>9 DEF Client, ClientSend
<1>10. CASE Monitor
  <2>1. CASE MonitorAnswered
    BY <1>1, <2>1 DEF MonitorAnswered, Handle
  <2>2. ASSUME NEW k \in Key, MonitorWrite(k) \/ MonitorTimeout(k)
        PROVE  NothingStranded'
    BY <1>7, <2>2 DEF MonitorWrite, MonitorTimeout
  <2> QED
    BY <1>10, <2>1, <2>2 DEF Monitor
<1>11. CASE UNCHANGED vars
  BY <1>7, <1>11 DEF vars
<1> QED
  BY <1>2, <1>3, <1>4, <1>5, <1>6, <1>8, <1>9, <1>10, <1>11 DEF Next, ServerStep

(* The requests and the gossip that wait for a replication factor are      *)
(* never stranded: a lookup, or its answer, is in flight for each of them. *)
THEOREM LookupsPending == Spec => []NothingStranded
<1> DEFINE Inv == StateTyped /\ GossipAbout /\ NothingStranded
<1>1. Init => Inv
  BY TypeInit, StepKeepsTypes DEF Init, GossipAbout, NothingStranded
<1>2. Inv /\ [Next]_vars => Inv'
  BY TypeStep, GossipAboutStep, NothingStrandedStep
<1>3. Inv => NothingStranded
  OBVIOUS
<1> QED
  BY <1>1, <1>2, <1>3, PTL DEF Spec

------------------------------------------------------------------------------
(* The values of a key at a thread are of one lattice type.                *)
OneType(S) == \A u, w \in S : KeyOf[u] = KeyOf[w] => TypeOf[u] = TypeOf[w]

(* What is merged into a key with values has the type of those, and what   *)
(* is merged into a key without values has one type.                       *)
LEMMA MergesOneType ==
  ASSUME NEW S, NEW offered, NEW k, OneType(S), \A u \in offered : KeyOf[u] = k,
         NEW new \in Merges(S, offered, k)
  PROVE  OneType(S \cup new)
<1> DEFINE types == {TypeOf[u] : u \in Of(S, k)}
           valid == {u \in offered : TypeOf[u] # NoType}
<1>1. \A u \in new : KeyOf[u] = k
  BY MergesOffered
<1>2. CASE types # {}
  <2>1. new = {u \in valid : TypeOf[u] \in types}
    BY <1>2 DEF Merges
  <2>2. \A u \in new, w \in S : KeyOf[w] = k => TypeOf[u] = TypeOf[w]
    BY <2>1, SMTT(60) DEF OneType, Of
  <2>3. \A u, w \in new : TypeOf[u] = TypeOf[w]
    BY <2>1, SMTT(60) DEF OneType, Of
  <2> QED
    BY <1>1, <2>2, <2>3 DEF OneType
<1>3. CASE types = {}
  <2>1. \A u \in S : KeyOf[u] # k
    BY <1>3 DEF Of
  <2>2. \A u, w \in new : TypeOf[u] = TypeOf[w]
    <3>1. CASE valid = {}
      BY <3>1 DEF Merges
    <3>2. CASE valid # {}
      <4>1. new \in {{u \in valid : TypeOf[u] = t} : t \in {TypeOf[u] : u \in valid}}
        BY <1>3, <3>2 DEF Merges
      <4> HIDE DEF valid
      <4>2. PICK t : new = {u \in valid : TypeOf[u] = t}
        BY <4>1
      <4> QED
        BY <4>2
    <3> QED
      BY <3>1, <3>2
  <2> QED
    BY <1>1, <2>1, <2>2 DEF OneType
<1> QED
  BY <1>2, <1>3

(* Only the thread that takes the step changes what it stores.             *)
LEMMA StoredUpdated ==
  ASSUME StateTyped, OneTypePerKey, NEW p \in Thread, NEW S, OneType(S),
         stored' = [stored EXCEPT ![p] = S]
  PROVE  OneTypePerKey'
  BY SMTT(60) DEF StateTyped, VarsTyped, OneTypePerKey, OneType

LEMMA OneTypeStep ==
  ASSUME StateTyped, GossipAbout, OneTypePerKey, [Next]_vars
  PROVE  OneTypePerKey'
<1> USE DEF dataVars
<1>0. \A p \in Thread : OneType(stored[p])
  BY DEF OneTypePerKey, OneType
<1>1. CASE UNCHANGED stored
  BY <1>1 DEF OneTypePerKey
<1>2. ASSUME NEW p \in Thread, NEW m \in Inbox(p, "request"), RequestServed(p, m)
      PROVE  OneTypePerKey'
  <2>1. PICK new \in Merges(stored[p], {m.req} \cap Put, KeyOf[m.req]) :
          stored' = [stored EXCEPT ![p] = stored[p] \cup new]
    BY <1>2 DEF RequestServed
  <2>2. OneType(stored[p] \cup new)
    BY <1>0, MergesOneType
  <2> QED
    BY <2>1, <2>2, StoredUpdated
<1>3. ASSUME NEW p \in Thread, NEW m \in Inbox(p, "gossip"), GossipMerged(p, m)
      PROVE  OneTypePerKey'
  <2>1. PICK new \in Merges(stored[p], m.val, m.key) :
          stored' = [stored EXCEPT ![p] = stored[p] \cup new]
    BY <1>3 DEF GossipMerged
  <2>2. \A u \in m.val : KeyOf[u] = m.key
    BY DEF GossipAbout, Inbox
  <2>3. OneType(stored[p] \cup new)
    BY <1>0, <2>2, MergesOneType
  <2> QED
    BY <2>1, <2>3, StoredUpdated
<1>4. ASSUME NEW p \in Thread, NEW m \in Inbox(p, "rep_response"), RepResponseApplied(p, m)
      PROVE  OneTypePerKey'
  <2> DEFINE k    == m.key
             puts == Of(pending_requests[p], k) \cap Put
             held == Of(pending_gossip[p], k)
  <2>1. \/ UNCHANGED stored
        \/ \E new \in Merges(stored[p], puts, k) :
           \E more \in Merges(stored[p] \cup new, held, k) :
             stored' = [stored EXCEPT ![p] = stored[p] \cup new \cup more]
    BY <1>4 DEF RepResponseApplied
  <2>2. /\ \A u \in puts : KeyOf[u] = k
        /\ \A u \in held : KeyOf[u] = k
    BY DEF Of
  <2> HIDE DEF k, puts, held
  <2>3. ASSUME NEW new \in Merges(stored[p], puts, k),
               NEW more \in Merges(stored[p] \cup new, held, k)
        PROVE  OneType(stored[p] \cup new \cup more)
    <3>1. OneType(stored[p] \cup new)
      BY <1>0, <2>2, MergesOneType
    <3> QED
      BY <2>2, <3>1, MergesOneType
  <2> QED
    BY <1>1, <2>1, <2>3, StoredUpdated
<1>5. ASSUME NEW p \in Thread, NEW m \in Inbox(p, "rep_change"), ReplicationChange(p, m)
      PROVE  OneTypePerKey'
  <2>1. PICK S \in SUBSET stored[p] : stored' = [stored EXCEPT ![p] = S]
    BY <1>5 DEF ReplicationChange
  <2>2. OneType(S)
    BY <1>0 DEF OneType
  <2> QED
    BY <2>1, <2>2, StoredUpdated
<1>6. ASSUME NEW p \in Thread, ServerStep(p)
      PROVE  OneTypePerKey'
  <2>1. ASSUME NEW m, \/ RequestPends(p, m) \/ MetaGetServed(p, m) \/ MetaPutServed(p, m)
                      \/ GossipPends(p, m) \/ MetaGossipReceived(p, m)
                      \/ RepResponseRetried(p, m)
        PROVE  UNCHANGED stored
    BY <2>1 DEF RequestPends, MetaGetServed, MetaPutServed, GossipPends, MetaGossipReceived,
                RepResponseRetried
  <2>2. CASE GossipTimer(p)
    BY <1>1, <2>2 DEF GossipTimer
  <2> QED
    BY <1>1, <1>2, <1>3, <1>4, <1>5, <1>6, <2>1, <2>2
       DEF ServerStep, HandleRequest, HandleMetaRequest, HandleGossip, HandleRepResponse,
           HandleRepChange
<1>7. CASE Client \/ Monitor \/ UNCHANGED vars
  BY <1>1, <1>7 DEF Client, ClientSend, Monitor, MonitorWrite, MonitorTimeout,
                           MonitorAnswered, vars
<1> QED
  BY <1>6, <1>7 DEF Next

(* For every number of nodes, threads, tiers, keys and requests:           *)
(* process_put keeps the values of a key at a thread in one lattice type,  *)
(* also when pending requests and pending gossip of several types are      *)
(* applied at once (replication_response_handler).                         *)
THEOREM TypesKept == Spec => []OneTypePerKey
<1> DEFINE Inv == StateTyped /\ GossipAbout /\ OneTypePerKey
<1>1. Init => Inv
  BY TypeInit, StepKeepsTypes DEF Init, GossipAbout, OneTypePerKey
<1>2. Inv /\ [Next]_vars => Inv'
  BY TypeStep, GossipAboutStep, OneTypeStep
<1> QED
  BY <1>1, <1>2, PTL DEF Spec

(* The PUTs of a key have one lattice type.  (process_put is skipped for   *)
(* another type than the stored one.)                                      *)
UniformTypes ==
  \A r, s \in Put : /\ TypeOf[r] # NoType
                    /\ KeyOf[r] = KeyOf[s] => TypeOf[r] = TypeOf[s]

(* Every tier that has nodes keeps a replica of every key.  (Without it    *)
(* pending gossip may be dropped: instance MCKvsServer_tier.cfg.)          *)
HeldInEveryTier ==
  \A v \in Version, n \in InitNodes :
    RepOf[v].global[TierOf[n]] > 0 /\ RepOf[v].local[TierOf[n]] > 0

------------------------------------------------------------------------------
(* The empty set has no members: by the recursive definition of            *)
(* Cardinality.                                                            *)
LEMMA NoMembers == Cardinality({}) = 0
<1> DEFINE count(f) == [T \in SUBSET {} |->
                          IF T = {} THEN 0 ELSE 1 + f[T \ {CHOOSE x : x \in T}]]
           CS == CHOOSE f : f = count(f)
<1>1. Cardinality({}) = CS[{}]
  BY DEF Cardinality
<1>2. \A f : count(f) = [T \in SUBSET {} |-> 0]
  OBVIOUS
<1>3. \E f : f = count(f)
  BY <1>2
<1>4. CS = count(CS)
  BY <1>3
<1> HIDE DEF CS
<1> QED
  BY <1>1, <1>2, <1>4

(* A walk that is to find at least one member of a non-empty set finds one.*)
LEMMA WalkFindsFirst ==
  ASSUME NEW T, NEW S \in SUBSET T, S # {}, NEW rank \in [T -> Nat],
         NEW n \in Nat, n > 0
  PROVE  FirstOnWalk(S, rank, n) # {}
<1> DEFINE R == {rank[x] : x \in S}
<1>1. R \subseteq Nat /\ R # {}
  OBVIOUS
<1>2. PICK r \in R : \A y \in R : ~(<<y, r>> \in OpToRel(<, Nat))
  BY <1>1, WFMin, NatLessThanWellFounded
<1>3. \A y \in R : ~(y < r)
  BY <1>1, <1>2 DEF OpToRel
<1>4. PICK x \in S : rank[x] = r
  OBVIOUS
<1>5. {y \in S : rank[y] < rank[x]} = {}
  BY <1>3, <1>4
<1>6. Cardinality({y \in S : rank[y] < rank[x]}) = 0
  BY <1>5, NoMembers
<1> QED
  BY <1>6 DEF FirstOnWalk

(* With one lattice type per key every PUT that is offered is merged.      *)
LEMMA MergesAll ==
  ASSUME UniformTypes, NEW S \in SUBSET Put, NEW k, NEW offered \in SUBSET Of(Put, k),
         NEW new \in Merges(S, offered, k)
  PROVE  new = offered
<1>1. \A u \in offered : u \in Put /\ KeyOf[u] = k /\ TypeOf[u] # NoType
  BY DEF Of, UniformTypes
<1>2. \A u \in offered : \A w \in offered \cup Of(S, k) : TypeOf[u] = TypeOf[w]
  BY <1>1 DEF Of, UniformTypes
<1> DEFINE types == {TypeOf[u] : u \in Of(S, k)}
           valid == {u \in offered : TypeOf[u] # NoType}
<1>3. valid = offered
  BY <1>1
<1>4. CASE types # {} \/ valid = {}
  <2>1. new = {u \in valid : TypeOf[u] \in types}
    BY <1>4 DEF Merges
  <2> QED
    BY <1>2, <1>3, <1>4, <2>1
<1>5. CASE types = {} /\ valid # {}
  <2>1. PICK t \in {TypeOf[u] : u \in valid} : new = {u \in valid : TypeOf[u] = t}
    BY <1>5 DEF Merges
  <2> QED
    BY <1>2, <1>3, <2>1
<1> QED
  BY <1>4, <1>5

------------------------------------------------------------------------------
(* No step of KvsServer changes who runs or what the rings hold.           *)
LEMMA RingsUnchanged == [Next]_vars => UNCHANGED ringVars
<1>1. ASSUME Next PROVE UNCHANGED ringVars
  <2>1. CASE Client \/ Monitor
    BY <2>1 DEF Client, Monitor, ClientSend, MonitorWrite, MonitorTimeout,
                MonitorAnswered
  <2>2. ASSUME NEW p \in Thread, ServerStep(p) PROVE UNCHANGED ringVars
    BY <2>2 DEF ServerStep, HandleRequest, HandleMetaRequest, HandleGossip,
                HandleRepResponse, HandleRepChange, RequestPends, RequestServed,
                MetaGetServed, MetaPutServed, GossipPends, GossipMerged,
                MetaGossipReceived, RepResponseRetried, RepResponseApplied,
                ReplicationChange, GossipTimer
  <2> QED
    BY <1>1, <2>1, <2>2 DEF Next
<1> QED
  BY <1>1 DEF vars

(* The membership does not change in this module.                          *)
RingsFixed ==
  /\ status = [p \in Thread |-> IF NodeOf(p) \in InitNodes THEN "up" ELSE "off"]
  /\ global_hash_rings = [p \in Thread |-> FullRing]

LEMMA RingsFixedStep == RingsFixed /\ [Next]_vars => RingsFixed'
  BY RingsUnchanged DEF RingsFixed, ringVars

LEMMA RingIsInit ==
  ASSUME RingsFixed, NEW p \in Thread
  PROVE  /\ Ring(p) = InitNodes
         /\ status[p] = "up" <=> NodeOf(p) \in InitNodes
  BY RequestAssumption, SMTT(60) DEF RingsFixed, Ring, FullRing, Absent

(* Every tier that has nodes has responsible threads, and they are up.     *)
LEMMA TierHasOwners ==
  ASSUME HeldInEveryTier, RingsFixed, NEW p \in Thread, status[p] = "up",
         NEW k \in Key, NEW v \in Version
  PROVE  /\ SelfTierThreads(p, k, v) # {}
         /\ \A q \in AllTierThreads(p, k, v) : q \in Thread /\ status[q] = "up"
<1> DEFINE t == SelfTier(p)
           r == RepOf[v]
<1>1. NodeOf(p) \in InitNodes /\ Ring(p) = InitNodes
  BY RingIsInit
<1>2. r.global[t] > 0 /\ r.local[t] > 0
  BY <1>1 DEF HeldInEveryTier, SelfTier
<1>3. t \in Tier /\ r.global[t] \in Nat /\ r.local[t] \in Nat
  BY NodeAssumption, ReplicationAssumption DEF SelfTier, NodeOf, Thread, KeyReplication
<1>4. responsible_global(Ring(p), k, t, r) # {}
  <2>1. InTier(Ring(p), t) \in SUBSET Node /\ InTier(Ring(p), t) # {}
    BY <1>1, RequestAssumption DEF InTier, SelfTier
  <2>2. DataRank[k] \in [Node -> Nat]
    BY RankAssumption
  <2> HIDE DEF t, r
  <2> QED
    BY <1>2, <1>3, <2>1, <2>2, WalkFindsFirst DEF responsible_global
<1>5. responsible_local(k, t, r) # {}
  <2>1. DataTidRank[k] \in [Tid -> Nat] /\ Tid # {}
    BY RankAssumption, NodeAssumption
  <2> HIDE DEF t, r
  <2> QED
    BY <1>2, <1>3, <2>1, WalkFindsFirst DEF responsible_local
<1>6. SelfTierThreads(p, k, v) # {}
  <2>1. PICK n \in responsible_global(Ring(p), k, t, r), i \in responsible_local(k, t, r) :
          TRUE
    BY <1>4, <1>5
  <2>2. <<n, i>> \in responsible_global(Ring(p), k, t, r) \X responsible_local(k, t, r)
    BY <2>1
  <2> QED
    BY <2>2 DEF SelfTierThreads, get_responsible_threads
<1>7. ASSUME NEW q \in AllTierThreads(p, k, v)
      PROVE  q \in Thread /\ status[q] = "up"
  <2>1. q \in Thread
    BY TargetsAreThreads
  <2>2. PICK tier \in Tier : q \in responsible_global(Ring(p), k, tier, RepOf[v]) \X
                                    responsible_local(k, tier, RepOf[v])
    BY DEF AllTierThreads, get_responsible_threads
  <2>3. responsible_global(Ring(p), k, tier, RepOf[v]) \subseteq Ring(p)
    BY RingNodes, ResponsibleAreThreads
  <2>4. NodeOf(q) \in Ring(p)
    BY <2>2, <2>3 DEF NodeOf
  <2> QED
    BY <1>1, <2>1, <2>4, RingIsInit
<1> QED
  BY <1>6, <1>7

------------------------------------------------------------------------------
(* A PUT that a running thread has, or is being sent.                      *)
HeldBy(u, p) ==
  /\ status[p] = "up"
  /\ u \in stored[p] \/ u \in pending_gossip[p] \/ CarriedTo(u, p)

(* A thread that drops a key sends it to threads that are up.              *)
LEMMA DroppedIsSent ==
  ASSUME HeldInEveryTier, StateTyped, RingsFixed, RingsFixed', StoredHasReplication,
         NEW p \in Thread, NEW m \in Inbox(p, "rep_change"), ReplicationChange(p, m),
         NEW u \in stored[p], u \notin stored'[p]
  PROVE  \E q \in Thread : HeldBy(u, q)'
<1> DEFINE value == Of(stored[p], m.key)
           after == AllTierThreads(p, m.key, m.version)
           targets == RepChangeTargets(p, m.key, key_replication_map[p][m.key], m.version)
<1>1. status[p] = "up" /\ m.key \in Key /\ m.version \in Version
  BY Received DEF Inbox
<1>2. u \in value /\ Knows(p, m.key) /\ p \notin after
  BY DEF ReplicationChange, StateTyped, VarsTyped, Of, StoredHasReplication
<1>3. after \subseteq targets
  BY <1>2 DEF RepChangeTargets
<1>4. \A q \in targets : Gossip(m.key, value, q) \in msgs'
  BY <1>2 DEF ReplicationChange, Handle
<1>5. PICK q \in after : q \in Thread /\ status[q] = "up"
  BY <1>1, TierHasOwners, SelfTierAmongAll, SMTT(60)
<1>6. CarriedTo(u, q)'
  <2> HIDE DEF value, after, targets
  <2> QED
    BY <1>2, <1>3, <1>4, <1>5 DEF CarriedTo, Gossip
<1>7. status' = status
  BY DEF RingsFixed
<1> QED
  BY <1>5, <1>6, <1>7 DEF HeldBy

(* Pending gossip is merged by a thread that is responsible for the key    *)
(* under the factor that it has looked up.                                 *)
LEMMA PendingIsMerged ==
  ASSUME UniformTypes, StateTyped, NEW p \in Thread, NEW m, RepResponseApplied(p, m),
         NEW u \in pending_gossip[p], KeyOf[u] = m.key,
         p \in SelfTierThreads(p, m.key, IF m.error = 0 THEN m.version ELSE 0)
  PROVE  u \in stored'[p]
<1> DEFINE reqs == Of(pending_requests[p], m.key)
           held == Of(pending_gossip[p], m.key)
<1>1. u \in held
  BY DEF Of
<1>2. PICK new \in Merges(stored[p], reqs \cap Put, m.key) :
      \E more \in Merges(stored[p] \cup new, held, m.key) :
        stored' = [stored EXCEPT ![p] = @ \cup new \cup more]
  BY DEF RepResponseApplied
<1>3. PICK more \in Merges(stored[p] \cup new, held, m.key) :
        stored' = [stored EXCEPT ![p] = @ \cup new \cup more]
  BY <1>2
<1>4. stored[p] \cup new \in SUBSET Put
  BY MergesOffered DEF StateTyped, VarsTyped
<1>5. held \in SUBSET Of(Put, m.key)
  BY DEF Of, StateTyped, VarsTyped
<1> HIDE DEF held
<1>6. more = held
  BY <1>4, <1>5, MergesAll
<1> QED
  BY <1>1, <1>3, <1>6 DEF StateTyped, VarsTyped

(* Pending gossip that stops waiting is stored or forwarded.               *)
LEMMA PendingIsKept ==
  ASSUME UniformTypes, HeldInEveryTier, StateTyped, RingsFixed, RingsFixed',
         NEW p \in Thread, NEW m \in Inbox(p, "rep_response"), RepResponseApplied(p, m),
         NEW u \in pending_gossip[p], KeyOf[u] = m.key
  PROVE  \E q \in Thread : HeldBy(u, q)'
<1> DEFINE v       == IF m.error = 0 THEN m.version ELSE 0
           threads == SelfTierThreads(p, m.key, v)
           reqs    == Of(pending_requests[p], m.key)
           held    == Of(pending_gossip[p], m.key)
<1>1. status[p] = "up" /\ m.key \in Key /\ v \in Version
  BY Received DEF Inbox
<1>2. status' = status
  BY DEF RingsFixed
<1>3. u \in held
  BY DEF Of
<1>4. CASE p \in threads
  BY <1>1, <1>2, <1>4, PendingIsMerged DEF HeldBy
<1>5. CASE p \notin threads
  <2>1. \A q \in threads : Gossip(m.key, held, q) \in msgs'
    BY <1>3, <1>5 DEF RepResponseApplied, Handle
  <2> HIDE DEF v
  <2>2. PICK q \in threads : q \in Thread /\ status[q] = "up"
    BY <1>1, TierHasOwners, SelfTierAmongAll, SMTT(60)
  <2> HIDE DEF held, threads
  <2>3. CarriedTo(u, q)'
    <3>1. Gossip(m.key, held, q) \in msgs'
      BY <2>1, <2>2
    <3> QED
      BY <1>3, <3>1 DEF CarriedTo, Gossip
  <2> QED
    BY <1>2, <2>2, <2>3 DEF HeldBy
<1> QED
  BY <1>4, <1>5

(* Gossip that is received is stored or pending.                           *)
LEMMA ReceivedIsKept ==
  ASSUME UniformTypes, StateTyped, GossipAbout, RingsFixed, RingsFixed',
         NEW p \in Thread, NEW m \in Inbox(p, "gossip"),
         GossipPends(p, m) \/ GossipMerged(p, m), NEW u \in m.val
  PROVE  HeldBy(u, p)'
<1>1. /\ status[p] = "up" /\ m.val \in SUBSET Put
      /\ \A w \in m.val : KeyOf[w] = m.key
  BY Received DEF GossipAbout, Inbox
<1>2. status' = status
  BY DEF RingsFixed
<1>3. CASE GossipPends(p, m)
  <2>1. u \in pending_gossip'[p]
    BY <1>3 DEF GossipPends, StateTyped, VarsTyped
  <2> QED
    BY <1>1, <1>2, <2>1 DEF HeldBy
<1>4. CASE GossipMerged(p, m)
  <2>1. PICK new \in Merges(stored[p], m.val, m.key) :
          stored' = [stored EXCEPT ![p] = @ \cup new]
    BY <1>4 DEF GossipMerged
  <2>2. m.val \in SUBSET Of(Put, m.key) /\ stored[p] \in SUBSET Put
    BY <1>1 DEF Of, StateTyped, VarsTyped
  <2>3. new = m.val
    BY <2>2, MergesAll
  <2> QED
    BY <1>1, <1>2, <2>1, <2>3 DEF HeldBy, StateTyped, VarsTyped
<1> QED
  BY <1>3, <1>4

(* Whatever step is taken, a PUT that was held by a running thread is held *)
(* by one afterwards.                                                      *)
LEMMA HeldIsKept ==
  ASSUME UniformTypes, HeldInEveryTier, StateTyped, GossipAbout, StoredHasReplication,
         RingsFixed, RingsFixed', [Next]_vars, NEW p \in Thread, NEW u, HeldBy(u, p)
  PROVE  \E q \in Thread : HeldBy(u, q)'
<1>1. status[p] = "up" /\ status' = status
  BY DEF RingsFixed, HeldBy
<1>2. CASE u \in stored[p]
  <2>1. CASE u \in stored'[p]
    BY <1>1, <2>1 DEF HeldBy
  <2>2. CASE u \notin stored'[p]
    BY <1>2, <2>2, StoredShrinks, DroppedIsSent
  <2> QED
    BY <2>1, <2>2
<1>3. CASE u \in pending_gossip[p]
  <2>1. CASE u \in pending_gossip'[p]
    BY <1>1, <2>1 DEF HeldBy
  <2>2. CASE u \notin pending_gossip'[p]
    BY <1>3, <2>2, PendingShrinks, PendingIsKept
  <2> QED
    BY <2>1, <2>2
<1>4. CASE CarriedTo(u, p)
  <2>1. PICK m \in msgs : m.type = "gossip" /\ m.dst = p /\ u \in m.val
    BY <1>4 DEF CarriedTo
  <2>2. CASE m \in msgs'
    <3>1. CarriedTo(u, p)'
      BY <2>1, <2>2 DEF CarriedTo
    <3> QED
      BY <1>1, <3>1 DEF HeldBy
  <2>3. CASE m \notin msgs'
    BY <2>1, <2>3, GossipConsumed, ReceivedIsKept
  <2> QED
    BY <2>2, <2>3
<1> QED
  BY <1>2, <1>3, <1>4 DEF HeldBy

(* No accepted PUT is lost: some running thread stores it, holds it as     *)
(* pending gossip or is being sent it.                                     *)
THEOREM NoAcceptedPutLost ==
  ASSUME UniformTypes, HeldInEveryTier
  PROVE  Spec => []NoUpdateLost
<1> DEFINE Inv == /\ StateTyped /\ GossipAbout /\ StoredHasReplication /\ RingsFixed
                  /\ NoUpdateLost
<1>1. Init => Inv
  BY TypeInit, StepKeepsTypes DEF Init, GossipAbout, StoredHasReplication, RingsFixed, NoUpdateLost
<1>2. Inv /\ [Next]_vars => Inv'
  <2> SUFFICES ASSUME Inv, [Next]_vars PROVE Inv'
    OBVIOUS
  <2>1. StateTyped' /\ GossipAbout' /\ StoredHasReplication' /\ RingsFixed'
    BY TypeStep, GossipAboutStep, StoredHasReplicationStep, RingsFixedStep
  <2>2. ASSUME NEW u \in accepted'
        PROVE  \E p \in Thread : HeldBy(u, p)'
    <3>1. CASE u \in accepted
      <4>1. PICK p \in Thread : HeldBy(u, p)
        BY <3>1 DEF NoUpdateLost, HeldBy
      <4> QED
        BY <2>1, <4>1, HeldIsKept
    <3>2. CASE u \notin accepted
      <4>1. PICK p \in Thread : status[p] = "up" /\ u \in stored'[p]
        BY <3>2, AcceptedStored
      <4>2. status' = status
        BY <2>1 DEF RingsFixed
      <4> QED
        BY <4>1, <4>2 DEF HeldBy
    <3> QED
      BY <3>1, <3>2
  <2> QED
    BY <2>1, <2>2 DEF NoUpdateLost, HeldBy
<1>3. Inv => NoUpdateLost
  OBVIOUS
<1> QED
  BY <1>1, <1>2, <1>3, PTL DEF Spec

------------------------------------------------------------------------------
(* The replication factors stay as they are: the monitoring node writes    *)
(* none.                                                                   *)
FixedFactors == MaxVersion = 0

Steady == \A m \in msgs : m.type \notin {"rep_change", "meta_put", "meta_ack"}

LEMMA CalmMessages ==
  /\ \A r, p : UserRequest(r, p).type = "request"
  /\ \A k, v, p : MetaGossip(k, v, p).type = "meta_gossip"
  /\ \A k, val, p : Gossip(k, val, p).type = "gossip"
  /\ \A k, err, v, p : RepResponse(k, err, v, p).type = "rep_response"
  BY DEF UserRequest, MetaGossip, Gossip, RepResponse

LEMMA SteadyStep ==
  ASSUME FixedFactors, StateTyped, Steady, [Next]_vars
  PROVE  Steady'
<1> DEFINE Calm(x) == x.type \notin {"rep_change", "meta_put", "meta_ack"}
<1>1. ASSUME NEW m, NEW out, Handle(m, out), \A x \in out : Calm(x) PROVE Steady'
  BY <1>1 DEF Handle, Steady
<1>2. CASE UNCHANGED vars
  BY <1>2 DEF Steady, vars
<1>3. CASE Client
  BY <1>3, CalmMessages, SMTT(60) DEF Client, ClientSend, Steady
<1>4. CASE Monitor
  <2>1. ASSUME NEW k \in Key PROVE ~ MonitorWrite(k)
    BY SMTT(60) DEF MonitorWrite, StateTyped, VarsTyped, FixedFactors, Version
  <2>2. ~ MonitorAnswered
    BY DEF MonitorAnswered, Steady
  <2> QED
    BY <1>4, <2>1, <2>2 DEF Monitor, MonitorTimeout, Steady
<1>5. ASSUME NEW p \in Thread, ServerStep(p) PROVE Steady'
  <2>1. ASSUME NEW k \in Key, NEW ask \in Ask(p, {k}) PROVE \A x \in ask : Calm(x)
    BY <2>1, AskSends, SMTT(60)
  <2>2. ASSUME NEW m \in Inbox(p, "request") PROVE KeyOf[m.req] \in Key
    BY Received
  <2>3. CASE HandleRequest(p)
    <3>1. ASSUME NEW m \in Inbox(p, "request"), RequestPends(p, m) PROVE Steady'
      BY <1>1, <2>1, <2>2, <3>1 DEF RequestPends
    <3>2. ASSUME NEW m, RequestServed(p, m) PROVE Steady'
      BY <1>1, <3>2, SMTT(60) DEF RequestServed
    <3> QED
      BY <2>3, <3>1, <3>2 DEF HandleRequest
  <2>4. CASE HandleMetaRequest(p)
    <3>1. PICK m \in Inbox(p, "rep_request") : MetaGetServed(p, m)
      BY <2>4 DEF HandleMetaRequest, Inbox, Steady
    <3>2. PICK err, v : Handle(m, {RepResponse(m.key, err, v, m.from)})
      BY <3>1 DEF MetaGetServed
    <3>3. \A x \in {RepResponse(m.key, err, v, m.from)} : Calm(x)
      BY CalmMessages, SMTT(60)
    <3> QED
      BY <1>1, <3>2, <3>3, SMTT(60)
  <2>5. CASE HandleGossip(p)
    <3>1. ASSUME NEW m \in Inbox(p, "gossip") PROVE m.key \in Key
      BY Received
    <3>2. ASSUME NEW m, MetaGossipReceived(p, m) PROVE Steady'
      <4>1. PICK to : Handle(m, {}) \/
              Handle(m, {MetaGossip(m.key, m.version, q) : q \in to})
        BY <3>2 DEF MetaGossipReceived
      <4>2. \A x \in {MetaGossip(m.key, m.version, q) : q \in to} : Calm(x)
        BY CalmMessages
      <4> QED
        BY <1>1, <4>1, <4>2, SMTT(60)
    <3>3. ASSUME NEW m \in Inbox(p, "gossip"), GossipPends(p, m) \/ GossipMerged(p, m)
          PROVE  Steady'
      BY <1>1, <2>1, <3>1, <3>3, SMTT(60) DEF GossipPends, GossipMerged
    <3> QED
      BY <2>5, <3>2, <3>3 DEF HandleGossip
  <2>6. CASE HandleRepResponse(p)
    <3>1. ASSUME NEW m \in Inbox(p, "rep_response") PROVE m.key \in Key
      BY Received
    <3>2. ASSUME NEW m, RepResponseApplied(p, m) PROVE Steady'
      BY <1>1, <3>2, CalmMessages, SMTT(60) DEF RepResponseApplied
    <3> QED
      BY <1>1, <2>1, <2>6, <3>1, <3>2 DEF HandleRepResponse, RepResponseRetried
  <2>7. CASE HandleRepChange(p)
    BY <2>7 DEF HandleRepChange, Inbox, Steady
  <2>8. CASE GossipTimer(p)
    <3>1. PICK ask \in AskUnknown(p, {i.key : i \in {j \in local_changeset[p] : ~j.meta}}) :
            msgs' = msgs \cup ask \cup
                      UNION {UNION {SendItem(p, i, q) : q \in GossipTargets(p, i)} :
                                i \in local_changeset[p]}
      BY <2>8 DEF GossipTimer
    <3>2. {i.key : i \in {j \in local_changeset[p] : ~j.meta}} \in SUBSET Key
      BY SMTT(60) DEF StateTyped, VarsTyped, Item
    <3>3. \A x \in ask : Calm(x)
      BY <3>2, AskUnknownSends
    <3>4. ASSUME NEW i \in local_changeset[p], NEW q \in GossipTargets(p, i),
                 NEW x \in SendItem(p, i, q)
          PROVE  Calm(x)
      BY SendItemTyped DEF StateTyped, VarsTyped
    <3> QED
      BY <3>1, <3>3, <3>4, SMTT(60) DEF Steady
  <2> QED
    BY <1>5, <2>3, <2>4, <2>5, <2>6, <2>7, <2>8 DEF ServerStep
<1> QED
  BY <1>2, <1>3, <1>4, <1>5 DEF Next

(* An owner of a key is responsible for it by its own ring, in its own     *)
(* tier, and under the factor that everybody knows.                        *)
LEMMA OwnersAgree ==
  ASSUME FixedFactors, StateTyped, RingsFixed, NEW k \in Key, NEW q \in Owners(k)
  PROVE  /\ q \in Thread /\ status[q] = "up"
         /\ \A v \in Version : q \in SelfTierThreads(q, k, v)
         /\ \A p \in Thread, v \in Version : q \in AllTierThreads(p, k, v)
<1>1. Version = {0} /\ monitor[k].current = 0
  BY SMTT(60) DEF StateTyped, VarsTyped, FixedFactors, Version
<1>2. MonitorRing = InitNodes
  <2>1. \A n \in Node : MainThread(n) \in Thread /\ NodeOf(MainThread(n)) = n
    BY NodeAssumption DEF MainThread, Thread, NodeOf
  <2> QED
    BY <2>1, RequestAssumption DEF MonitorRing, RingsFixed
<1>3. PICK t \in Tier : q \in responsible_global(InitNodes, k, t, RepOf[0]) \X
                               responsible_local(k, t, RepOf[0])
  BY <1>1, <1>2 DEF Owners, get_responsible_threads
<1>4. q \in Thread
  BY <1>1, <1>2, ResponsibleAreThreads, RequestAssumption DEF Owners
<1>5. NodeOf(q) \in InitNodes /\ TierOf[NodeOf(q)] = t
  BY <1>3 DEF responsible_global, FirstOnWalk, InTier, NodeOf
<1>6. \A p \in Thread : Ring(p) = InitNodes
  BY RingIsInit
<1>7. status[q] = "up"
  BY <1>4, <1>5, RingIsInit
<1>8. q \in SelfTierThreads(q, k, 0)
  BY <1>3, <1>4, <1>5, <1>6 DEF SelfTierThreads, SelfTier, get_responsible_threads
<1>9. \A p \in Thread : q \in AllTierThreads(p, k, 0)
  BY <1>3, <1>6 DEF AllTierThreads, get_responsible_threads
<1> QED
  BY <1>1, <1>4, <1>7, <1>8, <1>9

(* What an owner has, or is being sent, it keeps.                          *)
LEMMA OwnerKeeps ==
  ASSUME UniformTypes, FixedFactors, StateTyped, GossipAbout, RingsFixed, RingsFixed', Steady,
         [Next]_vars, NEW u \in Put, NEW q \in Owners(KeyOf[u]), HeldBy(u, q)
  PROVE  HeldBy(u, q)'
<1>1. /\ KeyOf[u] \in Key /\ q \in Thread /\ status[q] = "up"
      /\ \A v \in Version : q \in SelfTierThreads(q, KeyOf[u], v)
  BY OwnersAgree, RequestAssumption DEF Put
<1>2. status' = status
  BY DEF RingsFixed
<1>3. CASE u \in stored[q]
  <2>1. stored[q] \subseteq stored'[q]
    BY <1>1, StoredShrinks DEF Inbox, Steady
  <2> QED
    BY <1>1, <1>2, <1>3, <2>1 DEF HeldBy
<1>4. CASE u \in pending_gossip[q]
  <2>1. CASE u \in pending_gossip'[q]
    BY <1>1, <1>2, <2>1 DEF HeldBy
  <2>2. CASE u \notin pending_gossip'[q]
    <3>1. PICK m \in Inbox(q, "rep_response") : RepResponseApplied(q, m) /\ KeyOf[u] = m.key
      BY <1>1, <1>4, <2>2, PendingShrinks
    <3>2. (IF m.error = 0 THEN m.version ELSE 0) \in Version
      BY <1>1, Received
    <3>3. u \in stored'[q]
      BY <1>1, <1>4, <3>1, <3>2, PendingIsMerged
    <3> QED
      BY <1>1, <1>2, <3>3 DEF HeldBy
  <2> QED
    BY <2>1, <2>2
<1>5. CASE CarriedTo(u, q)
  <2>1. PICK m \in msgs : m.type = "gossip" /\ m.dst = q /\ u \in m.val
    BY <1>5 DEF CarriedTo
  <2>2. CASE m \in msgs'
    <3>1. CarriedTo(u, q)'
      BY <2>1, <2>2 DEF CarriedTo
    <3> QED
      BY <1>1, <1>2, <3>1 DEF HeldBy
  <2>3. CASE m \notin msgs'
    <3>1. PICK p \in Thread : /\ m \in Inbox(p, "gossip")
                              /\ GossipPends(p, m) \/ GossipMerged(p, m)
      BY <2>1, <2>3, GossipConsumed
    <3>2. p = q
      BY <2>1, <3>1 DEF Inbox
    <3> QED
      BY <2>1, <3>1, <3>2, ReceivedIsKept
  <2> QED
    BY <2>2, <2>3
<1> QED
  BY <1>3, <1>4, <1>5 DEF HeldBy

(* A thread whose changeset has the key of a PUT keeps it there until it   *)
(* has sent the PUT to every other owner.                                  *)
LEMMA ChangesGossiped ==
  ASSUME FixedFactors, StateTyped, StoredHasReplication, RingsFixed, RingsFixed', Steady,
         [Next]_vars, NEW u \in Put, NEW q \in Owners(KeyOf[u]), NEW p \in Thread,
         u \in stored[p], Data(KeyOf[u]) \in local_changeset[p]
  PROVE  HeldBy(u, q)' \/ (u \in stored'[p] /\ Data(KeyOf[u]) \in local_changeset'[p])
<1> DEFINE k == KeyOf[u]
<1>1. /\ k \in Key /\ q \in Thread /\ status[q] = "up"
      /\ \A v \in Version : q \in AllTierThreads(p, k, v)
  BY OwnersAgree, RequestAssumption DEF Put
<1>2. status' = status
  BY DEF RingsFixed
<1>3. u \in stored'[p]
  BY StoredShrinks DEF Inbox, Steady
<1>4. CASE Client \/ Monitor \/ UNCHANGED vars
  BY <1>3, <1>4 DEF Client, Monitor, ClientSend, MonitorWrite, MonitorTimeout,
              MonitorAnswered, vars, dataVars
<1>5. ASSUME NEW x \in Thread, ServerStep(x), ~ GossipTimer(x)
      PROVE  Data(k) \in local_changeset'[p]
  <2>1. ASSUME NEW D, local_changeset' = [local_changeset EXCEPT ![x] = @ \cup D]
        PROVE  Data(k) \in local_changeset'[p]
    BY <2>1 DEF StateTyped, VarsTyped
  <2>2. ~ HandleRepChange(x)
    BY DEF HandleRepChange, Inbox, Steady
  <2>3. ASSUME NEW m, RequestServed(x, m) PROVE Data(k) \in local_changeset'[p]
    BY <2>1, <2>3 DEF RequestServed
  <2>4. ASSUME NEW m, RepResponseApplied(x, m) PROVE Data(k) \in local_changeset'[p]
    BY <2>1, <2>4 DEF RepResponseApplied
  <2>5. ASSUME NEW m, MetaPutServed(x, m) PROVE Data(k) \in local_changeset'[p]
    BY <2>1, <2>5 DEF MetaPutServed
  <2> QED
    BY <1>5, <2>2, <2>3, <2>4, <2>5
       DEF ServerStep, HandleRequest, HandleMetaRequest, HandleGossip, HandleRepResponse,
           RequestPends, MetaGetServed, GossipPends, GossipMerged, MetaGossipReceived,
           RepResponseRetried, dataVars
<1>6. ASSUME NEW x \in Thread, GossipTimer(x), x # p
      PROVE  Data(k) \in local_changeset'[p]
  BY <1>6 DEF GossipTimer, StateTyped, VarsTyped
<1>7. CASE GossipTimer(p)
  <2>1. CASE q = p
    BY <1>1, <1>2, <1>3, <2>1 DEF HeldBy
  <2>2. CASE q # p
    <3> DEFINE i == Data(k)
               g == Gossip(k, Of(stored[p], k), q)
    <3>1. i.meta = FALSE /\ i.key = k
      BY DEF Data
    <3>2. Knows(p, k) /\ key_replication_map[p][k] \in Version
      BY <1>1, SMTT(60) DEF StoredHasReplication, Knows, StateTyped, VarsTyped
    <3>3. q \in GossipTargets(p, i)
      BY <1>1, <2>2, <3>1, <3>2 DEF GossipTargets
    <3>4. i \in StoredItems(p)
      BY DEF StoredItems
    <3>5. g \in SendItem(p, i, q)
      BY <3>1, <3>4 DEF SendItem
    <3>6. g \in msgs'
      BY <1>7, <3>3, <3>5, SMTT(60) DEF GossipTimer
    <3>7. u \in Of(stored[p], k)
      BY DEF Of
    <3>8. CarriedTo(u, q)'
      BY <3>6, <3>7 DEF CarriedTo, Gossip
    <3> QED
      BY <1>1, <1>2, <3>8 DEF HeldBy
  <2> QED
    BY <2>1, <2>2
<1> QED
  BY <1>3, <1>4, <1>5, <1>6, <1>7 DEF Next

(* While the replication factors stay as they are, gossip is complete: an  *)
(* accepted PUT is at every thread responsible for its key, on its way to  *)
(* it, waiting there for a replication factor, or still in the changeset   *)
(* of a thread that stores it (the periodic gossip, gossip_handler and     *)
(* replication_response_handler).                                          *)
THEOREM GossipComplete ==
  ASSUME UniformTypes, FixedFactors
  PROVE  Spec => []GossipCovers
<1> DEFINE Inv == /\ StateTyped /\ GossipAbout /\ StoredHasReplication /\ RingsFixed
                  /\ Steady /\ GossipCovers
<1>1. Init => Inv
  BY TypeInit, StepKeepsTypes DEF Init, GossipAbout, StoredHasReplication, RingsFixed, Steady, GossipCovers
<1>2. Inv /\ [Next]_vars => Inv'
  <2> SUFFICES ASSUME Inv, [Next]_vars PROVE Inv'
    OBVIOUS
  <2>1. StateTyped' /\ GossipAbout' /\ StoredHasReplication' /\ RingsFixed' /\ Steady'
    BY TypeStep, GossipAboutStep, StoredHasReplicationStep, RingsFixedStep, SteadyStep
  <2> DEFINE Owed(u) == \E p \in Thread : u \in stored[p] /\ Data(KeyOf[u]) \in local_changeset[p]
  <2>2. ASSUME NEW u \in accepted', NEW q \in Owners(KeyOf[u])'
        PROVE  HeldBy(u, q)' \/ Owed(u)'
    <3>1. u \in Put /\ KeyOf[u] \in Key
      BY <2>1, RequestAssumption DEF StateTyped, VarsTyped, Put
    <3>2. q \in Owners(KeyOf[u])
      <4>1. monitor[KeyOf[u]].current = 0 /\ monitor'[KeyOf[u]].current = 0
        BY <2>1, <3>1, SMTT(60) DEF StateTyped, VarsTyped, FixedFactors, Version
      <4>2. status' = status
        BY <2>1 DEF RingsFixed
      <4> QED
        BY <4>1, <4>2 DEF Owners, MonitorRing
    <3>3. CASE u \notin accepted
      BY <3>3, AcceptedStored
    <3>4. CASE u \in accepted /\ HeldBy(u, q)
      BY <2>1, <3>1, <3>2, <3>4, OwnerKeeps
    <3>5. CASE u \in accepted /\ Owed(u)
      BY <2>1, <3>1, <3>2, <3>5, ChangesGossiped
    <3>6. status[q] = "up"
      BY <3>1, <3>2, OwnersAgree
    <3> QED
      BY <3>2, <3>3, <3>4, <3>5, <3>6 DEF GossipCovers, HeldBy
  <2> QED
    BY <2>1, <2>2 DEF GossipCovers, HeldBy
<1>3. Inv => GossipCovers
  OBVIOUS
<1> QED
  BY <1>1, <1>2, <1>3, PTL DEF Spec
==============================================================================
