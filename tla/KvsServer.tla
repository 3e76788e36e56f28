------------------------------ MODULE KvsServer ------------------------------
(***************************************************************************)
(* The storage server threads of the key-value store (kvs/src/kvs): user   *)
(* requests, gossip, replication factor lookups and replication factor     *)
(* changes.  Every thread runs one event loop; a handler of that loop is   *)
(* one action.  The hash rings are variables that no action of this module *)
(* changes; module KvsElastic adds the membership handlers that do.        *)
(*                                                                         *)
(* A lattice value is the set of the PUTs merged into it: merging is       *)
(* union, a stored key has a non-empty value (module Serializers          *)
(* checks the merges).  A PUT is therefore identified with its request.    *)
(* A replication factor is identified with the number of the write that    *)
(* produced it, so that last-writer-wins merging of the metadata key is    *)
(* the maximum; 0 is the default factor, which is never stored.            *)
(*                                                                         *)
(* The network is a set of messages: they arrive in any order, and two     *)
(* equal messages in flight are one.  A message with several tuples is     *)
(* several messages, since every handler treats its tuples independently.  *)
(***************************************************************************)
EXTENDS Placement

CONSTANTS
  Request,    \* the requests of the clients
  Op,         \* Op[r] is "GET" or "PUT"
  KeyOf,      \* the key of each request
  TypeOf,     \* the lattice type of each request; NoType is LatticeType::NO
  NoType,
  HasAddr,    \* whether the request carries a response address
  InitNodes,  \* the nodes that are running at first
  MaxSends,   \* how often a client sends each request
  Unknown     \* no entry in key_replication_map

Put == {r \in Request : Op[r] = "PUT"}
Absent == -1

ASSUME RequestAssumption ==
  /\ Op \in [Request -> {"GET", "PUT"}]
  /\ KeyOf \in [Request -> Key]
  /\ HasAddr \in [Request -> BOOLEAN]
  /\ InitNodes \subseteq Node
  /\ MaxSends \in [Request -> Nat]
  /\ Unknown \notin Version

VARIABLES
  status,               \* status[p]: "off", "up" or "left"
  global_hash_rings,    \* join count of each node p knows, or Absent
  key_replication_map,  \* version p knows for each key, or Unknown
  stored,               \* the PUTs merged into the values that p stores
  metadata,             \* the version that p stores for each metadata key
  local_changeset,      \* items changed at p since its last gossip
  pending_requests,     \* requests that wait for a replication factor
  pending_gossip,       \* PUTs in gossip that waits for one
  msgs,                 \* messages in flight
  sent,                 \* how often each request has been sent
  responses,            \* error codes the clients got for each request
  accepted,             \* PUTs that some thread has stored for a client
  monitor               \* the monitoring node's record of each key

dataVars == <<stored, metadata, local_changeset>>
pendVars == <<pending_requests, pending_gossip>>
ringVars == <<status, global_hash_rings>>
clientVars == <<sent, responses, accepted>>
vars == <<ringVars, key_replication_map, dataVars, pendVars, msgs, clientVars,
          monitor>>

------------------------------------------------------------------------------
(* Items of a changeset: a data key or the metadata key of one.            *)
Item == [meta : BOOLEAN, key : Key]
Data(k) == [meta |-> FALSE, key |-> k]
Meta(k) == [meta |-> TRUE, key |-> k]

(* Messages.                                                               *)
UserRequest(r, p) == [type |-> "request", req |-> r, dst |-> p]
Gossip(k, val, p) == [type |-> "gossip", key |-> k, val |-> val, dst |-> p]
MetaGossip(k, v, p) ==
  [type |-> "meta_gossip", key |-> k, version |-> v, dst |-> p]
RepRequest(k, from, p) ==
  [type |-> "rep_request", key |-> k, from |-> from, dst |-> p]
RepResponse(k, err, v, p) ==
  [type |-> "rep_response", key |-> k, error |-> err, version |-> v, dst |-> p]
RepChange(k, v, p) ==
  [type |-> "rep_change", key |-> k, version |-> v, dst |-> p]
MetaPut(k, v, p) == [type |-> "meta_put", key |-> k, version |-> v, dst |-> p]
MetaAck(k, v, err) ==
  [type |-> "meta_ack", key |-> k, version |-> v, error |-> err]

(* Messages of a type that thread p may receive now.                       *)
Inbox(p, type) ==
  {m \in msgs : m.type = type /\ m.dst = p /\ status[p] = "up"}

(* One message is received and others are sent.                            *)
Handle(m, out) == msgs' = (msgs \ {m}) \cup out

------------------------------------------------------------------------------
(* Lookups.  Ring(p) is the set of nodes in the rings of thread p.         *)
Ring(p) == {n \in Node : global_hash_rings[p][n] # Absent}

SelfTierThreads(p, k, v) ==
  get_responsible_threads(Ring(p), k, v, {SelfTier(p)})

AllTierThreads(p, k, v) == get_responsible_threads(Ring(p), k, v, Tier)
MetaThreads(p, k) == get_responsible_threads_metadata(Ring(p), k)

Knows(p, k) == key_replication_map[p][k] # Unknown

(* Mutant of Responsible: a missing replication factor is taken for        *)
(* responsibility.                                                         *)
ResponsibleUnlessKnown(p, k) ==
  Knows(p, k) => p \in SelfTierThreads(p, k, key_replication_map[p][k])
Responsible(p, k) ==
  Knows(p, k) /\ p \in SelfTierThreads(p, k, key_replication_map[p][k])

(* Mutant of AskIn: a lookup that would go to the thread itself is not     *)
(* sent.                                                                   *)
AskInOthers(nodes, p, ks) ==
  {{RepRequest(k, p, to[k]) : k \in {j \in ks : to[j] # p}} :
      to \in {f \in [ks -> Thread] : \A k \in ks :
                 f[k] \in get_responsible_threads_metadata(nodes, k)}}

(* issue_replication_factor_request for each key of a set: the messages    *)
(* go to threads picked at random among those responsible for the          *)
(* metadata key.  The result is the set of the possible sets of messages.  *)
AskIn(nodes, p, ks) ==
  {{RepRequest(k, p, to[k]) : k \in ks} :
      to \in {f \in [ks -> Thread] : \A k \in ks :
                 f[k] \in get_responsible_threads_metadata(nodes, k)}}
Ask(p, ks) == AskIn(Ring(p), p, ks)

(* The lookups that find no replication factor send a request for it.      *)
AskUnknown(p, ks) == Ask(p, {k \in ks : ~Knows(p, k)})

(* The part of a set of PUTs that is about a key.                          *)
Of(S, k) == {u \in S : KeyOf[u] = k}
StoredItems(p) ==
  {Data(k) : k \in {KeyOf[u] : u \in stored[p]}}
    \cup {Meta(k) : k \in {j \in Key : metadata[p][j] > 0}}

(* Mutant of Merges: the lattice type is not compared with the stored one. *)
MergesAnyType(S, offered, k) == {offered}

(* process_put of several values of key k, in any order, into S: a value   *)
(* of another lattice type than the stored one, or of none, is left out.   *)
(* The set of the possible sets of PUTs that are merged.                   *)
Merges(S, offered, k) ==
  LET types == {TypeOf[u] : u \in Of(S, k)}
      valid == {u \in offered : TypeOf[u] # NoType}
  IN  IF types # {} \/ valid = {}
      THEN {{u \in valid : TypeOf[u] \in types}}
      ELSE {{u \in valid : TypeOf[u] = t} : t \in {TypeOf[u] : u \in valid}}

(* The error code of a response.  A PUT that is left out for its type is   *)
(* answered with the error field unset, which reads as 0.                  *)
ErrorCode(r, S) == IF Op[r] = "GET" /\ Of(S, KeyOf[r]) = {} THEN 1 ELSE 0

(* Mutant of Respond: error 2 is not sent.                                 *)
RespondUnlessRefused(code) ==
  responses' = [r \in Request |->
                  IF r \in DOMAIN code /\ HasAddr[r] /\ code[r] # 2
                  THEN responses[r] \cup {code[r]} ELSE responses[r]]

(* Responses with the given codes, for the requests of the domain of code  *)
(* that have a response address.                                           *)
Respond(code) ==
  responses' = [r \in Request |->
                  IF r \in DOMAIN code /\ HasAddr[r]
                  THEN responses[r] \cup {code[r]} ELSE responses[r]]

------------------------------------------------------------------------------
(* A client sends a request to some thread: a first attempt, or a retry at *)
(* the same or at another thread.  Bound: MaxSends[r] attempts.            *)
ClientSend(r, p) ==
  /\ sent[r] < MaxSends[r]
  /\ sent' = [sent EXCEPT ![r] = @ + 1]
  /\ msgs' = msgs \cup {UserRequest(r, p)}
  /\ UNCHANGED <<ringVars, key_replication_map, dataVars, pendVars, responses,
                 accepted, monitor>>

(* user_request_handler, data key, when the thread does not know the       *)
(* replication factor or is not responsible by the one it knows.           *)
RequestPends(p, m) ==
  LET k == KeyOf[m.req] IN
  /\ ~Responsible(p, k)
  /\ \E ask \in Ask(p, {k}) : Handle(m, ask)
  /\ pending_requests' = [pending_requests EXCEPT ![p] = @ \cup {m.req}]
  /\ UNCHANGED <<ringVars, key_replication_map, dataVars, pending_gossip,
                 clientVars, monitor>>

(* Mutant of RequestServed: a GET is processed as a PUT.                   *)
RequestServedAsPut(p, m) ==
  LET r == m.req  k == KeyOf[r] IN
  /\ Responsible(p, k)
  /\ \E new \in Merges(stored[p], {r}, k) :
       /\ stored' = [stored EXCEPT ![p] = @ \cup new]
       /\ local_changeset' = [local_changeset EXCEPT
                                ![p] = @ \cup {Data(k) : u \in new}]
       /\ accepted' = accepted \cup new
  /\ Respond([x \in {r} |-> ErrorCode(x, stored[p])])
  /\ Handle(m, {})
  /\ UNCHANGED <<ringVars, key_replication_map, metadata, pendVars, sent,
                 monitor>>

(* user_request_handler, data key, when the thread is responsible.         *)
RequestServed(p, m) ==
  LET r == m.req  k == KeyOf[r] IN
  /\ Responsible(p, k)
  /\ \E new \in Merges(stored[p], {r} \cap Put, k) :
       /\ stored' = [stored EXCEPT ![p] = @ \cup new]
       /\ local_changeset' = [local_changeset EXCEPT
                                ![p] = @ \cup {Data(k) : u \in new}]
       /\ accepted' = accepted \cup new
  /\ Respond([x \in {r} |-> ErrorCode(x, stored[p])])
  /\ Handle(m, {})
  /\ UNCHANGED <<ringVars, key_replication_map, metadata, pendVars, sent,
                 monitor>>

(* user_request_handler, GET of a metadata key.  Error 2: this thread is   *)
(* not responsible for it; error 1: it has no value.                       *)
MetaGetServed(p, m) ==
  LET v   == metadata[p][m.key]
      err == IF p \notin MetaThreads(p, m.key) THEN 2
             ELSE IF v = 0 THEN 1 ELSE 0
  IN  /\ Handle(m, {RepResponse(m.key, err, IF err = 0 THEN v ELSE 0, m.from)})
      /\ UNCHANGED <<ringVars, key_replication_map, dataVars, pendVars,
                     clientVars, monitor>>

(* user_request_handler, PUT of a metadata key.                            *)
MetaPutServed(p, m) ==
  LET k == m.key IN
  /\ IF p \in MetaThreads(p, k)
     THEN /\ metadata' = [metadata EXCEPT
                            ![p][k] = IF m.version > @ THEN m.version ELSE @]
          /\ local_changeset' = [local_changeset EXCEPT ![p] = @ \cup {Meta(k)}]
          /\ Handle(m, {MetaAck(k, m.version, 0)})
     ELSE /\ Handle(m, {MetaAck(k, m.version, 2)})
          /\ UNCHANGED <<metadata, local_changeset>>
  /\ UNCHANGED <<ringVars, key_replication_map, stored, pendVars, clientVars,
                 monitor>>

(* gossip_handler, data key.                                               *)
GossipPends(p, m) ==
  /\ ~Responsible(p, m.key)
  /\ \E ask \in Ask(p, {m.key}) : Handle(m, ask)
  /\ pending_gossip' = [pending_gossip EXCEPT ![p] = @ \cup m.val]
  /\ UNCHANGED <<ringVars, key_replication_map, dataVars, pending_requests,
                 clientVars, monitor>>

GossipMerged(p, m) ==
  /\ Responsible(p, m.key)
  /\ \E new \in Merges(stored[p], m.val, m.key) :
       stored' = [stored EXCEPT ![p] = @ \cup new]
  /\ Handle(m, {})
  /\ UNCHANGED <<ringVars, key_replication_map, metadata, local_changeset,
                 pendVars, clientVars, monitor>>

(* gossip_handler, metadata key: merged here or forwarded.                 *)
MetaGossipReceived(p, m) ==
  LET k == m.key IN
  /\ IF p \in MetaThreads(p, k)
     THEN /\ metadata' = [metadata EXCEPT
                            ![p][k] = IF m.version > @ THEN m.version ELSE @]
          /\ Handle(m, {})
     ELSE /\ Handle(m, {MetaGossip(k, m.version, q) : q \in MetaThreads(p, k)})
          /\ UNCHANGED metadata
  /\ UNCHANGED <<ringVars, key_replication_map, stored, local_changeset,
                 pendVars, clientVars, monitor>>

(* Mutant of RepResponseRetried: error 2 is not followed by another        *)
(* lookup.                                                                 *)
RepResponseIgnored(p, m) ==
  /\ m.error = 2
  /\ Handle(m, {})
  /\ UNCHANGED <<ringVars, key_replication_map, dataVars, pendVars,
                 clientVars, monitor>>

(* replication_response_handler, error 2: ask again.                       *)
RepResponseRetried(p, m) ==
  /\ m.error = 2
  /\ \E ask \in Ask(p, {m.key}) : Handle(m, ask)
  /\ UNCHANGED <<ringVars, key_replication_map, dataVars, pendVars,
                 clientVars, monitor>>

(* replication_response_handler: the factor that was sent, or on error 1   *)
(* the default one, replaces the one in the map; then the requests and the *)
(* gossip that wait for it are processed.  A thread that turns out not to  *)
(* be responsible answers with error 2, drops the requests without a       *)
(* response address, and forwards the gossip within its own tier.  The     *)
(* GETs of the set early stand before the first PUT in the queue.          *)
RepResponseApplied(p, m) ==
  LET k       == m.key
      v       == IF m.error = 0 THEN m.version ELSE 0
      threads == SelfTierThreads(p, k, v)
      reqs    == Of(pending_requests[p], k)
      held    == Of(pending_gossip[p], k)
  IN
  /\ m.error # 2
  /\ key_replication_map' = [key_replication_map EXCEPT ![p][k] = v]
  /\ pending_requests' = [pending_requests EXCEPT ![p] = @ \ reqs]
  /\ pending_gossip' = [pending_gossip EXCEPT ![p] = @ \ held]
  /\ \/ /\ p \in threads
        /\ \E new \in Merges(stored[p], reqs \cap Put, k) :
           \E more \in Merges(stored[p] \cup new, held, k) :
           \E early \in SUBSET (reqs \ Put) :
             /\ stored' = [stored EXCEPT ![p] = @ \cup new \cup more]
             /\ local_changeset' = [local_changeset EXCEPT
                                      ![p] = @ \cup {Data(k) : u \in new}]
             /\ accepted' = accepted \cup new
             /\ Respond([x \in reqs |->
                  ErrorCode(x, IF x \in early THEN stored[p] ELSE stored[p] \cup new)])
        /\ Handle(m, {})
     \/ /\ p \notin threads
        /\ Respond([x \in reqs |-> 2])
        /\ Handle(m, {Gossip(k, held, q) : q \in IF held = {} THEN {} ELSE threads})
        /\ UNCHANGED <<stored, local_changeset, accepted>>
  /\ UNCHANGED <<ringVars, metadata, sent, monitor>>

------------------------------------------------------------------------------
(* replication_change_handler.  Messages of the monitoring node arrive in  *)
(* the order it sent them.  The main thread passes the message to the      *)
(* others.  A thread that stores the key and is no longer responsible for  *)
(* it sends it to the responsible threads and drops it; otherwise, when    *)
(* nothing was decremented, the first of the threads that were responsible *)
(* sends it to the new ones.                                               *)
Decrement(old, new) ==
  \E t \in Tier : \/ RepOf[new].global[t] < RepOf[old].global[t]
                  \/ RepOf[new].local[t] < RepOf[old].local[t]

(* Mutant of RepChangeTargets: a leaving thread sends only to threads that *)
(* are new.                                                                *)
RepChangeTargetsNew(p, k, old, new) ==
  LET before == AllTierThreads(p, k, old)
      after  == AllTierThreads(p, k, new)
  IN  IF p \in after /\ (Decrement(old, new) \/ FirstThread(k, before) # p)
      THEN {} ELSE after \ before
RepChangeTargets(p, k, old, new) ==
  LET before == AllTierThreads(p, k, old)
      after  == AllTierThreads(p, k, new)
  IN  (IF p \in after THEN {} ELSE after) \cup
      (IF ~Decrement(old, new) /\ FirstThread(k, before) = p
       THEN after \ before ELSE {})

ReplicationChange(p, m) ==
  LET k       == m.key
      old     == key_replication_map[p][k]
      value   == Of(stored[p], k)
      moves   == value # {} /\ Knows(p, k)
      leaves  == moves /\ p \notin AllTierThreads(p, k, m.version)
      targets == IF moves THEN RepChangeTargets(p, k, old, m.version) ELSE {}
      workers == IF p = MainThread(NodeOf(p))
                 THEN {<<NodeOf(p), t>> : t \in Tid \ {0}} ELSE {}
  IN
  /\ \A x \in Inbox(p, "rep_change") : x.key = k => m.version <= x.version
  /\ \E ask \in AskUnknown(p, {KeyOf[u] : u \in value}) :
       Handle(m, ask \cup {RepChange(k, m.version, q) : q \in workers}
                     \cup {Gossip(k, value, q) : q \in targets})
  /\ key_replication_map' = [key_replication_map EXCEPT ![p][k] = m.version]
  /\ stored' = [stored EXCEPT ![p] = IF leaves THEN @ \ value ELSE @]
  /\ local_changeset' = [local_changeset EXCEPT
                           ![p] = IF leaves THEN @ \ {Data(k)} ELSE @]
  /\ UNCHANGED <<ringVars, metadata, pendVars, clientVars, monitor>>

(* Mutant of GossipTargets: gossip goes to the first responsible thread    *)
(* only.                                                                   *)
GossipTargetsFirst(p, i) ==
  IF i.meta \/ ~Knows(p, i.key) THEN {}
  ELSE {FirstThread(i.key, AllTierThreads(p, i.key, key_replication_map[p][i.key]))} \ {p}

(* The periodic gossip of the event loop: every item changed since the     *)
(* last round goes to the other threads responsible for it in all tiers    *)
(* (and to caches that hold it, which send nothing back).                  *)
GossipTargets(p, i) ==
  (IF i.meta THEN MetaThreads(p, i.key)
   ELSE IF Knows(p, i.key)
        THEN AllTierThreads(p, i.key, key_replication_map[p][i.key])
        ELSE {}) \ {p}

(* send_gossip of one item to one thread; an item that is not stored is    *)
(* skipped.                                                                *)
SendItem(p, i, q) ==
  IF i \notin StoredItems(p) THEN {}
  ELSE IF i.meta THEN {MetaGossip(i.key, metadata[p][i.key], q)}
                 ELSE {Gossip(i.key, Of(stored[p], i.key), q)}

(* Mutant of GossipDue: a single changed key is not gossiped.             *)
GossipDueOffByOne(p) == Cardinality(local_changeset[p]) > 1

GossipDue(p) == local_changeset[p] # {}

GossipTimer(p) ==
  /\ status[p] = "up"
  /\ GossipDue(p)
  /\ \E ask \in AskUnknown(p, {i.key : i \in {j \in local_changeset[p] : ~j.meta}}) :
       msgs' = msgs \cup ask \cup
                 UNION {UNION {SendItem(p, i, q) : q \in GossipTargets(p, i)} :
                           i \in local_changeset[p]}
  /\ local_changeset' = [local_changeset EXCEPT ![p] = {}]
  /\ UNCHANGED <<ringVars, key_replication_map, stored, metadata, pendVars,
                 clientVars, monitor>>

------------------------------------------------------------------------------
(* The monitoring node: change_replication_factor.  It writes the next     *)
(* replication factor of a key to the metadata key and waits.  When the    *)
(* write is confirmed it tells the nodes responsible under the larger of   *)
(* the two factors; when it is refused or times out it tells nobody and    *)
(* goes back to the factor it had.  An answer to a write it has given up   *)
(* is discarded (receive looks at the request id).                         *)
(* Its rings are those of the nodes that are running.                      *)
MonitorRing == {n \in Node : status[MainThread(n)] = "up"}

MonitorWrite(k) ==
  /\ monitor[k].waiting = 0
  /\ monitor[k].written < MaxVersion
  /\ \E q \in get_responsible_threads_metadata(MonitorRing, k) :
       msgs' = msgs \cup {MetaPut(k, monitor[k].written + 1, q)}
  /\ monitor' = [monitor EXCEPT ![k].written = @ + 1,
                                ![k].waiting = monitor[k].written + 1]
  /\ UNCHANGED <<ringVars, key_replication_map, dataVars, pendVars, clientVars>>

MonitorTargets(k, old, new) ==
  {MainThread(n) : n \in UNION
     {LET g(v) == RepOf[v].global[t]
          r    == IF g(old) > g(new) THEN RepOf[old] ELSE RepOf[new]
      IN  responsible_global(MonitorRing, k, t, r) : t \in Tier}}

MonitorAnswered ==
  \E m \in msgs :
    LET k == m.key  confirmed == m.error = 0 /\ monitor[k].waiting = m.version IN
    /\ m.type = "meta_ack"
    /\ Handle(m, IF confirmed
                 THEN {RepChange(k, m.version, q) :
                         q \in MonitorTargets(k, monitor[k].current, m.version)}
                 ELSE {})
    /\ monitor' = [monitor EXCEPT
                     ![k].current = IF confirmed THEN m.version ELSE @,
                     ![k].waiting = IF @ = m.version THEN 0 ELSE @]
    /\ UNCHANGED <<ringVars, key_replication_map, dataVars, pendVars, clientVars>>

MonitorTimeout(k) ==
  /\ monitor[k].waiting # 0
  /\ monitor' = [monitor EXCEPT ![k].waiting = 0]
  /\ UNCHANGED <<ringVars, key_replication_map, dataVars, pendVars, msgs,
                 clientVars>>

------------------------------------------------------------------------------
FullRing == [n \in Node |-> IF n \in InitNodes THEN 0 ELSE Absent]

Init ==
  /\ status = [p \in Thread |-> IF NodeOf(p) \in InitNodes THEN "up" ELSE "off"]
  /\ global_hash_rings = [p \in Thread |-> FullRing]
  /\ key_replication_map = [p \in Thread |-> [k \in Key |-> Unknown]]
  /\ stored = [p \in Thread |-> {}]
  /\ metadata = [p \in Thread |-> [k \in Key |-> 0]]
  /\ local_changeset = [p \in Thread |-> {}]
  /\ pending_requests = [p \in Thread |-> {}]
  /\ pending_gossip = [p \in Thread |-> {}]
  /\ msgs = {}
  /\ sent = [r \in Request |-> 0]
  /\ responses = [r \in Request |-> {}]
  /\ accepted = {}
  /\ monitor = [k \in Key |-> [written |-> 0, waiting |-> 0, current |-> 0]]

(* The handlers of the event loop of thread p, one for each socket.        *)
HandleRequest(p) ==
  \E m \in Inbox(p, "request") : RequestPends(p, m) \/ RequestServed(p, m)
HandleMetaRequest(p) ==
  \/ \E m \in Inbox(p, "rep_request") : MetaGetServed(p, m)
  \/ \E m \in Inbox(p, "meta_put") : MetaPutServed(p, m)
HandleGossip(p) ==
  \/ \E m \in Inbox(p, "gossip") : GossipPends(p, m) \/ GossipMerged(p, m)
  \/ \E m \in Inbox(p, "meta_gossip") : MetaGossipReceived(p, m)
HandleRepResponse(p) ==
  \E m \in Inbox(p, "rep_response") :
    RepResponseRetried(p, m) \/ RepResponseApplied(p, m)
HandleRepChange(p) == \E m \in Inbox(p, "rep_change") : ReplicationChange(p, m)

ServerStep(p) ==
  \/ HandleRequest(p)
  \/ HandleMetaRequest(p)
  \/ HandleGossip(p)
  \/ HandleRepResponse(p)
  \/ HandleRepChange(p)
  \/ GossipTimer(p)

Client == \E r \in Request, p \in Thread : status[p] = "up" /\ ClientSend(r, p)

Monitor ==
  \/ \E k \in Key : MonitorWrite(k) \/ MonitorTimeout(k)
  \/ MonitorAnswered

Next == Client \/ Monitor \/ \E p \in Thread : ServerStep(p)

Spec == Init /\ [][Next]_vars

(* The event loop polls without blocking and serves every socket that has  *)
(* a message and the expired gossip period in each round, so no handler    *)
(* waits forever.  Clients and the monitoring node need not act.           *)
Fairness ==
  \A p \in Thread :
    /\ WF_vars(HandleRequest(p))
    /\ WF_vars(HandleMetaRequest(p))
    /\ WF_vars(HandleGossip(p))
    /\ WF_vars(HandleRepResponse(p))
    /\ WF_vars(GossipTimer(p))

FairSpec == Spec /\ Fairness

------------------------------------------------------------------------------
Message ==
  [type : {"request"}, req : Request, dst : Thread]
    \cup [type : {"gossip"}, key : Key, val : SUBSET Put, dst : Thread]
    \cup [type : {"meta_gossip"}, key : Key, version : Version, dst : Thread]
    \cup [type : {"rep_request"}, key : Key, from : Thread, dst : Thread]
    \cup [type : {"rep_response"}, key : Key, error : 0..2, version : Version,
          dst : Thread]
    \cup [type : {"rep_change"}, key : Key, version : Version, dst : Thread]
    \cup [type : {"meta_put"}, key : Key, version : Version, dst : Thread]
    \cup [type : {"meta_ack"}, key : Key, version : Version, error : 0..2]

(* Every variable keeps the shape its declaration says.                    *)
TypeOK ==
  /\ status \in [Thread -> {"off", "up", "left"}]
  /\ global_hash_rings \in [Thread -> [Node -> Int]]
  /\ key_replication_map \in [Thread -> [Key -> Version \cup {Unknown}]]
  /\ stored \in [Thread -> SUBSET Put]
  /\ metadata \in [Thread -> [Key -> Version]]
  /\ local_changeset \in [Thread -> SUBSET Item]
  /\ pending_requests \in [Thread -> SUBSET Request]
  /\ pending_gossip \in [Thread -> SUBSET Put]
  /\ \A m \in msgs : m \in Message
  /\ sent \in [Request -> Nat]
  /\ responses \in [Request -> SUBSET (0..2)]
  /\ accepted \subseteq Put
  /\ monitor \in [Key -> [written : Version, waiting : Version, current : Version]]

(* A thread never stores a data key whose replication factor it does not   *)
(* know: "Missing key replication factor in node join routine. This should *)
(* never happen." (node_join_handler.cpp), and the same branch in the      *)
(* gossip, departure and replication change routines.                      *)
StoredHasReplication ==
  \A p \in Thread : \A u \in stored[p] : Knows(p, KeyOf[u])

(* A thread never holds two lattice types under one key: the value of a    *)
(* key is merged by the serializer of the type it was first stored with.   *)
OneTypePerKey ==
  \A p \in Thread : \A u, w \in stored[p] :
    KeyOf[u] = KeyOf[w] => TypeOf[u] = TypeOf[w]

(* The gossip messages that carry a PUT to a thread that can receive it.   *)
CarriedTo(u, p) == \E m \in msgs : m.type = "gossip" /\ m.dst = p /\ u \in m.val

(* No accepted PUT is ever lost: whatever requests, gossip, lookups and    *)
(* replication factor changes do, some running thread stores it, keeps it  *)
(* as pending gossip, or will receive it.                                  *)
NoUpdateLost ==
  \A u \in accepted : \E p \in Thread :
    /\ status[p] = "up"
    /\ u \in stored[p] \/ u \in pending_gossip[p] \/ CarriedTo(u, p)

(* The threads that should hold a key: all nodes agree on the ring and the *)
(* replication factor is the one the monitoring node last confirmed.       *)
Owners(k) == get_responsible_threads(MonitorRing, k, monitor[k].current, Tier)

(* Gossip is complete: a PUT accepted by one thread is at every owner of   *)
(* the key, on its way to it, waiting there for a replication factor, or   *)
(* in the changeset of a thread that stores it.                            *)
GossipCovers ==
  \A u \in accepted : \A q \in Owners(KeyOf[u]) :
    \/ u \in stored[q]
    \/ u \in pending_gossip[q]
    \/ CarriedTo(u, q)
    \/ \E p \in Thread : u \in stored[p] /\ Data(KeyOf[u]) \in local_changeset[p]

(* What waits for a replication factor is never stranded: a request or a   *)
(* response for that key is in flight for the thread.                      *)
WaitsForLookup(p, k) ==
  \E m \in msgs : /\ m.type \in {"rep_request", "rep_response"}
                  /\ m.key = k
                  /\ p = IF m.type = "rep_request" THEN m.from ELSE m.dst

NothingStranded ==
  \A p \in Thread :
    /\ \A r \in pending_requests[p] : WaitsForLookup(p, KeyOf[r])
    /\ \A u \in pending_gossip[p] : WaitsForLookup(p, KeyOf[u])

(* A running thread drops a key only when it is not responsible for it     *)
(* under the replication factor and the ring it then has.                  *)
DropsOnlyForeign ==
  [][\A p \in Thread : \A k \in Key :
       Of(stored[p], k) # {} /\ Of(stored'[p], k) = {} /\ status'[p] = "up"
         => ~Responsible(p, k)']_vars

(* "forward the gossip" (replication_response_handler.cpp, gossip that     *)
(* waited for a replication factor at a thread that is not responsible):   *)
(* gossip that stops waiting is stored, or is on its way to some thread.   *)
PendingGossipForwarded ==
  [][\A p \in Thread : \A u \in pending_gossip[p] \ pending_gossip'[p] :
       u \in stored'[p] \/ \E q \in Thread : CarriedTo(u, q)']_vars

(* Every request with a response address that a client sends is answered.  *)
RequestsAnswered ==
  \A r \in Request : HasAddr[r] =>
    ((sent[r] > 0) ~> (responses[r] # {}))

(* Every accepted PUT reaches every owner of its key.                      *)
EventuallyReplicated ==
  \A u \in Put : (u \in accepted) ~> (\A q \in Owners(KeyOf[u]) : u \in stored[q])
====
