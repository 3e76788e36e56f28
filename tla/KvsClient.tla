------------------------------ MODULE KvsClient ------------------------------
(***************************************************************************)
(* The synchronous client library (include/kvs_client.hpp), the routing    *)
(* node that tells it which server threads to ask (kvs/src/route), and the *)
(* servers as far as the two see them: their store, their answers to       *)
(* requests, and their joining and departing, which the routing node       *)
(* learns of later.                                                        *)
(*                                                                         *)
(* A call is put, get, put_all or get_all with the retries it makes; the   *)
(* variants for the other lattice types differ in the type and the payload *)
(* only, and a payload is the set of the PUT calls that it merges.  A      *)
(* replication factor is a version number (Placement), and Unknown where   *)
(* it has to be looked up.                                                 *)
(***************************************************************************)
EXTENDS KvsTrials

CONSTANTS
  LatticeOf,  \* the lattice type of each call that is a PUT
  InitNodes,  \* the servers at first
  Joining, Leaving,   \* servers that will join and depart
  Rescaled,   \* keys whose replication factor will change
  MaxFaults   \* bound on messages lost and answers later than a timeout

ASSUME ClientAssumption ==
  /\ InitNodes \subseteq Node /\ Joining \subseteq Node
  /\ Rescaled \subseteq Key
  /\ DOMAIN LatticeOf = Call
  /\ MaxFaults \in Nat

Unknown == -1

VARIABLES
  client,     \* the client, with the call it is in
  routing,    \* the routing node
  members,    \* the nodes that are servers
  factor,     \* the replication factor of each key, as the servers know it
  store,      \* what each server thread stores for each key
  msgs,
  results,    \* what the calls have returned
  todo,       \* calls not made, servers to join and depart, keys to rescale
  faults,
  lost        \* keys for which a replication factor request was lost

vars == <<client, routing, members, factor, store, msgs, results, todo, faults, lost>>

NewRouting ==
  [up |-> TRUE, ring |-> {}, key_replication_map |-> [k \in Key |-> Unknown],
   pending_requests |-> {}]

------------------------------------------------------------------------------
(* Messages to and from the routing node and from the servers.             *)
AddressResponse(rid, k, error, ips) ==
  [kind |-> "address", rid |-> rid, key |-> k, error |-> error, ips |-> ips]
FactorRequest(k, p) == [kind |-> "factor_request", key |-> k, to |-> p]
FactorResponse(k, error, v) == [kind |-> "factor", key |-> k, error |-> error, version |-> v]
FactorChange(k, v) == [kind |-> "change", key |-> k, version |-> v]
Notice(what, n) == [kind |-> what, node |-> n]
DataResponse(rid, c, p, error, val, invalidate, addresses) ==
  [kind |-> "response", rid |-> rid, call |-> c, from |-> p, error |-> error,
   val |-> val, invalidate |-> invalidate, addresses |-> addresses]

------------------------------------------------------------------------------
(* The steps of the client.                                                *)

(* Mutant of Become: each call numbers its requests from the start.        *)
BecomeRestarted(outs, ms) ==
  \E o \in outs :
    /\ msgs' = (msgs \ ms) \cup o.out
    /\ IF o.c.at # "return" THEN client' = o.c /\ UNCHANGED results
       ELSE /\ results' = [results EXCEPT ![o.c.call] = Outcome(o.c)]
            /\ client' = [NewClient EXCEPT !.key_address_cache = o.c.key_address_cache]

(* The client becomes one of what an operator gives; a call that is over   *)
(* returns.                                                                *)
Become(outs, ms) ==
  \E o \in outs :
    /\ msgs' = (msgs \ ms) \cup o.out
    /\ IF o.c.at # "return" THEN client' = o.c /\ UNCHANGED results
       ELSE /\ results' = [results EXCEPT ![o.c.call] = Outcome(o.c)]
            /\ client' = [NewClient EXCEPT !.next = o.c.next,
                            !.key_address_cache = o.c.key_address_cache]

Unreturned == [status |-> "none", answers |-> {}]

Issue(c) ==
  LET r == get_request_id(client)   \* prepare_data_request
  IN /\ client.at = "idle" /\ c \in todo
     /\ todo' = todo \ {c}
     /\ Become(Try([client EXCEPT !.call = c, !.left = trial_limit, !.next = r.next,
                      !.size = Cardinality(client.key_address_cache[KeyOf[c]])]), {})
     /\ UNCHANGED <<routing, members, factor, store, faults, lost>>

(* The application makes the client forget its addresses between calls.    *)
clear_cache ==
  /\ client.at = "idle" /\ client.key_address_cache # NewClient.key_address_cache
  /\ client' = [client EXCEPT !.key_address_cache = NewClient.key_address_cache]
  /\ UNCHANGED <<routing, members, factor, store, msgs, results, todo, faults, lost>>

(* query_routing receives: error 1, there are no servers, is asked again   *)
(* under the same id; an answer with no addresses ends the call.           *)
ReceiveAddress(m) ==
  LET k == KeyOf[client.call]
      c == [client EXCEPT !.key_address_cache[k] = m.ips]
  IN /\ client.at = "routing" /\ m.kind = "address" /\ m.rid = client.query
     /\ Become(IF m.error = 1 THEN {[c |-> client, out |-> {AddressRequest(m.rid, k)}]}
               ELSE IF m.ips = {}
               THEN {[c |-> [client EXCEPT !.at = "return", !.got = <<>>], out |-> {}]}
               ELSE {SendTo(c, ws) : ws \in Workers(c)}, {m})
     /\ UNCHANGED <<routing, members, factor, store, todo, faults, lost>>

(* Mutant of ReceiveResponse: the first answer is enough.                  *)
ReceiveResponseFirst(m) ==
  LET c == [client EXCEPT !.ids = {}, !.got = Append(@, m)]
  IN /\ client.at = "servers" /\ m.kind = "response"
     /\ \E i \in client.ids : i[1] = m.rid
     /\ Become(CheckAll(c), {m})
     /\ UNCHANGED <<routing, members, factor, store, todo, faults, lost>>

(* receive: an answer to one of the requests of this trial.                *)
ReceiveResponse(m) ==
  LET c == [client EXCEPT !.ids = {i \in @ : i[1] # m.rid}, !.got = Append(@, m)]
  IN /\ client.at = "servers" /\ m.kind = "response"
     /\ \E i \in client.ids : i[1] = m.rid
     /\ Become(IF c.ids = {} THEN CheckAll(c) ELSE {[c |-> c, out |-> {}]}, {m})
     /\ UNCHANGED <<routing, members, factor, store, todo, faults, lost>>

(* receive: an answer to an earlier request is thrown away.                *)
Discard(m) ==
  /\ \/ /\ m.kind = "address" /\ client.at = "routing" /\ m.rid # client.query
     \/ /\ m.kind = "response" /\ client.at = "servers"
        /\ \A i \in client.ids : i[1] # m.rid
  /\ msgs' = msgs \ {m}
  /\ UNCHANGED <<client, routing, members, factor, store, results, todo, faults, lost>>

(* A timeout.  It is a fault when what was asked is still on its way.      *)
Pay(n) == faults + n <= MaxFaults /\ faults' = faults + n
Awaited(m) ==
  \/ routing.up /\ m.kind \in {"factor", "factor_request"}
  \/ /\ client.at = "routing" /\ m.kind \in {"address_request", "address"}
     /\ m.rid = client.query
     /\ m.kind = "address_request" => routing.up
  \/ /\ client.at = "servers" /\ m.kind \in {"request", "response"}
     /\ \E i \in client.ids : i[1] = m.rid
     /\ m.kind = "request" => NodeOf(m.to) \in members
Early == IF \E m \in msgs : Awaited(m) THEN 1 ELSE 0

TimeoutRouting ==
  /\ client.at = "routing"
  /\ Pay(Early)
  /\ Become({[c |-> [client EXCEPT !.at = "return", !.got = <<>>], out |-> {}]}, {})
  /\ UNCHANGED <<routing, members, factor, store, todo, lost>>

TimeoutServers ==
  /\ client.at = "servers"
  /\ Pay(Early)
  /\ Become(Retry([client EXCEPT !.key_address_cache =
                     invalidate_cache_for_worker(@, client.sent)]), {})
  /\ UNCHANGED <<routing, members, factor, store, todo, lost>>

------------------------------------------------------------------------------
(* The routing node.                                                       *)

(* The threads of the first tier that has any for the key.                 *)
Threads(k) ==
  LET in(t) == get_responsible_threads(routing.ring, k, routing.key_replication_map[k], {t})
      other == UNION {in(t) : t \in Tier \ {MemTier}}
  IN IF in(MemTier) # {} THEN in(MemTier) ELSE other

(* issue_replication_factor_request: to some thread that the routing node  *)
(* r holds responsible for the metadata.  When it knows no memory node,    *)
(* the index modulo the number of threads divides by zero.                 *)
Lookup(r, k, rest) ==
  LET threads == get_responsible_threads_metadata(r.ring, k)
  IN /\ routing' = [r EXCEPT !.up = threads # {}]
     /\ \/ threads = {} /\ msgs' = rest
        \/ \E p \in threads : msgs' = rest \cup {FactorRequest(k, p)}

(* Mutant of address_handler: a request that waits for a replication       *)
(* factor is noted, and the factor is not asked for.                       *)
address_handlerSilent(m) ==
  /\ m.kind = "address_request" /\ routing.up
  /\ routing.key_replication_map[m.key] = Unknown
  /\ routing' = [routing EXCEPT !.pending_requests = @ \cup {<<m.key, m.rid>>}]
  /\ msgs' = msgs \ {m}
  /\ UNCHANGED <<client, members, factor, store, results, todo, faults, lost>>

address_handler(m) ==
  /\ m.kind = "address_request" /\ routing.up
  /\ \/ /\ routing.ring = {}
        /\ msgs' = (msgs \ {m}) \cup {AddressResponse(m.rid, m.key, 1, {})}
        /\ UNCHANGED routing
     \/ /\ routing.ring # {} /\ routing.key_replication_map[m.key] = Unknown
        /\ Lookup([routing EXCEPT !.pending_requests = @ \cup {<<m.key, m.rid>>}],
                  m.key, msgs \ {m})
     \/ /\ routing.ring # {} /\ routing.key_replication_map[m.key] # Unknown
        /\ msgs' = (msgs \ {m}) \cup {AddressResponse(m.rid, m.key, 0, Threads(m.key))}
        /\ UNCHANGED routing
  /\ UNCHANGED <<client, members, factor, store, results, todo, faults, lost>>

(* Error 1 means the default factor, and error 2 that the wrong server was *)
(* asked.                                                                  *)
replication_response_handler(m) ==
  LET known == [routing EXCEPT !.key_replication_map[m.key] = m.version]
      waiting == {q \in routing.pending_requests : q[1] = m.key}
  IN /\ m.kind = "factor" /\ routing.up
     /\ \/ /\ m.error = 2
           /\ Lookup(routing, m.key, msgs \ {m})
        \/ /\ m.error # 2
           /\ routing' = [known EXCEPT !.pending_requests = @ \ waiting]
           /\ LET answer == get_responsible_threads(routing.ring, m.key, m.version, {MemTier})
                  other == get_responsible_threads(routing.ring, m.key, m.version,
                                                   Tier \ {MemTier})
              IN msgs' = (msgs \ {m}) \cup
                   {AddressResponse(q[2], m.key, 0, IF answer # {} THEN answer ELSE other)
                      : q \in waiting}
     /\ UNCHANGED <<client, members, factor, store, results, todo, faults, lost>>

replication_change_handler(m) ==
  /\ m.kind = "change" /\ routing.up
  /\ routing' = [routing EXCEPT !.key_replication_map[m.key] = m.version]
  /\ msgs' = msgs \ {m}
  /\ UNCHANGED <<client, members, factor, store, results, todo, faults, lost>>

(* Mutant of membership_handler: a server that has joined is taken out.    *)
membership_handlerSwapped(m) ==
  /\ m.kind \in {"join", "depart"} /\ routing.up
  /\ routing' = [routing EXCEPT !.ring = IF m.kind = "depart" THEN @ \cup {m.node}
                                         ELSE @ \ {m.node}]
  /\ msgs' = msgs \ {m}
  /\ UNCHANGED <<client, members, factor, store, results, todo, faults, lost>>

membership_handler(m) ==
  /\ m.kind \in {"join", "depart"} /\ routing.up
  /\ routing' = [routing EXCEPT !.ring = IF m.kind = "join" THEN @ \cup {m.node}
                                         ELSE @ \ {m.node}]
  /\ msgs' = msgs \ {m}
  /\ UNCHANGED <<client, members, factor, store, results, todo, faults, lost>>

------------------------------------------------------------------------------
(* The servers.  A thread that is not responsible for the key looks its    *)
(* replication factor up and answers with the threads of its own tier that *)
(* are.                                                                    *)
Replicas(k) == get_responsible_threads(members, k, factor[k], Tier)

(* The lattice type of what is stored for a key is that of the first PUT;  *)
(* values of another type are refused.                                     *)
SameType(val, new) == \A c \in val, d \in new : LatticeOf[c] = LatticeOf[d]
Merged(val, new) == IF SameType(val, new) THEN val \cup new ELSE val

(* Mutant of ServeData: a thread that is not responsible does not store    *)
(* the value and answers as if it had.                                     *)
ServeDataIgnored(m) ==
  LET p == m.to
      k == KeyOf[m.call]
      val == Merged(store[p][k], IF Type[m.call] = "put" THEN {m.call} ELSE {})
      error == IF val = {} THEN 1 ELSE 0
  IN /\ m.kind = "request" /\ NodeOf(p) \in members
     /\ store' = IF p \in Replicas(k) THEN [store EXCEPT ![p][k] = val] ELSE store
     /\ msgs' = (msgs \ {m}) \cup {DataResponse(m.rid, m.call, p, error, val, FALSE, {})}
     /\ UNCHANGED <<client, routing, members, factor, results, todo, faults, lost>>

(* A PUT of the wrong type is not stored, and its answer has no error      *)
(* either.  A request that has waited for the replication factor at the    *)
(* thread (pending_requests) does not make the client forget addresses.    *)
ServeData(m) ==
  LET p == m.to
      k == KeyOf[m.call]
      mine == {q \in Replicas(k) : SelfTier(q) = SelfTier(p)}
      stale == m.size > 0 /\ m.size # Cardinality(mine)
      val == Merged(store[p][k], IF Type[m.call] = "put" THEN {m.call} ELSE {})
      error == IF val = {} THEN 1 ELSE 0
  IN /\ m.kind = "request" /\ NodeOf(p) \in members
     /\ \/ /\ p \notin mine
           /\ msgs' = (msgs \ {m}) \cup
                        {DataResponse(m.rid, m.call, p, 2, {}, FALSE, mine)}
           /\ UNCHANGED store
        \/ /\ p \in mine
           /\ \E invalidate \in {stale, FALSE} :
                msgs' = (msgs \ {m}) \cup
                          {DataResponse(m.rid, m.call, p, error, val, invalidate, {})}
           /\ store' = [store EXCEPT ![p][k] = val]
     /\ UNCHANGED <<client, routing, members, factor, results, todo, faults, lost>>

ServeFactor(m) ==
  LET mine == m.to \in get_responsible_threads_metadata(members, m.key)
      error == IF ~ mine THEN 2 ELSE IF factor[m.key] = 0 THEN 1 ELSE 0
  IN /\ m.kind = "factor_request" /\ NodeOf(m.to) \in members
     /\ msgs' = (msgs \ {m}) \cup {FactorResponse(m.key, error, factor[m.key])}
     /\ UNCHANGED <<client, routing, members, factor, store, results, todo, faults, lost>>

(* Gossip of what p stores for k reaches q, which is responsible: of a     *)
(* periodic round, of a replica that is new, or of a thread that gives the *)
(* key up.                                                                 *)
Gossip(p, q, k) ==
  /\ q \in Replicas(k) /\ Merged(store[q][k], store[p][k]) # store[q][k]
  /\ store' = [store EXCEPT ![q][k] = Merged(@, store[p][k])]
  /\ UNCHANGED <<client, routing, members, factor, msgs, results, todo, faults, lost>>

(* A thread that is no longer responsible has sent the key to those that   *)
(* are, and removes it.  What is on its way to them counts as stored by    *)
(* the thread that sent it, a thread of a node that has departed included. *)
GiveUp(p, k) ==
  /\ store[p][k] # {} /\ Replicas(k) # {} /\ p \notin Replicas(k)
  /\ \A q \in Replicas(k) : Merged(store[q][k], store[p][k]) = store[q][k]
  /\ store' = [store EXCEPT ![p][k] = {}]
  /\ UNCHANGED <<client, routing, members, factor, msgs, results, todo, faults, lost>>

(* The servers are nodes ns and have replication factors f.                *)
Reshape(ns, f) ==
  /\ members' = ns
  /\ factor' = f
  /\ UNCHANGED <<client, routing, store, results, faults, lost>>

Join(n) ==
  /\ n \in todo \cap Joining
  /\ todo' = todo \ {n}
  /\ msgs' = msgs \cup {Notice("join", n)}
  /\ Reshape(members \cup {n}, factor)

(* The servers whose rings have a factor larger than the nodes of its tier *)
(* do not answer any more (responsible_global), so that the client has     *)
(* those that it fits.                                                     *)
AllFit(ns, f) ==
  \A k \in Key, t \in Tier : Fits(InTier(ns, t), RepOf[f[k]].global[t])

Depart(n) ==
  /\ n \in todo \cap Leaving \cap members
  /\ Notice("join", n) \notin msgs
  /\ InTier(members \ {n}, MemTier) # {}
  /\ AllFit(members \ {n}, factor)
  /\ todo' = todo \ {n}
  /\ msgs' = msgs \cup {Notice("depart", n)}
  /\ Reshape(members \ {n}, factor)

Rescale(k, v) ==
  /\ k \in todo \cap Rescaled
  /\ AllFit(members, [factor EXCEPT ![k] = v])
  /\ todo' = todo \ {k}
  /\ msgs' = msgs \cup {FactorChange(k, v)}
  /\ Reshape(members, [factor EXCEPT ![k] = v])

(* What is sent to a server that has departed is lost, and so may be other *)
(* requests and answers.                                                   *)
Lose(m) ==
  /\ m.kind \in {"request", "response", "factor_request", "factor"}
  /\ Pay(IF m.kind \in {"request", "factor_request"} /\ NodeOf(m.to) \notin members
         THEN 0 ELSE 1)
  /\ msgs' = msgs \ {m}
  /\ lost' = IF m.kind \in {"factor_request", "factor"} THEN lost \cup {m.key} ELSE lost
  /\ UNCHANGED <<client, routing, members, factor, store, results, todo>>

------------------------------------------------------------------------------
Init ==
  /\ client = NewClient
  /\ routing = NewRouting
  /\ members = InitNodes
  /\ factor = [k \in Key |-> 0]
  /\ store = [p \in Thread |-> [k \in Key |-> {}]]
  /\ msgs = {Notice("join", n) : n \in InitNodes}
  /\ results = [c \in Call |-> Unreturned]
  /\ todo = Call \cup Joining \cup Leaving \cup Rescaled
  /\ faults = 0
  /\ lost = {}

Progress ==
  \/ \E c \in Call : Issue(c)
  \/ \E m \in msgs :
       \/ ReceiveAddress(m) \/ ReceiveResponse(m) \/ Discard(m)
       \/ address_handler(m) \/ replication_response_handler(m)
       \/ replication_change_handler(m) \/ membership_handler(m)
       \/ ServeData(m) \/ ServeFactor(m)

Next ==
  \/ Progress
  \/ clear_cache \/ TimeoutRouting \/ TimeoutServers
  \/ \E p \in Thread, k \in Key : GiveUp(p, k) \/ \E q \in Thread : Gossip(p, q, k)
  \/ \E n \in Node : Join(n) \/ Depart(n)
  \/ \E k \in Key, v \in Version \ {0} : Rescale(k, v)
  \/ \E m \in msgs : Lose(m)

Spec == Init /\ [][Next]_vars

(* The client goes on with its call (a receive that nothing comes for      *)
(* times out) and the nodes handle what they have received; only faults,   *)
(* departures and new replication factors need not happen.  Notices reach  *)
(* the routing node however often it is asked.                             *)
Busy == client.at # "idle" \/ todo \cap Call # {}
FairSpec ==
  /\ Spec
  /\ <>[]Busy => []<><<UNCHANGED faults>>_vars
  /\ WF_vars(\E n \in Node : Join(n))
  /\ WF_vars(\E m \in msgs : membership_handler(m))

------------------------------------------------------------------------------
(* The request ids in use are distinct (and odd: rid_ is incremented twice *)
(* for each, so it is never reset), and the cache and the routing node     *)
(* know server threads only.                                               *)
ClientTypeOK ==
  /\ client.at \in {"idle", "routing", "servers"}
  /\ client.key_address_cache \in [Key -> SUBSET Thread]
  /\ client.left \in 0 .. trial_limit
  /\ client.next % 2 = 0
  /\ \A i, j \in client.ids : i[1] = j[1] => i = j
  /\ routing.ring \subseteq Node
  /\ routing.key_replication_map \in [Key -> Version \cup {Unknown}]
  /\ store \in [Thread -> [Key -> SUBSET Call]]
  /\ faults \in 0 .. MaxFaults

(* A PUT of another lattice type has been made for the key.                *)
Mixed(c) ==
  \E d \in Call \ todo : /\ Type[d] = "put" /\ KeyOf[d] = KeyOf[c]
                        /\ LatticeOf[d] # LatticeOf[c]

(* A PUT that put or put_all returns as answered without error is not      *)
(* lost, whichever servers join, depart, take the key over or give it up:  *)
(* a thread stores it, unless PUTs of two lattice types were made for the  *)
(* key (then the one that comes second is answered and not stored).        *)
AnswersAreStored ==
  \A c \in Call : Type[c] = "put" =>
    \A m \in results[c].answers :
      m.error = 0 => Mixed(c) \/ \E p \in Thread : c \in store[p][KeyOf[c]]

(* The same without the exception.  Not so: a PUT of another lattice type  *)
(* is answered without an error and is not stored (user_request_handler).  *)
PutsAreStored ==
  \A c \in Call : Type[c] = "put" =>
    \A m \in results[c].answers :
      m.error = 0 => \E p \in Thread : c \in store[p][KeyOf[c]]

(* put_all returns true, and get_all values, only when every thread that   *)
(* was asked has answered (try_multi_request).                             *)
AllAnswer ==
  [][\A c \in Call : Many[c] /\ results'[c] # results[c] /\ results'[c].status = "ok" =>
       {m.from : m \in results'[c].answers} = client.sent]_vars

(* No call returns a straggler: every answer it returns is one to a        *)
(* request of its own, however late the answers to the calls before it     *)
(* come (the ids in receive).                                              *)
NoStragglers ==
  [][\A c \in Call : results'[c] # results[c] =>
       \A m \in results'[c].answers : m.call = c]_vars

(* While an address request waits at the routing node (pending_requests),  *)
(* the replication factor that it waits for is being looked up, unless the *)
(* lookup was lost on its way.                                             *)
PendingLookedUp ==
  \A q \in routing.pending_requests :
    \/ ~ routing.up
    \/ q[1] \in lost
    \/ \E m \in msgs : m.kind \in {"factor_request", "factor"} /\ m.key = q[1]

(* Every call returns.                                                     *)
CallsReturn == \A c \in Call : (c \notin todo) ~> (results[c] # Unreturned)

(* put_all returns true only if all replicas of the key have the value.    *)
AllReplicasWritten ==
  [][\A c \in Call : Type[c] = "put" /\ Many[c] /\ results[c] # results'[c]
                       /\ results'[c].status = "ok" =>
       \A p \in Replicas(KeyOf[c]) : c \in store[p][KeyOf[c]]]_vars
=============================================================================
