----------------------------- MODULE AsyncCache ------------------------------
(***************************************************************************)
(* The cache of a function node (functions/cache/src/async_cache.cpp), its *)
(* asynchronous client of the key-value store (module AsyncClient), and    *)
(* the executor threads of the node, which reach it through                *)
(* IpcAnnaClient (kvs/client/python/anna/ipc_client.py).                   *)
(*                                                                         *)
(* The cache runs one loop; a pass polls every socket, then looks at what  *)
(* has timed out, reports and evicts.  An action is a pass in which one of *)
(* these finds something to do, with the eviction at its end.              *)
(*                                                                         *)
(* A lattice value is the set of the PUTs merged into it, as in KvsServer; *)
(* no value is {}.  The key-value store is one copy of each key behind     *)
(* servers that answer, redirect or lose a request.                        *)
(***************************************************************************)
EXTENDS AsyncClient, FiniteSets

CONSTANTS
  Thread,      \* the executor threads
  Op,          \* the calls of IpcAnnaClient that they make
  Foreign,     \* PUTs of other clients of the store
  OpThread, OpKind, OpKeys, OpType,  \* who calls, get or put, what
  Idle,
  CacheKey,    \* the metadata key that holds the set of cached keys
  InitKvs,     \* the PUTs in the store at first
  Replicas,    \* the sets of addresses that the routing tier may answer
  MaxKeys,     \* 1000: the cache evicts when it holds more
  EvictCount,  \* 10
  Redirects,   \* those that a server which is not responsible may name
  FaultCost,   \* what may go wrong or happen of itself, and the cost that
  MaxFaults    \* is bounded in all by MaxFaults

DataKey == Key \ {CacheKey}
Put == {o \in Op : OpKind[o] = "put"}
Lattice == {"LWW", "SET"}
NO == "NO"
Write == Put \cup Foreign
KeyOf(o) == OpKeys[o][1]

VARIABLES
  client,      \* the state of the asynchronous client
  cache,       \* the local variables of the cache's loop
  msgs,        \* messages between the client and the store
  kvs,         \* the PUTs merged into each key of the store
  registered,  \* the last key set that the store has of the cache
  tracked,     \* the keys that a server believes to be in the cache (key_to_cache_ips)
  pushed,      \* what it has last pushed to the cache of each key
  get_puller, put_puller,  \* requests of the executors
  inbox,       \* answers to each thread, for get and for put
  pc,          \* the call a thread waits in, or Idle
  todo,        \* calls not made yet
  processed, answers, retrieved,  \* history: PUTs processed by the store,
               \* answers to each PUT, keys found in the store
  faults       \* the cost of the faults so far

cacheVars == <<get_puller, put_puller, inbox, answers, retrieved>>
ipcVars == <<pc, todo>>
kvsVars == <<kvs, registered, tracked, pushed, processed>>
vars == <<client, cache, msgs, cacheVars, ipcVars, kvsVars, faults>>

NewCache ==
  [key_type_map             |-> [k \in DataKey |-> NO],
   local                    |-> [t \in Lattice |-> [k \in DataKey |-> {}]],
   key_requestor_map        |-> [k \in DataKey |-> {}],
   pending_request_read_set |-> [t \in Thread |-> [read |-> {}, left |-> {}]],
   request_address_map      |-> {},
   access_order             |-> <<>>,
   up                       |-> TRUE,
   sent                     |-> {}]

TypeOfKey(k) ==
  IF kvs[k] = {} THEN NO ELSE OpType[CHOOSE w \in kvs[k] : TRUE]

Init ==
  /\ client = NewClient
  /\ cache = NewCache
  /\ msgs = {}
  /\ kvs = [k \in DataKey |-> {w \in InitKvs : KeyOf(w) = k}]
  /\ registered = [seq |-> 0, keys |-> {}]
  /\ tracked = {}
  /\ pushed = [k \in DataKey |-> {}]
  /\ get_puller = <<>> /\ put_puller = <<>>
  /\ inbox = [t \in Thread |-> [get |-> <<>>, put |-> <<>>]]
  /\ pc = [t \in Thread |-> Idle]
  /\ todo = Op
  /\ processed = {}
  /\ answers = [p \in Put |-> 0]
  /\ retrieved = {}
  /\ faults = 0

Fault(f) ==
  /\ faults + FaultCost[f] <= MaxFaults
  /\ faults' = faults + FaultCost[f]

------------------------------------------------------------------------------
(* IpcAnnaClient: a call sends one request and waits for one answer on the *)
(* thread's own socket; the answers carry no request id.                   *)
IpcSend(o) ==
  /\ o \in todo /\ pc[OpThread[o]] = Idle
  /\ pc' = [pc EXCEPT ![OpThread[o]] = o]
  /\ todo' = todo \ {o}
  /\ IF o \in Put
     THEN put_puller' = Append(put_puller, o) /\ UNCHANGED get_puller
     ELSE get_puller' = Append(get_puller, o) /\ UNCHANGED put_puller
  /\ UNCHANGED <<client, cache, msgs, kvsVars, inbox, answers, retrieved, faults>>

IpcReceive(t) ==
  /\ pc[t] # Idle
  /\ inbox[t][OpKind[pc[t]]] # <<>>
  /\ inbox' = [inbox EXCEPT ![t][OpKind[pc[t]]] = Tail(@)]
  /\ pc' = [pc EXCEPT ![t] = Idle]
  /\ UNCHANGED <<client, cache, msgs, kvsVars, todo, get_puller, put_puller,
                 answers, retrieved, faults>>

IpcTimeout(t) ==
  /\ pc[t] # Idle
  /\ Fault("ipc")
  /\ pc' = [pc EXCEPT ![t] = Idle]
  /\ UNCHANGED <<client, cache, msgs, kvsVars, cacheVars, todo>>

------------------------------------------------------------------------------
(* Helpers of the cache.  An entry of access_order is live when            *)
(* iterator_cache points to it; at most one entry of a key is.             *)
HasIterator(c, k) ==
  \E i \in DOMAIN c.access_order : c.access_order[i] = [key |-> k, live |-> TRUE]

PushFront(c, k, order) ==
  [c EXCEPT !.access_order =
     <<[key |-> k, live |-> TRUE]>> \o
     [i \in DOMAIN order |-> [order[i] EXCEPT !.live = @ /\ order[i].key # k]]]

EraseIterator(c, k) ==
  SelectSeq(c.access_order, LAMBDA e : ~ (e.key = k /\ e.live))

(* Mutant of update_cache: the payload replaces the local value.           *)
update_cacheOverwrite(c, k, t, v) ==
  [c EXCEPT !.key_type_map[k] = t, !.local[t][k] = v]

(* update_cache, with the assignment to key_type_map before it.            *)
update_cache(c, k, t, v) ==
  [c EXCEPT !.key_type_map[k] = t, !.local[t][k] = @ \cup v]

(* send_get_response: each key with its value, or {} for error 1.          *)
send_get_response(c, t, read) ==
  [c EXCEPT !.sent = @ \cup
     {[thread |-> t, kind |-> "get",
       tuples |-> [k \in read |-> IF c.key_type_map[k] = NO THEN {}
                                  ELSE c.local[c.key_type_map[k]][k]]]}]

(* The eviction at the end of a pass: the 10 last entries of access_order. *)
EvictLast(c) ==
  LET k == Last(c.access_order).key
      t == c.key_type_map[k]
      order == Front(c.access_order)
      dropped == IF t = NO THEN c ELSE [c EXCEPT !.local[t][k] = {}]
  IN [dropped EXCEPT
        !.key_type_map[k] = NO,
        !.access_order =
          [i \in DOMAIN order |-> [order[i] EXCEPT !.live = @ /\ order[i].key # k]]]

Evict(c) ==
  LET step[n \in 0 .. EvictCount] ==
        IF n = 0 \/ Len(c.access_order) < n THEN c ELSE EvictLast(step[n - 1])
      full == Cardinality({k \in DataKey : c.key_type_map[k] # NO}) > MaxKeys
  IN IF full THEN step[EvictCount] ELSE c

(* The end of a pass that leaves s, in which the messages m were received. *)
EndPass(s, m) ==
  /\ client' = [s.client EXCEPT !.out = {}]
  /\ msgs' = (msgs \ m) \cup s.client.out
  /\ cache' = [Evict(s.cache) EXCEPT !.sent = {}]
  /\ inbox' =
       [t \in Thread |->
          LET new(kind) == {a \in s.cache.sent : a.thread = t /\ a.kind = kind}
          IN [get |-> inbox[t].get \o SetToSeq({a.tuples : a \in new("get")}),
              put |-> inbox[t].put \o SetToSeq({a.error : a \in new("put")})]]
  /\ answers' =
       [p \in Put |-> answers[p] + Cardinality(
          {a \in s.cache.sent : a.kind = "put" /\ a.put = p})]

Answer(t, put, err) ==
  [thread |-> t, kind |-> "put", put |-> put, error |-> err]

State == [client |-> client, cache |-> cache]

------------------------------------------------------------------------------
(* The handlers of the cache.                                              *)
GetTuple(s, t, k, pick) ==
  LET c == s.cache
      miss == c.key_type_map[k] = NO
      asked == [c EXCEPT !.key_requestor_map[k] = @ \cup {t}]
  IN IF miss
     THEN [client |-> get_async(s.client, k, pick),
           cache  |-> PushFront(asked, k, c.access_order)]
     ELSE [client |-> s.client,
           cache  |-> [PushFront(c, k, EraseIterator(c, k))
                       EXCEPT !.up = @ /\ HasIterator(c, k)]]

HandleGet(pick) ==
  /\ cache.up /\ get_puller # <<>>
  /\ LET o == Head(get_puller)
         t == OpThread[o]
         s == FoldLeft(LAMBDA x, k : GetTuple(x, t, k, pick), State, OpKeys[o])
         read == Range(OpKeys[o])
         left == {k \in read : cache.key_type_map[k] = NO}
         pending == [s.cache EXCEPT
                       !.pending_request_read_set[t] = [read |-> read, left |-> left]]
     IN EndPass([s EXCEPT !.cache = IF left = {}
                                    THEN send_get_response(@, t, read)
                                    ELSE pending], {})
  /\ get_puller' = Tail(get_puller)
  /\ UNCHANGED <<ipcVars, kvsVars, put_puller, retrieved, faults>>

(* request_address_map[id] = the address of the thread that called put.    *)
Expect(c, id, t) ==
  [c EXCEPT !.request_address_map =
     {a \in @ : a.id # id} \cup {[id |-> id, thread |-> t]}]

HandlePut(pick) ==
  /\ cache.up /\ put_puller # <<>>
  /\ LET o == Head(put_puller)
         t == OpThread[o]
         k == KeyOf(o)
         refused == \/ OpType[o] = NO
                    \/ cache.key_type_map[k] \notin {NO, OpType[o]}
         c == update_cache(cache, k, OpType[o], {o})
         n == put_async(client, k, o, pick)
     IN EndPass(IF refused
                THEN [State EXCEPT !.cache.sent = {Answer(t, o, "LATTICE")}]
                ELSE [client |-> n.client,
                      cache  |-> Expect(PushFront(c, k, EraseIterator(c, k)),
                                        n.id, t)], {})
  /\ put_puller' = Tail(put_puller)
  /\ UNCHANGED <<ipcVars, kvsVars, get_puller, retrieved, faults>>

(* An update pushed by the store; a value of another type is dropped.      *)
HandleUpdate(m) ==
  /\ cache.up /\ m \in msgs /\ m.kind = "update"
  /\ LET t == cache.key_type_map[m.key]
         c == IF t = m.lattice THEN cache
              ELSE [cache EXCEPT !.local[t][m.key] = {}]
     IN EndPass([State EXCEPT !.cache =
                   IF t = NO THEN cache
                   ELSE update_cache(c, m.key, m.lattice, m.val)], {m})
  /\ UNCHANGED <<ipcVars, kvsVars, get_puller, put_puller, retrieved, faults>>

(* Mutant of Notify: a thread whose last key has come is not answered.     *)
NotifyForgets(c, k) ==
  [c EXCEPT
     !.key_requestor_map[k] = {},
     !.pending_request_read_set =
        [t \in Thread |-> [read |-> @[t].read, left |-> @[t].left \ {k}]]]

(* A value has come for key k: the threads that wait for it are told, and  *)
(* those that wait for nothing else are answered.                          *)
Notify(c, k) ==
  LET rs == c.pending_request_read_set
      left(t) == rs[t].left \ {k}
      told == c.key_requestor_map[k]
      ready == {t \in told : left(t) = {}}
      noted == [c EXCEPT
        !.key_requestor_map[k] = {},
        !.pending_request_read_set =
           [t \in Thread |-> IF t \in ready THEN [read |-> {}, left |-> {}]
                             ELSE IF t \in told THEN [rs[t] EXCEPT !.left = left(t)]
                             ELSE rs[t]]]
  IN FoldSet(LAMBDA t, d : send_get_response(d, t, rs[t].read), noted, ready)

(* Mutant of Reissue: the address is not moved to the new id.              *)
ReissueForgets(s, m, mine, pick) ==
  [s EXCEPT !.client = put_async(@, m.req.key, m.req.put, pick).client,
            !.cache.request_address_map = @ \ mine]

(* A PUT of an executor that timed out is issued again under a new id.     *)
Reissue(s, m, mine, pick) ==
  LET n == put_async(s.client, m.req.key, m.req.put, pick)
      t == (CHOOSE a \in mine : TRUE).thread
  IN [s EXCEPT
        !.client = n.client,
        !.cache = Expect([@ EXCEPT !.request_address_map = @ \ mine], n.id, t)]

(* One result of receive_async.                                            *)
HandleResult(s, m, pick) ==
  LET k == m.req.key
      c == s.cache
      mine == {a \in c.request_address_map : a.id = m.req.id}
      found == IF m.error = 1 THEN c ELSE update_cache(c, k, m.lattice, m.val)
  IN IF m.req.type = "GET"
     THEN IF m.error = TIMEOUT
          THEN [s EXCEPT !.client = get_async(@, k, pick)]
          ELSE [s EXCEPT !.cache = Notify(found, k)]
     ELSE IF mine = {} THEN s
     ELSE IF m.error = TIMEOUT THEN Reissue(s, m, mine, pick)
     ELSE [s EXCEPT
             !.cache.request_address_map = @ \ mine,
             !.cache.sent =
                @ \cup {Answer(a.thread, m.req.put, m.error) : a \in mine}]

(* The loop over the results of receive_async.                             *)
Receive(r, m, pick) ==
  /\ EndPass(FoldLeft(LAMBDA s, res : HandleResult(s, res, pick),
                      [client |-> r.client, cache |-> cache], r.results), m)
  /\ retrieved' = retrieved \cup
       {res.req.key : res \in {x \in Range(r.results) :
                                 x.req.type = "GET" /\ x.error = 0}}
  /\ UNCHANGED <<ipcVars, kvsVars, get_puller, put_puller>>

HandleAddress(m, pick) ==
  /\ cache.up /\ m \in msgs /\ m.kind = "address_response"
  /\ Receive([client |-> ReceiveAddress(client, m, pick), results |-> <<>>], {m}, pick)
  /\ UNCHANGED faults

HandleResponse(m, pick) ==
  /\ cache.up /\ m \in msgs /\ m.kind = "response"
  /\ Receive(ReceiveResponse(client, m, pick), {m}, pick)
  /\ UNCHANGED faults

(* A timeout is early while the answer may still come; those are bounded.  *)
Early(inFlight) == IF inFlight THEN Fault("early") ELSE UNCHANGED faults

AddressTimeout(k, pick) ==
  /\ cache.up /\ client.pending_request_map[k] # <<>>
  /\ Early(\E m \in msgs :
             m.kind \in {"address_request", "address_response"} /\ m.key = k)
  /\ Receive(ExpireAddress(client, k), {}, pick)

ResponseTimeout(p, pick) ==
  /\ cache.up
  /\ p \in client.pending_get_response_map \cup client.pending_put_response_map
  /\ Early(\/ \E m \in msgs : m.kind \in {"request", "response"} /\ m.req = p.req
           \/ p.req \in Range(client.pending_request_map[p.req.key]))
  /\ Receive(ExpireResponse(client, p), {}, pick)

(* The periodic report of the cached keys; nobody waits for its answer.    *)
Report(pick) ==
  /\ cache.up
  /\ Fault("report")
  /\ LET keys == {k \in DataKey : cache.key_type_map[k] # NO}
         n == put_async(client, CacheKey,
                        [seq |-> faults + 1, keys |-> keys], pick)
     IN EndPass([client |-> n.client, cache |-> cache], {})
  /\ UNCHANGED <<ipcVars, kvsVars, get_puller, put_puller, retrieved>>

------------------------------------------------------------------------------
(* The routing tier and the servers.                                       *)
envUnchanged == UNCHANGED <<client, cache, cacheVars, ipcVars>>

RouteAddress(m, ips) ==
  /\ m \in msgs /\ m.kind = "address_request"
  /\ msgs' = (msgs \ {m}) \cup {AddressResponse(m.key, 0, ips)}
  /\ UNCHANGED <<kvsVars, faults>> /\ envUnchanged

NoServers(m) ==
  /\ m \in msgs /\ m.kind = "address_request"
  /\ Fault("noServers")
  /\ msgs' = (msgs \ {m}) \cup {AddressResponse(m.key, 1, {})}
  /\ UNCHANGED kvsVars /\ envUnchanged

(* A server processes a request.  A PUT of another type than the stored    *)
(* one is dropped, and answered as if it had been stored.                  *)
Serve(m, inv) ==
  /\ m \in msgs /\ m.kind = "request"
  /\ LET r == m.req
         k == r.key
         t == IF k = CacheKey THEN NO ELSE TypeOfKey(k)
         reply(err, type, v) ==
           msgs' = (msgs \ {m}) \cup {KeyResponse(r, err, type, v, inv, {})}
     IN \/ /\ r.type = "GET"
           /\ IF t = NO THEN reply(1, NO, {}) ELSE reply(0, t, kvs[k])
           /\ UNCHANGED kvsVars
        \/ /\ r.type = "PUT" /\ k # CacheKey
           /\ reply(0, NO, {})
           /\ kvs' = IF t \in {NO, OpType[r.put]}
                     THEN [kvs EXCEPT ![k] = @ \cup {r.put}] ELSE kvs
           /\ processed' = processed \cup {r.put}
           /\ UNCHANGED <<registered, tracked, pushed>>
        \/ /\ r.type = "PUT" /\ k = CacheKey
           /\ reply(0, NO, {})
           /\ registered' = IF r.put.seq > registered.seq THEN r.put ELSE registered
           /\ UNCHANGED <<kvs, tracked, pushed, processed>>
  /\ IF inv THEN Fault("invalidate") ELSE UNCHANGED faults
  /\ envUnchanged

(* A server that is not responsible names those that are, if it knows any. *)
Redirect(m, addrs) ==
  /\ m \in msgs /\ m.kind = "request"
  /\ Fault("redirect")
  /\ msgs' = (msgs \ {m}) \cup {KeyResponse(m.req, 2, NO, {}, FALSE, addrs)}
  /\ UNCHANGED kvsVars /\ envUnchanged

Lose(m) ==
  /\ m \in msgs /\ m.kind # "update"
  /\ Fault("lose")
  /\ msgs' = msgs \ {m}
  /\ UNCHANGED kvsVars /\ envUnchanged

(* A server looks the cached keys up, now and then.  There is nothing to   *)
(* find (error 1) until the cache has reported.                            *)
cache_ip_response_handler ==
  /\ registered.seq > 0 /\ tracked # registered.keys
  /\ tracked' = registered.keys
  /\ UNCHANGED <<msgs, kvs, registered, pushed, processed, faults>> /\ envUnchanged

(* It pushes a key that has changed to the caches that it believes hold it.*)
Push(k) ==
  /\ k \in tracked /\ kvs[k] # pushed[k]
  /\ pushed' = [pushed EXCEPT ![k] = kvs[k]]
  /\ msgs' = msgs \cup {[kind |-> "update", key |-> k, lattice |-> TypeOfKey(k),
                         val |-> kvs[k]]}
  /\ UNCHANGED <<kvs, registered, tracked, processed, faults>> /\ envUnchanged

ForeignPut(f) ==
  /\ f \in Foreign /\ f \notin kvs[KeyOf(f)]
  /\ TypeOfKey(KeyOf(f)) \in {NO, OpType[f]}
  /\ kvs' = [kvs EXCEPT ![KeyOf(f)] = @ \cup {f}]
  /\ UNCHANGED <<msgs, registered, tracked, pushed, processed, faults>> /\ envUnchanged

------------------------------------------------------------------------------
Next ==
  \/ \E o \in Op : IpcSend(o)
  \/ \E t \in Thread : IpcReceive(t) \/ IpcTimeout(t)
  \/ \E pick \in Worker :
       \/ HandleGet(pick) \/ HandlePut(pick) \/ Report(pick)
       \/ \E m \in msgs : HandleAddress(m, pick) \/ HandleResponse(m, pick)
       \/ \E k \in Key : AddressTimeout(k, pick)
       \/ \E p \in client.pending_get_response_map
                    \cup client.pending_put_response_map : ResponseTimeout(p, pick)
  \/ \E m \in msgs :
       \/ HandleUpdate(m)
       \/ \E ips \in Replicas : RouteAddress(m, ips)
       \/ \E inv \in BOOLEAN : Serve(m, inv)
       \/ \E addrs \in Redirects : Redirect(m, addrs)
       \/ NoServers(m) \/ Lose(m)
  \/ cache_ip_response_handler
  \/ \E k \in DataKey : Push(k)
  \/ \E f \in Foreign : ForeignPut(f)

Spec == Init /\ [][Next]_vars

(* Something is left to do: a request or a message to receive, an answer   *)
(* to return, or a request that was lost and has to time out.              *)
Busy ==
  \/ get_puller # <<>> \/ put_puller # <<>> \/ msgs # {}
  \/ \E t \in Thread : pc[t] # Idle /\ inbox[t][OpKind[pc[t]]] # <<>>
  \/ client.pending_get_response_map # {} \/ client.pending_put_response_map # {}
  \/ \E k \in Key : client.pending_request_map[k] # <<>>

(* The loops of the cache, of the servers and of the executors poll for    *)
(* ever and the clock runs on: while something is left to do, steps that   *)
(* are neither faults nor new calls keep happening.                        *)
FairSpec ==
  Spec /\ (<>[]Busy => []<><<UNCHANGED <<faults, todo>>>>_vars)

------------------------------------------------------------------------------
(* The state has its type: at most one pending GET for a key and one       *)
(* pending PUT for an id, a value for every cached key, and an entry of    *)
(* access_order for each iterator.                                         *)
CacheTypeOK ==
  /\ \A p, q \in client.pending_get_response_map : p.req.key = q.req.key => p = q
  /\ \A p, q \in client.pending_put_response_map : p.req.id = q.req.id => p = q
  /\ \A k \in DataKey :
       LET t == cache.key_type_map[k]
       IN t \in Lattice \cup {NO} /\ (t # NO => cache.local[t][k] # {})
  /\ \A k \in DataKey : Cardinality({i \in DOMAIN cache.access_order :
       cache.access_order[i] = [key |-> k, live |-> TRUE]}) <= 1

(* Every PUT the cache accepted stays merged into the local value for as   *)
(* long as the key keeps the type of the PUT (no answer of the store,      *)
(* update or late response undoes a write of the node itself).             *)
Taken == {o \in Put : o \notin todo /\ o \notin Range(put_puller)}
OwnWritesKept ==
  \A o \in {p \in Taken : answers[p] = 0 \/ p \in processed} :
    cache.key_type_map[KeyOf(o)] = OpType[o]
      => o \in cache.local[OpType[o]][KeyOf(o)]

(* A hit finds the key's place in access_order: the iterator that          *)
(* access_order.erase takes is one that the list handed out.  Not so once  *)
(* the cache evicts: the entry of a key that is still being fetched may be *)
(* dropped, and the response that comes then makes the key a hit again.    *)
HitsHaveIterators ==
  \A k \in DataKey : cache.key_type_map[k] # NO => HasIterator(cache, k)

(* "key dne in cache, it actually means that there is a response from kvs  *)
(* that has error = 1": an answer says that a key does not exist only if   *)
(* the store never returned a value for it.  Not so once the cache evicts  *)
(* a key that a pending GET has counted as covered.                        *)
AbsentMeansAbsent ==
  [][\A t \in Thread :
       Len(inbox'[t].get) > Len(inbox[t].get) =>
         \A k \in DOMAIN Last(inbox'[t].get) :
           Last(inbox'[t].get)[k] = {} => k \notin retrieved']_vars

(* The cache keeps what KvsAccess promises about PUTs, however often the   *)
(* client times out, is redirected or gets an answer late.                 *)
Access == INSTANCE KvsAccess WITH asked <- Taken
ImplementsAccess == Access!Spec

(* Every call an executor makes returns, without its own timeout.          *)
CallsReturn == \A t \in Thread : pc[t] # Idle ~> pc[t] = Idle
=============================================================================
