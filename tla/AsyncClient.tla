----------------------------- MODULE AsyncClient -----------------------------
(***************************************************************************)
(* The asynchronous client of the key-value store                          *)
(* (include/kvs_async_client.hpp), as operators on its state.              *)
(*                                                                         *)
(* A request is [type, key, id, put]; put is the PUT it carries, or NoPut. *)
(* The client's state is a record named after its members; a missing or    *)
(* empty entry of key_address_cache_ is the empty set and a missing entry  *)
(* of pending_request_map_ the empty sequence, which the code treats       *)
(* alike.  out collects the messages that the current call sends.  The     *)
(* random choice of a worker is the argument pick of the operators.        *)
(***************************************************************************)
EXTENDS SequencesExt, Integers

CONSTANTS
  Key,      \* the keys, the cache's own metadata key included
  Worker,   \* addresses of storage server threads
  NodeOfW,  \* the node of each, the "signature" of its address
  NoPut,
  RidWrap   \* 10000 in get_request_id

NewClient ==
  [key_address_cache        |-> [k \in Key |-> {}],
   pending_request_map      |-> [k \in Key |-> <<>>],
   pending_get_response_map |-> {},
   pending_put_response_map |-> {},
   rid                      |-> 0,
   out                      |-> {}]

(* Messages.  An answer of a server and a timeout that the client reports  *)
(* have the same form.                                                     *)
AddressRequest(k) == [kind |-> "address_request", key |-> k]
AddressResponse(k, err, ips) ==
  [kind |-> "address_response", key |-> k, error |-> err, ips |-> ips]
DataRequest(r, w) == [kind |-> "request", req |-> r, worker |-> w]
KeyResponse(r, err, t, v, inv, addrs) ==
  [kind |-> "response", req |-> r, error |-> err, lattice |-> t, val |-> v,
   invalidate |-> inv, addresses |-> addrs]
TIMEOUT == -1

------------------------------------------------------------------------------
(* The counter is incremented before and after its use, so the test for    *)
(* its reset only ever sees odd numbers.                                   *)
get_request_id(c) ==
  LET id == IF (c.rid + 1) % RidWrap = 0 THEN 0 ELSE c.rid + 1
  IN [id |-> id, client |-> [c EXCEPT !.rid = id + 1]]

query_routing_async(c, k) ==
  [get_request_id(c).client EXCEPT !.out = @ \cup {AddressRequest(k)}]

get_worker_thread(addrs, pick) ==
  IF pick \in addrs THEN pick ELSE CHOOSE w \in addrs : TRUE

(* The entry old of a response map, if there is one, keeps its request;    *)
(* its worker is the last one that was tried.                              *)
Record(pending, old, r, w) ==
  IF old = {} THEN pending \cup {[req |-> r, worker |-> w]}
  ELSE (pending \ old) \cup {[p EXCEPT !.worker = w] : p \in old}

try_request(c, r, pick) ==
  LET k == r.key
      addrs == c.key_address_cache[k]
      w == get_worker_thread(addrs, pick)
      asked == IF c.pending_request_map[k] = <<>>
               THEN query_routing_async(c, k) ELSE c
      sent == [c EXCEPT !.out = @ \cup {DataRequest(r, w)}]
      oldGet == {p \in c.pending_get_response_map : p.req.key = k}
      oldPut == {p \in c.pending_put_response_map :
                   p.req.key = k /\ p.req.id = r.id}
  IN IF addrs = {}
     THEN [asked EXCEPT !.pending_request_map[k] = Append(@, r)]
     ELSE IF r.type = "GET"
     THEN [sent EXCEPT !.pending_get_response_map = Record(@, oldGet, r, w)]
     ELSE [sent EXCEPT !.pending_put_response_map = Record(@, oldPut, r, w)]

------------------------------------------------------------------------------
(* The two calls of the client's user.  put_async also returns the id.     *)
Waiting(c, k) == \E p \in c.pending_get_response_map : p.req.key = k

get_async(c, k, pick) ==
  IF Waiting(c, k) THEN c
  ELSE LET n == get_request_id(c)
           r == [type |-> "GET", key |-> k, id |-> n.id, put |-> NoPut]
       IN try_request(n.client, r, pick)

put_async(c, k, put, pick) ==
  LET n == get_request_id(c)
      r == [type |-> "PUT", key |-> k, id |-> n.id, put |-> put]
  IN [id |-> n.id, client |-> try_request(n.client, r, pick)]

------------------------------------------------------------------------------
(* receive_async: what it does with an address response ...                *)
ReceiveAddress(c, m, pick) ==
  LET k == m.key
      known == [c EXCEPT !.key_address_cache[k] = @ \cup m.ips]
  IN IF c.pending_request_map[k] = <<>> THEN c
     ELSE IF m.error = 1 THEN query_routing_async(c, k)
     ELSE [FoldLeft(LAMBDA d, r : try_request(d, r, pick),
                    known, c.pending_request_map[k])
           EXCEPT !.pending_request_map[k] = <<>>]

(* ... with an answer of a server: invalidate_cache_for_key, and whether   *)
(* the request goes out again.  A GET is matched by its key only.          *)
check_tuple(c, m) ==
  IF m.error = 2 \/ m.invalidate
  THEN [c EXCEPT !.key_address_cache[m.req.key] = m.addresses] ELSE c

Matching(c, m) ==
  IF m.req.type = "GET"
  THEN {p \in c.pending_get_response_map : p.req.key = m.req.key}
  ELSE {p \in c.pending_put_response_map :
          p.req.key = m.req.key /\ p.req.id = m.req.id}

Without(c, ps) ==
  [c EXCEPT !.pending_get_response_map = @ \ ps,
            !.pending_put_response_map = @ \ ps]

(* The client after the answer m, and the results it returns.              *)
ReceiveResponse(c, m, pick) ==
  LET ps == Matching(c, m)
      checked == check_tuple(c, m)
      again == (CHOOSE p \in ps : TRUE).req
  IN IF ps = {} THEN [client |-> c, results |-> <<>>]
     ELSE IF m.error = 2
     THEN [client |-> try_request(checked, again, pick), results |-> <<>>]
     ELSE [client |-> Without(checked, ps), results |-> <<m>>]

(* ... and with what has waited for longer than timeout_.                  *)
generate_bad_response(r) == KeyResponse(r, TIMEOUT, "NO", {}, FALSE, {})

ExpireAddress(c, k) ==
  [client  |-> [c EXCEPT !.pending_request_map[k] = <<>>],
   results |-> [i \in DOMAIN c.pending_request_map[k] |->
                  generate_bad_response(c.pending_request_map[k][i])]]

invalidate_cache_for_worker(c, w) ==
  [c EXCEPT !.key_address_cache =
     [k \in Key |-> IF \E a \in @[k] : NodeOfW[a] = NodeOfW[w]
                    THEN {} ELSE @[k]]]

ExpireResponse(c, p) ==
  [client  |-> invalidate_cache_for_worker(Without(c, {p}), p.worker),
   results |-> <<generate_bad_response(p.req)>>]
=============================================================================
