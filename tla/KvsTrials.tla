------------------------------ MODULE KvsTrials ------------------------------
(***************************************************************************)
(* The trials of the synchronous client library (include/kvs_client.hpp):  *)
(* what the client asks the routing node and the servers, how it numbers   *)
(* its requests, and what it makes of the answers.  Module KvsClient has   *)
(* the steps it does so in, and those it talks to.                         *)
(*                                                                         *)
(* A call is put, get, put_all or get_all with the retries it makes; the   *)
(* variants for the other lattice types differ in the payload only, which  *)
(* is the set of the PUT calls that it merges.                             *)
(***************************************************************************)
EXTENDS Placement, Sequences, FiniteSetsExt

CONSTANTS
  Call, KeyOf, Type, Many,  \* calls; their key; "put" or "get"; whether to all replicas
  trial_limit,
  RidWrap,    \* request numbers are taken modulo this
  Sorted      \* the threads of a set<Address>, in the order of their addresses

(* RidWrap is 10000 in the code: what the ids rest on is that it is even.  *)
ASSUME CallAssumption ==
  /\ KeyOf \in [Call -> Key]
  /\ Type \in [Call -> {"put", "get"}]
  /\ Many \in [Call -> BOOLEAN]
  /\ trial_limit \in Nat
  /\ RidWrap \in Nat \ {0} /\ RidWrap % 2 = 0
  /\ Sorted \in [SUBSET Thread -> Seq(Thread)]
  /\ \A ws \in SUBSET Thread :
       /\ {Sorted[ws][i] : i \in DOMAIN Sorted[ws]} = ws
       /\ \A i, j \in DOMAIN Sorted[ws] : Sorted[ws][i] = Sorted[ws][j] => i = j

NoCall == "none"
NewClient ==
  [at    |-> "idle",  \* or waiting for the routing node or for servers
   call  |-> NoCall,
   left  |-> 0,       \* trials left
   size  |-> 0,       \* address_cache_size of the request
   query |-> 0,       \* id of the request to the routing node
   rid   |-> 0,       \* id that try_request has taken
   ids   |-> {},      \* <<id, thread>>: requests not answered
   sent  |-> {},      \* the threads asked in this trial
   got   |-> <<>>,    \* answers
   first |-> <<>>,    \* the answer that try_request is going to return
   next  |-> 0,       \* rid_
   key_address_cache |-> [k \in Key |-> {}]]

(* The requests that the client sends.                                     *)
AddressRequest(rid, k) == [kind |-> "address_request", rid |-> rid, key |-> k]
DataRequest(rid, c, size, p) ==
  [kind |-> "request", rid |-> rid, call |-> c, size |-> size, to |-> p]

------------------------------------------------------------------------------
(* The client.  An operator on the client gives the client after it and    *)
(* the messages it sends.                                                  *)

get_request_id(c) ==
  LET n == IF (c.next + 1) % RidWrap = 0 THEN 0 ELSE c.next + 1
  IN [id |-> n, next |-> n + 1]

(* The request ids of try_multi_request, one for each worker.              *)
Numbered(c, ws) ==
  LET rid_[i \in 0 .. Len(Sorted[ws])] ==
        IF i = 0 THEN c.next
        ELSE get_request_id([c EXCEPT !.next = rid_[i - 1]]).next
  IN [next |-> rid_[Len(Sorted[ws])],
      ids  |-> {<<rid_[i] - 1, Sorted[ws][i]>> : i \in 1 .. Len(Sorted[ws])}]

(* The rest of a trial, once the addresses are in the cache.               *)
SendTo(c, ws) ==
  LET n == Numbered(c, ws)
      ids == IF Many[c.call] THEN n.ids ELSE {<<c.rid, w>> : w \in ws}
  IN [c |-> [c EXCEPT !.at = "servers", !.ids = ids, !.sent = ws, !.got = <<>>,
               !.next = IF Many[c.call] THEN n.next ELSE @],
      out |-> {DataRequest(i[1], c.call, c.size, i[2]) : i \in ids}]

Workers(c) ==
  LET all == c.key_address_cache[KeyOf[c.call]]
  IN IF Many[c.call] THEN {all} ELSE {{w} : w \in all}

query_routing(c) ==
  LET r == get_request_id(c)
  IN [c |-> [c EXCEPT !.at = "routing", !.query = r.id, !.next = r.next],
      out |-> {AddressRequest(r.id, KeyOf[c.call])}]

(* The start of try_request and try_multi_request: what a trial can do.    *)
Try(c) ==
  LET r == get_request_id(c)
      d == IF Many[c.call] THEN c ELSE [c EXCEPT !.rid = r.id, !.next = r.next]
  IN IF c.left = 0 THEN {[c |-> [c EXCEPT !.at = "return"], out |-> {}]}
     ELSE IF c.key_address_cache[KeyOf[c.call]] = {} THEN {query_routing(d)}
     ELSE {SendTo(d, ws) : ws \in Workers(d)}

(* A trial after this one.                                                 *)
Retry(c) == Try([c EXCEPT !.left = @ - 1, !.ids = {}, !.got = <<>>])

(* Without an answer: try_request returns bad_response_, and               *)
(* try_multi_request no responses.                                         *)
Bad == [status |-> "bad", answers |-> {}]

(* put and put_all return true for any answer, get an error for a key that *)
(* does not exist.                                                         *)
PutReturns(answers) == [status |-> "ok", answers |-> answers]
GetReturns(answers) ==
  IF \E m \in answers : m.error = 1 THEN [status |-> "missing", answers |-> {}]
  ELSE [status |-> "ok", answers |-> answers]

(* What the caller gets for the answers that try_request (which forgets    *)
(* those to its retries) or try_multi_request returns.                     *)
Outcome(c) ==
  LET answers == IF Many[c.call] \/ c.first = <<>> THEN {c.got[i] : i \in 1 .. Len(c.got)}
                 ELSE {c.first[1]}
  IN IF answers = {} THEN Bad
     ELSE IF Type[c.call] = "put" THEN PutReturns(answers) ELSE GetReturns(answers)

invalidate_cache_for_worker(cache, ws) ==
  [k \in Key |-> IF \E p \in cache[k], w \in ws : NodeOf(p) = NodeOf(w)
                 THEN {} ELSE cache[k]]

check_tuple(c, m) ==
  IF m.error = 2 \/ m.invalidate
  THEN [c EXCEPT !.key_address_cache[KeyOf[c.call]] = m.addresses] ELSE c

(* check_tuple on the answers in the order in which they came, up to the   *)
(* first one that is an error: the addresses are those of the last answer  *)
(* that has any to set.                                                    *)
CheckAll(c) ==
  LET bad  == {i \in DOMAIN c.got : c.got[i].error # 0}
      last == IF bad = {} THEN Len(c.got) ELSE Min(bad)
      sets == {i \in 1 .. last : c.got[i].error = 2 \/ c.got[i].invalidate}
      d    == IF sets = {} THEN c ELSE check_tuple(c, c.got[Max(sets)])
  IN IF bad = {} THEN {[c |-> [d EXCEPT !.at = "return"], out |-> {}]}
     ELSE Retry(IF Many[c.call] \/ c.first # <<>> THEN d
                ELSE [d EXCEPT !.first = <<c.got[last]>>])
==============================================================================
