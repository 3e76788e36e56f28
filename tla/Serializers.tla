----------------------------- MODULE Serializers -----------------------------
(***************************************************************************)
(* One key on several server threads, as the serializers store it          *)
(* (kvs/include/kvs/server_utils.hpp): in memory, or in a file of an EBS   *)
(* volume.  Clients PUT values and threads gossip what they store, in any  *)
(* order; KvsServer takes from here that a stored value stands for the set *)
(* of the PUTs that went into it.                                          *)
(*                                                                         *)
(* absorbed, past and the field "of" of a message are history: which PUTs  *)
(* went into a store or a payload, and which PUTs the writer of a PUT had  *)
(* seen or written before.                                                 *)
(***************************************************************************)
EXTENDS Lattices, FiniteSets

CONSTANTS
  Replica,     \* threads responsible for the key
  Disk,        \* Disk[t]: the ones on the EBS tier when the type is t
  Client,      \* clients of the causal types; thread ids of the LWW type
  Types,       \* lattice types
  DepKey,      \* another key, on which a causal PUT may depend
  MaxPuts,     \* bound on the number of PUTs
  MaxTime,     \* bound on the time of an LWW PUT
  ReadsOwnPut  \* a client that PUTs the key has read its own last PUT

ASSUME SerializersAssumption ==
  /\ Disk \in [Types -> SUBSET Replica]
  /\ Client \subseteq 0 .. 99
  /\ Types \subseteq {"LWW", "SET", "CAUSAL"}
  /\ MaxPuts \in Nat
  /\ MaxTime \in Nat
  /\ ReadsOwnPut \in BOOLEAN

VARIABLES
  type,      \* the lattice type of the key
  store,     \* the element each replica stores
  msgs,      \* payloads in flight
  puts,      \* the PUTs so far, numbered
  absorbed,  \* the PUTs that went into each store
  past       \* the PUTs each PUT knew of

vars == <<type, store, msgs, puts, absorbed, past>>

Put == DOMAIN puts
NextPut == Cardinality(Put) + 1
PutsOf(c) == {u \in Put : puts[u].by = c}

------------------------------------------------------------------------------
(* Serializer::get: whether it leaves the error number 0.                  *)
Found(e) ==
  CASE type = "LWW" -> e.value # NoValue
    [] type = "SET" -> e # {}
    [] type = "CAUSAL" -> e.value # {}

(* Serializer::put.  The EBS serializers read the file, merge and write it *)
(* back; EBSLWWSerializer opens it for writing, which truncates it, before *)
(* it compares the timestamps.                                             *)
ebs_lww_put(e, p) == IF p.timestamp >= e.timestamp THEN p ELSE Default("LWW")
ebs_set_put(e, p) == set_merge(e, p)
ebs_causal_put(e, p) == causal_merge(e, p)

ebs_put(e, p) ==
  CASE type = "LWW" -> ebs_lww_put(e, p)
    [] type = "SET" -> ebs_set_put(e, p)
    [] type = "CAUSAL" -> ebs_causal_put(e, p)

memory_put(e, p) == merge(type, e, p)

put(r, p) == IF r \in Disk[type] THEN ebs_put(store[r], p) ELSE memory_put(store[r], p)

(* generate_timestamp: the id is written behind the time, in decimal.      *)
generate_timestamp(time, id) ==
  LET pow == IF id < 10 THEN 10 ELSE 100 IN time * pow + id

PutTo(r, payload) ==
  msgs' = msgs \cup {[to |-> r, from |-> 0, payload |-> payload, of |-> {NextPut}]}

(* A client that knows of the PUTs in seen sends the next one to r.        *)
Record(c, time, payload, seen) ==
  /\ puts' = [u \in Put \cup {NextPut} |->
                IF u = NextPut THEN [by |-> c, time |-> time, payload |-> payload]
                ELSE puts[u]]
  /\ past' = [u \in Put \cup {NextPut} |->
                IF u = NextPut THEN seen \cup UNION {past[v] : v \in seen}
                ELSE past[u]]

(* An LWW PUT.  A thread writes a key at most once in a millisecond.       *)
PutLWW(c, r, time) ==
  LET payload == [timestamp |-> generate_timestamp(time, c), value |-> NextPut] IN
  /\ type = "LWW"
  /\ NextPut <= MaxPuts
  /\ \A u \in PutsOf(c) : puts[u].time < time
  /\ Record(c, time, payload, PutsOf(c))
  /\ PutTo(r, payload)
  /\ UNCHANGED <<type, store, absorbed>>

PutSet(c, r) ==
  /\ type = "SET"
  /\ NextPut <= MaxPuts
  /\ Record(c, 0, {NextPut}, PutsOf(c))
  /\ PutTo(r, {NextPut})
  /\ UNCHANGED <<type, store, absorbed>>

(* The last function of a DAG PUTs its result: the client's entry in the   *)
(* clock that the DAG read for the key, or in an empty one, is incremented *)
(* (exec_dag_function_causal).  The key is read at a replica, or not read. *)
Increment(clock, c) ==
  clock_merge(clock, [x \in {c} |-> IF c \in DOMAIN clock THEN clock[c] + 1 ELSE 1])

PutCausal(c, r, clock, read, dependency) ==
  LET payload == [vector_clock |-> Increment(clock, c), dependency |-> dependency,
                  value |-> {NextPut}] IN
  /\ type = "CAUSAL"
  /\ NextPut <= MaxPuts
  /\ ReadsOwnPut => PutsOf(c) \subseteq read
  /\ Record(c, 0, payload, read \cup PutsOf(c))
  /\ PutTo(r, payload)
  /\ UNCHANGED <<type, store, absorbed>>

(* What a causal PUT of c may depend on: nothing, or a version of DepKey.  *)
Dependencies(c) == {EmptyMap, [k \in {DepKey} |-> [x \in {c} |-> 1]]}

(* send_gossip; at most one message is on its way between two replicas.    *)
SendGossip(r, s) ==
  /\ r # s
  /\ Found(store[r])
  /\ ~ \E m \in msgs : m.from = r /\ m.to = s
  /\ msgs' = msgs \cup
       {[to |-> s, from |-> r, payload |-> store[r], of |-> absorbed[r]]}
  /\ UNCHANGED <<type, store, puts, absorbed, past>>

(* process_put, for a PUT of a client and for gossip.                      *)
ProcessPut(m) ==
  /\ store' = [store EXCEPT ![m.to] = put(m.to, m.payload)]
  /\ absorbed' = [absorbed EXCEPT ![m.to] = @ \cup m.of]
  /\ msgs' = msgs \ {m}
  /\ UNCHANGED <<type, puts, past>>

(* Serializer::remove, when the replica is responsible no longer.          *)
RemoveKey(r) ==
  /\ Found(store[r])
  /\ store' = [store EXCEPT ![r] = Default(type)]
  /\ absorbed' = [absorbed EXCEPT ![r] = {}]
  /\ UNCHANGED <<type, msgs, puts, past>>

Init ==
  /\ type \in Types
  /\ store = [r \in Replica |-> Default(type)]
  /\ msgs = {}
  /\ puts = EmptyMap
  /\ absorbed = [r \in Replica |-> {}]
  /\ past = EmptyMap

Next ==
  \/ \E c \in Client, r \in Replica :
       \/ \E time \in 1 .. MaxTime : PutLWW(c, r, time)
       \/ PutSet(c, r)
       \/ \E dependency \in Dependencies(c) :
            \/ PutCausal(c, r, EmptyMap, {}, dependency)
            \/ \E s \in Replica :
                 /\ type = "CAUSAL" /\ Found(store[s])
                 /\ PutCausal(c, r, store[s].vector_clock, absorbed[s], dependency)
  \/ \E r, s \in Replica : SendGossip(r, s)
  \/ \E m \in msgs : ProcessPut(m)
  \/ \E r \in Replica : RemoveKey(r)

Spec == Init /\ [][Next]_vars

------------------------------------------------------------------------------
Clock == UNION {[S -> 1 .. MaxPuts] : S \in SUBSET Client}
Dependency == UNION {[S -> Clock] : S \in SUBSET {DepKey}}
Element ==
  CASE type = "LWW" -> [timestamp : 0 .. 100 * (MaxTime + 1), value : 0 .. MaxPuts]
    [] type = "SET" -> SUBSET (1 .. MaxPuts)
    [] type = "CAUSAL" -> [vector_clock : Clock, dependency : Dependency,
                           value : SUBSET (1 .. MaxPuts)]

(* Stores and payloads are elements of the key's lattice type, and the     *)
(* error number of Serializer::get says whether a PUT went into a store.   *)
TypeOK ==
  /\ store \in [Replica -> Element]
  /\ \A m \in msgs : m.to \in Replica /\ m.payload \in Element /\ m.of \subseteq Put
  /\ absorbed \in [Replica -> SUBSET Put]
  /\ \A r \in Replica : Found(store[r]) <=> absorbed[r] # {}

Later(u, v) ==
  \/ puts[u].time > puts[v].time
  \/ puts[u].time = puts[v].time /\ puts[u].by > puts[v].by

(* Whatever the order in which PUTs and gossip arrive, a replica stores    *)
(* the last of the LWW PUTs that reached it (LWWPairLattice::do_merge).    *)
LatestKept ==
  type = "LWW" => \A r \in Replica : absorbed[r] # {} =>
    /\ store[r].value \in absorbed[r]
    /\ ~ \E u \in absorbed[r] : Later(u, store[r].value)

(* PUTs in S that no other PUT in S knew of.                               *)
Maximal(S) == {u \in S : ~ \E v \in S : u \in past[v]}

(* A replica stores every PUT that reached it and that no other such PUT   *)
(* had seen, so that concurrent causal writes and all members of a set     *)
(* survive, and it stores nothing that was not PUT (CausalPairLattice and  *)
(* SetLattice do_merge).                                                   *)
ConcurrentKept ==
  \A r \in Replica :
    /\ type = "SET" => store[r] = absorbed[r]
    /\ type = "CAUSAL" => /\ Maximal(absorbed[r]) \subseteq store[r].value
                          /\ store[r].value \subseteq absorbed[r]

(* The dependencies stored with a causal value cover those of every PUT    *)
(* whose value is still there (CrossCausalLattice::do_merge): a cache that *)
(* fetches the dependencies gets a causal cut.                             *)
DependenciesCovered ==
  type = "CAUSAL" => \A r \in Replica : \A u \in store[r].value :
    dependency_merge(store[r].dependency, puts[u].payload.dependency)
      = store[r].dependency

(* "PUT a 10 / GET a" after "PUT a 1" gives 10 (kvs/tests/simple/input and *)
(* expected): once the last PUT has reached a replica, a GET there finds   *)
(* it.                                                                     *)
LastPutRead ==
  type = "LWW" => \A r \in Replica : \A u \in absorbed[r] :
    (~ \E v \in Put : Later(v, u)) => store[r].value = u
==============================================================================
