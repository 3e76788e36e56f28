# A TLA+ model of Fluent

Fluent is a key-value store (Anna, `kvs/` and `include/`), a function runtime on
top of it (`functions/`) and the cluster management of both (`k8s/`). This
directory models both sides: what a storage server does with requests, gossip,
replication factors and membership changes, how keys are placed, how values are
merged and stored; the clients and the routing node between them and the servers;
the caches of the function nodes; and the scheduler, the executors and the
management server of the function runtime. TLC checks the models on small
instances; TLAPS proves the main safety properties of the storage server with its
membership protocol, the synchronous client, the hash ring, the serializers and
the function runtime for every instance.

## 1. The system and its parts

| part | source | state | operations that change it |
|---|---|---|---|
| storage server thread | `kvs/src/kvs/*.cpp` | stored values, `key_replication_map`, `local_changeset`, `pending_requests`, `pending_gossip`, `join_gossip_map`, `join_remove_set`, hash rings | one handler per socket of the event loop in `server.cpp`, the periodic gossip, the redistribution |
| key placement | `kvs/src/hash_ring/hash_ring.cpp` | none | `responsible_global`, `responsible_local`, `get_responsible_threads`, `issue_replication_factor_request` |
| hash ring | `include/hash_ring.hpp`, `consistent_hash_map.hpp` | virtual nodes, servers, join counts | `insert`, `remove`, the walk |
| lattices | `include/lattices/` | a value | `merge` of each type |
| serializers and stores | `include/kvs/server_utils.hpp`, `base_kv_store.hpp` | memory map or files | `get`, `put`, `remove` |
| monitoring node | `kvs/src/monitor/` | metadata of keys, rings, node counters | `change_replication_factor`, policies, removal of nodes |
| routing node | `kvs/src/route/` | rings, replication factor cache, pending lookups | membership, seed, address and replication handlers |
| clients | `include/kvs_client.hpp`, `kvs_async_client.hpp`, `kvs/client/` | address cache, pending maps | requests, retries, timeouts |
| function caches | `functions/cache/` | cached values, pending requests, causal cuts | handlers and KVS callbacks |
| scheduler, executors | `functions/scheduler/`, `functions/executor/` | DAGs, pins, queues, triggers | creation, scheduling, triggering of DAGs |
| management | `k8s/` | restart counts, executor pools | scaling, restart counts |

Storage threads talk to each other by gossip (values), by requests for the
replication factor of a key (to the threads that hold its metadata key), and by
join and depart messages. Clients ask the routing node for the threads of a key,
keep the answer and send requests to one of them. The monitoring
node writes replication factors to metadata keys and then tells the affected
nodes. The routing node gives a starting server its first view of the ring. On a
function node the executors reach the store through a cache, which answers from
what it holds, fetches the rest, and is told of changes by the servers. Schedulers
pin functions to executors, send the schedule of a DAG call to each of them, and
learn from their status reports; an executor triggers the next one.

What makes this hard to test: every thread acts on its own ring and its own
replication factors, which lag behind those of others; a request or gossip about
a key without a known factor waits for a lookup; values move while they are being
written; nodes join, leave, crash and come back with messages in flight. The
hazards are listed with their source lines in `PROJECT.json`.

## 2. Modules

    Placement <- KvsServer <- KvsElastic        HashRing      Lattices <- Serializers
       ^                                        (justifies     (justify the values
       |                                         Placement)     of KvsServer)
    KvsTrials <- KvsClient
                               AsyncClient <- AsyncCache ..> KvsAccess
                               CausalCache        FunctionRuntime

    KvsServer <- KvsServer_proofs <- KvsElastic_proofs <- KvsRings_proofs
    KvsClient <- KvsClient_proofs      HashRing <- HashRing_proofs
    Serializers <- Serializers_proofs
    FunctionRuntime <- FunctionRuntime_proofs <- FunctionPins_proofs

An arrow is EXTENDS; `..>` is a refinement.

**Placement** defines responsibility for a key. The ring is a set of nodes; the
walk along it is a rank of the nodes for each key. `HashRing` checks that the real
walk is of this form.

**HashRing** is the sorted map of virtual nodes with `insert`, `remove` and the
walk that collects distinct servers.

**KvsServer** has one action per handler:

| handler | actions |
|---|---|
| `user_request_handler` | `RequestPends`, `RequestServed`, and for metadata keys `MetaGetServed`, `MetaPutServed` |
| `gossip_handler` | `GossipPends`, `GossipMerged`, `MetaGossipReceived` |
| `replication_response_handler` | `RepResponseRetried`, `RepResponseApplied` |
| `replication_change_handler` | `ReplicationChange` |
| periodic gossip in `server.cpp` | `GossipTimer` |
| `change_replication_factor` of the monitoring node | `MonitorWrite`, `MonitorAnswered`, `MonitorTimeout` |
| a client | `ClientSend` |

Its variables carry the names of the code. `stored[p]` is the set of PUTs that are
merged into the values of thread p: merging is union, and a PUT is lost exactly
when it is in no such set. A replication factor is the number of the write that
produced it, 0 being the default, so that merging the metadata key is the maximum.
The network is a set: messages arrive in any order, and a repeated message is the
same message. A message with several tuples is several messages.

**KvsElastic** extends KvsServer by `Start`, `NodeJoin`, `NodeDepart`,
`SelfDeparts`, `Redistribute`, `Crash`, the membership handler of the routing node
and `MonitorRemove`. `MonitorRemove` does not look at replication factors: the
monitoring node may have tried to lower those that need all nodes of the tier, and
does not ask whether that succeeded. The join counts in `global_hash_rings` are those of
`HashRing::insert`.

**Lattices** and **Serializers** model the merge of each lattice type and the
memory and EBS serializers, with clients that write registers, sets and causal
values and servers that gossip what they store. A causal PUT increments the clock
it has read, as the executor does (`functions/executor/call.py`).

**KvsClient** composes the synchronous client (`include/kvs_client.hpp`), the
routing node (`kvs/src/route/`) and as much of the servers as the client can see:
which of them are responsible, what they store, whether they redirect or
invalidate. The client is a record with its place in a call (`at` is "idle",
"routing" or "servers"), the remaining trials, the request ids it waits for, and
the address cache. **KvsTrials** has the client's functions as operators from a
client record to the next one and the messages sent; KvsClient has the state and
the actions. `set<Address>` is walked in the order of its addresses, which is a
constant (`Sorted`); request ids are those of `get_request_id`, modulo `RidWrap`.

| code | actions |
|---|---|
| `put`, `get`, `put_all`, `get_all` up to their first receive | `Issue` |
| `query_routing` receives | `ReceiveAddress`, `TimeoutRouting` |
| `try_request`, `try_multi_request` receive | `ReceiveResponse`, `Discard`, `TimeoutServers` |
| `clear_cache` | `clear_cache` |
| handlers of the routing node | `address_handler`, `replication_response_handler`, `replication_change_handler`, `membership_handler` |
| servers | `ServeData`, `ServeFactor`; `Gossip` and `GiveUp`: a thread sends a key to a responsible one, and removes it when it is not responsible itself; `Join`, `Depart`, `Rescale` |

A request is served by a responsible thread, at once or after it has waited for
the replication factor (it then does not invalidate the client's addresses); a PUT
of another lattice type than the stored one is answered without an error and not
stored, as in `user_request_handler`.

**AsyncClient** gives the operations of `KvsAsyncClient` as operators from a
client state to the possible next ones: a single thread calls them. **AsyncCache**
composes it with the loop of `async_cache.cpp`, the executors' `IpcAnnaClient`,
and a store that answers, redirects, invalidates or loses. One action is one pass
of the loop in which one socket or timeout has something to do: `HandleGet`,
`HandlePut`, `HandleUpdate`, `HandleAddress`, `HandleResponse`, `AddressTimeout`,
`ResponseTimeout`, `Report`. Each ends with the eviction at the end of the loop.
The server's side of the cache registration is `cache_ip_response_handler` and
`Push`.

**KvsAccess** is the abstract specification of what an asynchronous access to the
store promises about PUTs: a PUT that the cache takes is either refused at once
or processed by the store and then acknowledged, never the other way round, never
twice, and in the end always. `ImplementsAccess` says
that AsyncCache implements it (`INSTANCE KvsAccess WITH asked <- Taken`): with
retries, lost and late answers, and expired requests the detailed steps map to the
abstract ones or to stuttering.

**CausalCache** is the causal cache of each function node: a version is a vector
clock and a dependency map; a clock is the set of the writes that it covers. The
actions are the handlers: `GetSingle` and `GetCross` (`get_request_handler`),
`put_request_handler`, `KvsGetResponse` and `KvsPutResponse`
(`kvs_response_handler`), `KvsUpdate`, `periodic_migration_handler`, the two
versioned key handlers, `VersionGC`. `recursive_dependency_check`,
`process_response` and `merge_into_causal_cut` keep the recursion of the code.

**FunctionRuntime** composes schedulers, executors and the management server.

| code | actions |
|---|---|
| `executor/server.py`, `pin.py`, `call.py` | `pin`, `unpin`, `exec_function`, `ReceiveSchedule`, `ReceiveTrigger`, `ReceiveDepart`, `Report` |
| `scheduler/create.py` | `create_dag`, `ReceivePinAccept`, `PinTimeout`, `delete_dag` |
| `scheduler/call.py` | `call_dag`, `call_function` |
| `scheduler/server.py` | `ReceiveStatus`, `ReportSchedule`, `ReceiveUpdate` |
| `k8s/management_server.py` | `ReceiveUtilization`, `replicate_function`, `dereplicate_function`, `check_executor_utilization`, `ReceiveDepartDone` |

An exception that the code does not catch ends the process (`Crash` of a
scheduler, `Exit` of an executor), with the messages sent before it;
`start-funcs.sh` starts it again. A function that is not in the store is one such case: the
executor that is asked to pin or to call it exits. The executor that a pin is tried
on is any of the candidates (the code iterates over a Python set).

`MC*.tla` give constants their values; one `.cfg` per instance.

### Where the model is coarser than the code

* Each thread handles one message per step. The event loop serves its sockets in a
  fixed order within a round; the model allows every order.
* `Start` takes the seed's answer and sends its joins in one step.
* A lookup needs a thread to ask. With an empty memory ring the code takes a
  remainder by zero; the model has no such step. In all instances a memory node
  remains.
* The monitoring node of the code handles one key at a time; the model lets keys
  proceed independently. Its callers pass a changed factor, so the broadcast of an
  unchanged one is not modelled. Which factor or node the policies choose is a
  nondeterministic choice.
* `MonitorRing` is the set of running nodes.
* Statistics reports and file system errors are left out.
* In KvsClient all servers learn of a join, a departure or a factor at once, and
  gossip arrives when it is sent; keys move between threads in separate steps. What
  a departed node has sent and has not arrived yet counts as stored by its thread.
  Departures and factors that would make a factor larger than a ring are left out
  (`AllFit`): such a server does not answer any more.
* In AsyncCache and CausalCache the store is one value per key, or the set of the
  versions written to it, of which a server answers any part.
* In CausalCache the asynchronous client is the set of the keys whose GET is not
  answered: AsyncCache shows that it asks until it is.
* In FunctionRuntime user functions and their arguments are opaque, and loads and
  thresholds are nondeterministic choices.
* The clients of `Serializers` have one-digit identifiers, write at most once per
  millisecond, and read their own last causal PUT before the next (`ReadsOwnPut`).

## 3. Runs

Every module states its type invariant (`TypeOK`, `ElasticTypeOK`, `CacheTypeOK`
and so on), which documents the shape of the state; the runs spend their properties
on what is less obvious. Every passing run explores its whole state space. Deadlock is not checked except
in `hash_ring`: with finitely many requests, restarts and factors a behaviour comes
to its end.

| run | instance | distinct states | checks |
|---|---|---|---|
| `kvs_gossip` | 3 memory nodes, factor 2, two PUTs (one without a response address) and a GET, each to any node | 5,215 | `TypeOK`; `GossipCovers`: an accepted PUT is at, on its way to, or still owed to every owner of its key; `RequestsAnswered` and `EventuallyReplicated` under fairness |
| `kvs_replication` | 2 nodes with 2 threads, metadata on both threads of its node, factor 1, then 2, then 1 again, a PUT, refusals and timeouts of the metadata write | 206,494 | `NoUpdateLost`, `StoredHasReplication`, `NothingStranded` (what waits for a replication factor has a lookup in flight) while factors change and lookups and changes overtake each other |
| `elastic_join` | 2 nodes and one that joins and takes over data and metadata; a PUT sent twice | 194,102 | `NoUpdateLost`, `NothingStranded`, `DropsOnlyForeign`, and `RingsConsistent`: once membership messages are delivered all rings are equal |
| `elastic_fit` | 2 nodes, one of which may be removed, factor 1, then 2 | (violation) | `RepFitsRing`: no thread has a factor that its ring is too small for |
| `elastic_rejoin` | 2 nodes, each may crash once and lose any of its messages, one may be removed; PUTs of two lattice types | 389,427 | `JoinCountsAgree`, `StoredHasReplication`, `OneTypePerKey` |
| `hash_ring` | 4 servers, 2 virtual nodes each, 12 hash values, 2 join counts | 256 | `WalkFollowsRank`: the abstraction of `Placement` |
| `serializers` | 2 replicas, 2 clients, 3 PUTs, all lattice types, memory and (not for registers) EBS | 677,639 | `LatestKept`, `ConcurrentKept`, `DependenciesCovered` |
| `kvs_client` | 2 memory nodes, one key; a node joins, one leaves, the factor grows, one message is lost or times out early; a `put_all` and a `get` in either order, two trials each | 63,494 | `AnswersAreStored`: a PUT that is returned as done is held by a thread; `PendingLookedUp`: a request that waits at the routing node has a lookup in flight until one is lost; `NoStragglers`: an answer is counted only for the request it answers; `AllAnswer`: a multi-replica call succeeds only with an answer from every server asked; `CallsReturn` |
| `async_cache` | 2 executors, a GET and two PUTs of different lattice types of one key, a foreign PUT; up to two of loss, early timeout and redirect, or one of executor timeout, report, no servers, invalidation | 149,358 | `OwnWritesKept`: no late answer or update undoes a PUT of the node; `ImplementsAccess` (refinement of KvsAccess); `CallsReturn` |
| `causal_cache` | 2 nodes, 3 keys, 4 stored writes with a chain of dependencies, a PUT that is concurrent with one of them and made where the second function reads; a DAG call that reads on both nodes, a single read of one key | 33,782 | `CutClosed`: the causal cut contains what its versions depend on; `ChainsComplete`: what is under construction lacks only what is being fetched, and who waits for it is noted; `DagReadsCausal`: no function gets a version older than what an earlier read of the call, or its own, depends on; `NoFault`: no lookup of a missing entry; `ReadsAnswered` |
| `functions` | 17 scenarios over 2 schedulers, 3 executors, 3 DAGs that share functions | 118,442 | `TriggeredByAll`: a DAG function runs at most once, after all its predecessors; `NoTriggerLost`; `LocationsPinned`; `CallsComplete`; `ExecutorsReturn` |

Three threads are enough for an owner, a second owner and a thread that owns only
the metadata; two PUTs for a conflict; two replication changes for a growth and a
shrink whose messages can overtake each other; two nodes for a crash seen from the
other side. `n1` comes first on the walk of the key and another node on that of
its metadata key, so that lookups cross the network. The batch size of the
redistribution (`Threshold`, 1000 in the code) is 1 or 2, to put several batches
within reach.

**Fairness.** `FairSpec` is weak fairness of each handler of each thread and of
the periodic gossip. The event loop polls without blocking, serves every socket
that has a message in every round and gossips when the period is over, so a
handler with a message is run. Clients and the monitoring node need not act. No
message is lost in runs that claim liveness; ZeroMQ over TCP between running
processes loses none. `ElasticFairSpec` is the same for the redistribution and the
join handler.

The newer modules state fairness once for all processes: `Busy` says that some
process has a message to receive or a timer to run out, and `FairSpec` that while
this stays so, steps that are neither faults nor new calls go on being taken. It
is weaker than fairness of each handler (one process may overtake another for
ever) and enough because the work of a call is finite. The loops justify it: they
poll every socket in every round. In `kvs_client` joins and the notices to the
routing node are fair in addition: otherwise a client that is told that there are
no servers would ask for ever.

**Faults** are bounded by a budget (`MaxFaults`, with `FaultCost` where one kind
multiplies the states) or by the scenario (FunctionRuntime). Two faults reach a
retry that fails again, with `trial_limit` 2 the end of the trials.

**Scenarios.** An initial state of FunctionRuntime picks a set of events: what
clients, timers and faults will do, each once, in any order and at any time. Each
scenario is one of the situations in which the processes depend on each other
(a late pin, DAGs that share a function, a function that is missing, a departure
with a call under way, two schedulers), and the run covers all of them. A scenario
also says which executors have reported to the management server before
(`reported`).

### Where the code does not do what it says

Run `functions_depart` states what a comment of the executor says and TLC finds a
behaviour against it (`DepartReported`): an executor with a pinned function
deletes entries of `queue` in a loop over `queue`, which raises an exception, so
it ends without telling the management server that it has departed.

Run `elastic_fit` states what `responsible_global` assumes (`hash_ring.cpp:66`),
that no replication factor is larger than the number of nodes in a tier
(`RepFitsRing`). `slo_policy` lowers the factors of the keys that it has a report
of, ignores whether that succeeded, and tells a node to leave before the servers
have the new factor; `storage_policy` removes a node without lowering any. The
loop that looks for more servers than there are does not end.

The following instances are kept with the models; each states one property that
the code or a comment suggests, and TLC refutes it (`tlc -config X.cfg M`).

* `MCSerializers_ebs.cfg` (`LastPutRead`): `EBSLWWSerializer::put` truncates the
  file before it compares timestamps (`server_utils.hpp:236`), so a late older PUT
  leaves the key empty.
* `MCKvsElastic_batch.cfg` (`Redistributed`): the redistribution erases what it
  sent from a copy of the set (`server.cpp:667`, "remove the keys we just dealt
  with"); more keys than the batch size are sent again forever.
* `MCKvsElastic_twojoins.cfg` (`RemovesTracked`): `join_remove_set` is never
  emptied (`server.cpp:698`), so a second redistribution removes keys that are not
  stored any more.
* `MCKvsElastic_handover.cfg` (`HandedOver`): a departing node sends its keys to
  threads that may not know of its departure and send them back to it
  (`self_depart_handler.cpp:76`, "no need to exclude it explicitly").
* `MCKvsServer_tier.cfg` (`PendingGossipForwarded`): gossip that waits at a tier
  the key has left is dropped (`replication_response_handler.cpp:213`, "forward
  the gossip").
* `MCKvsElastic_cross.cfg` (`RingsConsistent`): a forwarded join that arrives after
  the departure of the node puts it back into a ring.
* `MCKvsElastic_threads.cfg` (`RingsConsistent`): the threads of a starting node ask
  the seed on their own, and a worker that asks before another node joins is never
  told of that node.
* `MCAsyncCache_iterator.cfg` (`HitsHaveIterators`): once the cache evicts, a key is
  in the cache without an iterator into the access order, and a hit erases a
  default iterator (`async_cache.cpp:194`).
* `MCAsyncCache_evict.cfg` (`AbsentMeansAbsent`): with eviction a reader is told
  that a key does not exist which the store has returned (`async_cache.cpp:95`).
* `MCKvsClient_all.cfg` (`AllReplicasWritten`): `put_all` succeeds with the servers
  in the client's cache (`kvs_client.hpp:163`), which may be fewer than the
  replicas.
* `MCKvsClient_types.cfg` (`PutsAreStored`): a PUT of another lattice type is
  answered without an error and not stored (`user_request_handler.cpp:90`).
* `MCCausalCache_concurrent.cfg` (`DagReadsCut`): a function reads a local version
  that is concurrent with what an earlier read depends on, so that the reads of a
  call are not one causal cut (`causal_cache_utils.cpp`, `find_address`).
* `MCCausalCache_single.cfg` (`NoFault`): a read of several keys in the single mode,
  one of which was reported missing before, dereferences a missing entry
  (`causal_cache_utils.cpp:394`).

`MCKvsClient_ebs.cfg` is the instance of `kvs_client` with an EBS node, to which the
key may move; TLC finds no error in it, and takes longer than for the other runs.

Others were met while modelling and bound what the passing runs claim; they are
notes of the hazards in `PROJECT.json`: a lookup that overtakes a replication
change hides it, and the new replica is not populated; gossip pending during a
rejoin is not sent to the node that came back, and nothing claims that it is
refilled; equal clocks on different values
replace each other; colliding virtual nodes are lost from the ring. In the client:
`try_request` drops the result of a retry after a redirect; an answer of the wrong
lattice type is a success. In the caches: the answers to executors carry no id, so
that a late one is taken for the next; a local PUT of a key that a single read
waits for leaves the reader unanswered; versions kept for a call are keyed by the
client's id, so that the end of one call drops those of another. In the runtime:
answers to pins carry no id; deleting a DAG that shares a function with another
breaks the other; locations at executors that have left come back by gossip, and
a call that is scheduled there waits for ever. `LocationsPinned` does not see the
last two: a departing executor keeps its pins until it exits, and the property
leaves out executors that have exited.

What the passing runs leave out: `elastic_join` has one join and no departure (the
instances above show why), the proofs go further; `hash_ring` has no colliding
hashes; `serializers` has clients that read their own last PUT.

## 4. Proofs

The theorems on the storage server hold for every set of nodes, threads, tiers,
keys and requests, every rank and every sequence of replication factors that
satisfy the assumptions of `Placement` and `KvsServer` (finite sets of nodes and
threads, injective ranks, factors that are natural numbers). Those of
`KvsServer_proofs` are about `KvsServer!Spec`, with a fixed set of running nodes;
those of `KvsElastic_proofs` and `KvsRings_proofs` are about
`KvsElastic!ElasticSpec`, with nodes that join, leave, crash and restart. Those on
the client are about
`KvsClient!Spec`, in which nodes join and leave, and assume of the constants what
`CallAssumption` says. Those on the ring hold for every set of servers and every
hash function, those on the serializers for every number of replicas, clients and
PUTs. Those on the function runtime are about `FunctionRuntime!Spec`, for every
set of DAGs, executors, schedulers and scenarios that satisfies `DagAssumption`
(finitely many functions, DAGs over known functions, each call made once).

| theorem | module | property |
|---|---|---|
| `TypeCorrect` | `KvsServer_proofs` | `[]TypeOK` |
| `StoredReplicationKnown` | `KvsServer_proofs` | `[]StoredHasReplication`: a thread that stores a key knows its replication factor, so the branches the code logs as impossible are |
| `OnlyForeignDropped` | `KvsServer_proofs` | `DropsOnlyForeign`: a thread drops a key only when a replication change makes others responsible for it |
| `LookupsPending` | `KvsServer_proofs` | `[]NothingStranded` |
| `TypesKept` | `KvsServer_proofs` | `[]OneTypePerKey` |
| `NoAcceptedPutLost` | `KvsServer_proofs` | `[]NoUpdateLost`, assuming `UniformTypes` and `HeldInEveryTier` |
| `GossipComplete` | `KvsServer_proofs` | `[]GossipCovers`, assuming `UniformTypes` and `FixedFactors` |
| `ElasticTypes` | `KvsElastic_proofs` | `[]ElasticTypeOK` |
| `ElasticReplicationKnown` | `KvsElastic_proofs` | `[]StoredHasReplication`, whatever joins, leaves, crashes and restarts |
| `ElasticTypesKept` | `KvsElastic_proofs` | `[]OneTypePerKey` |
| `ElasticLookupsPending` | `KvsElastic_proofs` | `[]NothingStranded`, assuming `NoCrashes` |
| `MainsFindEachOther` | `KvsRings_proofs` | `[]MainsAgree`: when no membership message is in flight the main threads and the routing node know exactly the running nodes with their restart counts; assuming `NothingLeaves` |
| `RestartsNoticed` | `KvsRings_proofs` | `[]JoinCountsAgree`, assuming `NothingLeaves` and `SingleThread` |
| `RingsConverge` | `KvsRings_proofs` | `[]RingsConsistent`, under the same assumptions |
| `LeaversForgotten` | `KvsRings_proofs` | `[]RingsConsistent`, assuming `NothingStarts` (none joins and none crashes) |
| `ClientInvariant` | `KvsClient_proofs` | `[]ClientInv`, the invariant of the client |
| `ClientTypes` | `KvsClient_proofs` | `[]ClientTypeOK`: among others, the ids in use are distinct and odd |
| `PutsStored` | `KvsClient_proofs` | `[]AnswersAreStored`: a PUT that is returned as done is held by a thread, unless PUTs of two lattice types were made for the key |
| `StragglersDiscarded` | `KvsClient_proofs` | `NoStragglers`: a call returns answers to its own requests only |
| `EveryoneAnswers` | `KvsClient_proofs` | `AllAnswer` |
| `LookupsUnderWay` | `KvsClient_proofs` | `[]PendingLookedUp` |
| `WalkIsRank` | `HashRing_proofs` | `[]WalkFollowsRank`, assuming `NoCollision` |
| `StoresRepresent` | `Serializers_proofs` | `[]Inv`, the invariant of the stores |
| `LatestRegister` | `Serializers_proofs` | `[]LatestKept`, assuming `RegistersInMemory` and `SameWidth` |
| `ConcurrentWrites` | `Serializers_proofs` | `[]ConcurrentKept`, assuming `ReadsOwnPut` |
| `DependenciesMerged` | `Serializers_proofs` | `[]DependenciesCovered` |
| `EveryCallTriggered` | `FunctionRuntime_proofs` | `[]TriggeredByAll`: a call runs a function at most once, after all its predecessors |
| `TriggersKept` | `FunctionRuntime_proofs` | `[]NoTriggerLost` |
| `LocationsKept` | `FunctionPins_proofs` | `[]LocationsPinned` |
| `RuntimeTypes` | `FunctionPins_proofs` | `[]RuntimeTypeOK`: among others, an executor holds at most one function, and the count of departing executors is never negative |

The inductive invariants:

* `TypeOK` is inductive. It has one lemma per action, over the lemmas
  `MessagesMade` and `MessageFields` on messages.
* `StoredHasReplication` and `NothingStranded` need `GossipAbout` (gossip about a
  key carries PUTs of that key only): a handler looks up the factor of the key in
  the message and merges the values in it. `NothingStranded` is kept because a
  handler that leaves something waiting also sends a lookup, and one that consumes
  a lookup's answer either takes everything that waited for the key or asks again.
* `NoUpdateLost` also needs `StoredHasReplication` (a replication change drops a
  value only after it looked up to whom to send it) and `RingsFixed` (receivers
  are running). The argument follows one PUT: `HeldIsKept` shows that a step which
  takes it from a thread leaves it with a thread or in gossip to a running one.
  That there is a receiver is `WalkFindsFirst`: a walk that is to find at least one
  member of a non-empty finite set finds one.
* `GossipCovers` follows one PUT and one owner of its key. What the owner stores,
  holds back or is being sent stays with it (`OwnerKeeps`): by its own ring it is
  responsible in its own tier, so that pending gossip is merged and not forwarded.
  Otherwise a thread that stores the PUT has the key in its changeset until its
  periodic gossip sends the PUT to the owner (`ChangesGossiped`); that it can
  compute the owner is `StoredHasReplication` again. `Steady` says that no message
  about a changed factor exists.
* `OneTypePerKey` needs `GossipAbout` too. `MergesOneType` shows it for one call of
  `Merges`, and a replication response makes two in a row, for the requests and for
  the gossip that waited.
* The theorems of `KvsElastic_proofs` use the step lemmas of `KvsServer_proofs`
  for the steps of the servers, and one lemma for all others: a membership step
  changes no stored value except by removing it, and no known factor
  (`StoresShrink`).
* `JoinInv` is about two nodes that run: one of them has told the other, or one is
  still to be announced by the seed, which tells every node it knows
  (`PairsMeet`). It needs that nothing knows a restart count which the node has not
  announced (`CountsKnown`) and that the seed is told of every node (`SeedTold`).
  `LeaveInv` says that a thread has forgotten a node that has left, or the departure
  is on its way to it, or to its main thread, which passes it on (`RingsFollow`).
* `ClientInv` ties three things together. The client: the ids of the trial under
  way are distinct, and a message with one of them is of this call and of the
  thread that was asked (`Trial`), while no message has an id that is still to be
  given out (`Numbers`). This holds although late messages of earlier trials and
  calls stay in the network: `get_request_id` increments twice, so with an even
  `RidWrap` (10000 in the code) the number it tests is always odd and the reset
  never happens. The servers: what a thread stores for a key are PUTs of that key
  that have been made (`Servers`). The answers: a PUT that was answered without
  error is held by a thread, or PUTs of two types were made (`Stored`); this is
  kept when the key is given up, because those that take it over have merged it. The
  results consist of such answers. The first half of the module shows what each
  client function keeps of this; `Numbered`, the loop that numbers the requests of a
  multi-replica call, is handled by induction on the number of requests.
* `RingInv`: the virtual nodes in the map are those of the servers that are in the
  ring. The rest is about the walk alone: it stops at the first hash value from
  which on it has met enough servers, and these are the nearest ones.
* `Inv` of the serializers: the content of every store, and every payload in flight,
  `Represents` the PUTs that went into it: it is their maximum (`LwwOf`), their
  union, or some of their values, those that no other has seen among them, with a
  clock that is the join of all clocks (`CausalOf`). Of the PUTs themselves,
  `Stamped` says that the timestamp is that of `generate_timestamp`, `Clocked` that
  no clock is ahead of a client's own PUTs, and `Causal` that a clock that has
  reached the writer's entry of a PUT knows of the PUT. One lemma per merge shows that the
  merge of two representations represents the union.
* `RuntimeInv` (`FunctionRuntime_proofs`) is the invariant of the function runtime.
  `CalledOnce`: a call that is not made yet has left no trace. `ScheduledOnce`: the
  schedule of a function is one message or one entry of a queue, and is used up
  when the function runs, so that it runs once. `TriggersSent`: a trigger, under way
  or noted, comes from a predecessor that has run. The executor only counts
  triggers; as the sources it has are among the predecessors, a full count means
  all of them (`AllTriggered`). Most actions are `Quiet`: they add no schedule or
  trigger and lose them only with an executor that exits; `QuietKeeps` handles
  these at once, and `ScheduleNoted`, `TriggerNoted`, `FunctionRun` and `DagCalled`
  the others.
* `PinInv` (`FunctionPins_proofs`): a scheduler has no pin under way, or one request
  for the function it wants to the executor it waits for, or the answer to it
  (`Handshake`), and what schedulers and their updates locate is pinned (`Located`).
  Both are claimed only as long as no answer comes after its timeout ("late"): an
  answer carries no id. `DepartInv` counts the executors that are still to depart.

The hypotheses, and what happens without them:

* `UniformTypes`: the PUTs of a key agree on a lattice type. `process_put` is
  skipped for a value of another type.
* `HeldInEveryTier`: no factor is 0 in a tier that has nodes.
  The shipped configuration has no EBS nodes and EBS factor 0, so the theorem then
  speaks of a cluster with the memory tier only. The instance
  `MCKvsServer_tier.cfg` shows what happens without the hypothesis.
* `FixedFactors`: the monitoring node changes no factor, as in run `kvs_gossip`. A
  lookup that overtakes a replication change hides it, and the new replica is not
  populated (see above).
* `NothingLeaves`, `SingleThread`, `NothingStarts`: see `MCKvsElastic_cross.cfg` and
  `MCKvsElastic_threads.cfg`. `NoCrashes`: a crash may take a lookup with it.
* `NoCollision`: no two servers have a virtual node with the same hash. `insert`
  keeps the one that is there, and `remove` takes it away for both.
* `RegistersInMemory`: registers are not on disk; see `MCSerializers_ebs.cfg`.
  `SameWidth`: the ids of the writers have equally many digits.
  `generate_timestamp` writes the id behind the time, so that a wider id is a later
  time.
* `ReadsOwnPut`: a client reads its last causal PUT before the next; otherwise it
  writes two values with one clock.

Where a definition recurses, the argument is by the least counterexample: the
natural numbers are well founded (`NatLessThanWellFounded`, `WFMin`).

**Only model-checked**: liveness, which needs reasoning on fairness and `ENABLED`
that the proof system does not offer; the refinement of `KvsAccess`, which is
stated with its fairness; `NoUpdateLost` and `DropsOnlyForeign` under membership
changes; everything about `AsyncCache` (folds over sets of requests) and
`CausalCache` (recursive operators, as the code recurses).

## 5. Not modelled

* The policies of the monitoring node (`slo_policy.cpp`, `storage_policy.cpp`,
  `movement_policy.cpp`) and the statistics they are fed with
  (`stats_helpers.cpp`): averages in floating point compared with thresholds. What
  they decide, a new factor or a node to add or remove, is a nondeterministic
  choice within the guards of the code.
* The first function cache (`cache.cpp`): sequential code around the synchronous
  client, superseded by `async_cache.cpp`.
* The Python client (`client.py`): the protocol of the C++ client without
  timeouts; a lost answer blocks it.
* The list of caches that a storage server keeps (`extant_caches`), and the report
  of cached keys by the causal cache.
* The management server's additions of nodes and its statistics, the cluster
  scripts, the benchmarks, the command line interface: calls to Kubernetes, load
  generators and text I/O.
* File system errors, running out of memory, and failures of the routing and the
  monitoring node other than those named above.
