----------------------------- MODULE CausalCache -----------------------------
(***************************************************************************)
(* The causal caches of the function nodes (functions/cache/src/           *)
(* causal_cache*.cpp).  Each keeps the versions it has seen in             *)
(* unmerged_store and builds from them a causal cut: a version enters      *)
(* causal_cut_store only with all that it depends on.  Functions of one    *)
(* dag run on several nodes and read through their caches, which fetch     *)
(* from each other the versions that earlier functions of the dag have     *)
(* read.                                                                   *)
(*                                                                         *)
(* A vector clock is the set of the writes that it covers, so that clocks  *)
(* are compared by inclusion and merged by union; a version is a clock and *)
(* the clocks it depends on.  The empty version stands for a missing entry *)
(* and for a key that does not exist: the code keeps such an entry only    *)
(* within a call.  The asynchronous client is reduced to the keys whose    *)
(* GET it has not answered (it repeats a GET until it is, see AsyncClient) *)
(* and the PUTs not acknowledged; a server answers a GET with the merge of *)
(* any of the versions written.  Every request has a response address of   *)
(* its own and is named by it.                                             *)
(***************************************************************************)
EXTENDS Integers, SequencesExt

CONSTANTS
  Node,     \* function nodes, each with a cache
  Key,
  Write,    \* the writes of the functions
  KeyOf, Clock, Dep,  \* the key of a write, its clock, its dependencies
  Stored,   \* the writes in the key-value store at first
  Put,      \* the writes that the functions of these nodes make
  PutAt,    \* on which node
  Read,     \* the GET requests of the functions
  Dag, Id, At, Kind, Keys,  \* the dag call that a read is part of, client id,
            \* node, SINGLE or CROSS, keys read,
  Future,   \* the keys that functions after this one will read,
  After     \* and the reads of earlier functions of the same call

Nothing == [vc |-> {}, dep |-> [k \in Key |-> {}]]
VersionOf(w) == [vc |-> Clock[w], dep |-> Dep[w]]

VARIABLES
  cache,    \* the local variables of the loop of each node's cache
  kvs,      \* the versions written to each key of the store
  msgs,     \* versioned key requests and responses between the caches
  answers,  \* the answer to each read
  todo,     \* the reads and PUTs not made yet
  kept      \* <<node, dag call>>: the versions kept for the call are not dropped yet

vars == <<cache, kvs, msgs, answers, todo, kept>>

NewCache ==
  [key_set          |-> {},
   unmerged_store   |-> [k \in Key |-> Nothing],
   causal_cut_store |-> [k \in Key |-> Nothing],
   in_preparation   |-> [k \in Key |-> [first |-> {}, second |-> [d \in Key |-> Nothing]]],
   to_fetch_map     |-> [k \in Key |-> {}],
   heads            |-> {},   \* the keys that to_fetch_map has an entry for
   cover_map        |-> {},   \* <<key, clock, head key>>
   version_store    |-> [i \in {Id[r] : r \in Read} |-> [k \in Key |-> Nothing]],
   single           |-> {},   \* pending_single_metadata
   cross            |-> {},   \* pending_cross_metadata
   gets             |-> {},
   puts             |-> {},
   fault            |-> FALSE, \* the process has died of an exception
   out              |-> {},    \* messages and answers of the present handler
   sent             |-> {}]

------------------------------------------------------------------------------
(* causal_comparison and vector_clock_comparison: kCausalGreaterOrEqual    *)
(* and kCausalLess.                                                        *)
GreaterOrEqual(c, d) == d \subseteq c
Less(c, d) == c \subseteq d /\ c # d

causal_merge(v, w) ==
  IF GreaterOrEqual(v.vc, w.vc) THEN v
  ELSE IF GreaterOrEqual(w.vc, v.vc) THEN w
  ELSE [vc |-> v.vc \cup w.vc, dep |-> [k \in Key |-> v.dep[k] \cup w.dep[k]]]

(* How unmerged_store takes a version.                                     *)
MergeInto(store, k, v) == [store EXCEPT ![k] = causal_merge(@, v)]

MergeAll(vs) == FoldSet(causal_merge, Nothing, vs)

(* An entry of in_preparation for key k whose clock covers c, or Nothing.  *)
find_lattice_from_in_preparation(s, k, c) ==
  LET found == {h \in Key : /\ s.in_preparation[h].second[k] # Nothing
                            /\ GreaterOrEqual(s.in_preparation[h].second[k].vc, c)}
  IN IF found = {} THEN Nothing
     ELSE s.in_preparation[CHOOSE h \in found : TRUE].second[k]

get_async(s, k) == [s EXCEPT !.gets = @ \cup {k}]

(* Every dependency of version v is in the cut, or in preparation under    *)
(* the key head, or will be fetched.                                       *)
RECURSIVE recursive_dependency_check(_, _, _)

(* populate_in_preparation, and the recursion if it returns true.          *)
Prepare(s, head, d, v) ==
  LET old == s.in_preparation[head].second[d]
  IN IF old # Nothing /\ GreaterOrEqual(old.vc, v.vc) THEN s
     ELSE recursive_dependency_check(
            [s EXCEPT !.in_preparation[head].second[d] = causal_merge(@, v)], head, v)

(* Mutant of Cover: what is fetched is not filed in cover_map.             *)
CoverUnfiled(s, head, d, c) ==
  IF GreaterOrEqual(s.causal_cut_store[d].vc, c) THEN s
  ELSE IF GreaterOrEqual(s.unmerged_store[d].vc, c)
  THEN Prepare(s, head, d, s.unmerged_store[d])
  ELSE get_async([s EXCEPT !.to_fetch_map[head] = @ \cup {d},
                           !.heads = @ \cup {head}], d)

Cover(s, head, d, c) ==
  LET target == find_lattice_from_in_preparation(s, d, c)
  IN IF GreaterOrEqual(s.causal_cut_store[d].vc, c) THEN s
     ELSE IF target # Nothing THEN Prepare(s, head, d, target)
     ELSE IF GreaterOrEqual(s.unmerged_store[d].vc, c)
     THEN Prepare(s, head, d, s.unmerged_store[d])
     ELSE get_async([s EXCEPT !.to_fetch_map[head] = @ \cup {d},
                              !.heads = @ \cup {head},
                              !.cover_map = @ \cup {<<d, c, head>>}], d)

recursive_dependency_check(s, head, v) ==
  FoldSet(LAMBDA d, t : Cover(t, head, d, v.dep[d]), s,
          {d \in Key : v.dep[d] # {}})

------------------------------------------------------------------------------
(* Answers.  An entry of cross is a record m; its prior_causal_chains is a *)
(* function from the other caches to clocks.                               *)
find_address(m, k, c) == {n \in Node : Less(c, m.prior[n][k])}

(* The keys reached from k along dependencies in the cut.                  *)
RECURSIVE Observed(_, _)
Observed(s, ks) ==
  LET more == {d \in Key : \E k \in ks : s.causal_cut_store[k].dep[d] # {}}
  IN IF more \subseteq ks THEN ks ELSE Observed(s, ks \cup more)

save_versions(s, m, ks) ==
  [s EXCEPT !.version_store[m.id] =
     [k \in Key |-> IF k \in m.future \cap UNION {Observed(s, {x}) : x \in ks}
                    THEN s.causal_cut_store[k] ELSE @[k]]]

(* Mutant of RemoteReads: what is in the local cut is read from it.        *)
RemoteReadsMissing(s, m) ==
  {k \in m.read \ m.dne : s.causal_cut_store[k] = Nothing}

(* Mutant of RemoteReads: keys that do not exist are sought elsewhere.     *)
RemoteReadsAbsent(s, m) ==
  {k \in m.read :
     \/ s.causal_cut_store[k] = Nothing
     \/ find_address(m, k, s.causal_cut_store[k].vc) # {}}

(* fire_remote_read_requests: the keys to read from another cache ...      *)
RemoteReads(s, m) ==
  {k \in m.read \ m.dne :
     \/ s.causal_cut_store[k] = Nothing
     \/ find_address(m, k, s.causal_cut_store[k].vc) # {}}

VersionsOf(s, m) == [k \in Key |-> s.version_store[m.id][k].vc]

(* ... and what becomes of the entry m, all of whose keys are covered:     *)
(* respond_to_client, or requests to the other caches.                     *)
FireOrRespond(n, s, m) ==
  LET remote == RemoteReads(s, m)
      localKeys == m.read \ (m.dne \cup remote)
      saved == save_versions(s, m, localKeys)
      tuples == [k \in m.read \ remote |->
                   IF k \in m.dne THEN Nothing ELSE s.causal_cut_store[k]]
      (* at() of a key that is not in the cut, a socket to no address.      *)
      fault == \/ \E k \in Observed(s, localKeys) : s.causal_cut_store[k] = Nothing
               \/ \E k \in remote : find_address(m, k, s.causal_cut_store[k].vc) = {}
      source(k) == CHOOSE x \in find_address(m, k, s.causal_cut_store[k].vc) : TRUE
      requests == {[kind |-> "request", to |-> x, from |-> n, id |-> m.id,
                    keys |-> {k \in remote : source(k) = x}]
                     : x \in {source(k) : k \in remote}}
  IN IF fault THEN [s EXCEPT !.fault = TRUE]
     ELSE IF remote = {}
     THEN [saved EXCEPT
             !.cross = {x \in @ : x.req # m.req},
             !.sent = @ \cup {[req |-> m.req, tuples |-> tuples,
                               versions |-> VersionsOf(saved, m)]}]
     ELSE [saved EXCEPT
             !.cross = {x \in @ : x.req # m.req} \cup
                       {[m EXCEPT !.remote = remote, !.payload = tuples]},
             !.out = @ \cup requests]

(* Mutant of MergedCut: the head key enters the cut alone.                 *)
MergedCutAlone(cut, chain, head) == [cut EXCEPT ![head] = causal_merge(@, chain[head])]

MergedCut(cut, chain, head) == [k \in Key |-> causal_merge(cut[k], chain[k])]

(* The chain prepared for key head enters the cut, and the reads that wait *)
(* for head are told.  The callers then erase head from to_fetch_map.      *)
merge_into_causal_cut(n, s, head) ==
  LET p == s.in_preparation[head]
      merged == [s EXCEPT
        !.causal_cut_store = MergedCut(@, p.second, head),
        !.in_preparation[head] = NewCache.in_preparation[head],
        !.to_fetch_map[head] = {}, !.heads = @ \ {head}]
      dne == IF p.second[head] = Nothing THEN {head} ELSE {}
      told == {m \in s.cross : m.req \in p.first}
      Tell(m, t) ==
        LET m2 == [m EXCEPT !.dne = @ \cup dne, !.cover = @ \ {head}]
        IN IF m2.cover = {} THEN FireOrRespond(n, t, m2)
           ELSE [t EXCEPT !.cross = (@ \ {m}) \cup {m2}]
  IN FoldSet(Tell, merged, told)

(* Key head is prepared from version v; it is merged at once if nothing    *)
(* has to be fetched.                                                      *)
PrepareHead(n, s, head, v) ==
  LET t == recursive_dependency_check(
             [s EXCEPT !.in_preparation[head].second[head] = v], head, v)
  IN IF t.to_fetch_map[head] = {} THEN merge_into_causal_cut(n, t, head) ELSE t

------------------------------------------------------------------------------
(* process_response: a version of key k has come from the store.           *)
SingleCallbacks(s, k) ==
  LET left(m) == [m EXCEPT !.cover = @ \ {k}]
      told == {left(m) : m \in {x \in s.single : k \in x.cover}}
      ready == {m \in told : m.cover = {}}
  IN [s EXCEPT
        !.single = {m \in @ : k \notin m.cover} \cup (told \ ready),
        (* A null pointer: the entry of a key that does not exist is erased *)
        (* at the end of process_response, before its reader is answered.   *)
        !.fault = @ \/ \E m \in ready : \E d \in m.read \ {k} : s.unmerged_store[d] = Nothing,
        !.sent = @ \cup {[req |-> m.req, versions |-> [d \in Key |-> {}],
                          tuples |-> [d \in m.read |-> s.unmerged_store[d]]]
                           : m \in ready}]

(* The entries of cover_map for k that the new version satisfies.  A head  *)
(* key stops waiting for k when none of its entries is left.               *)
CoverHeads(n, s, k) ==
  LET v == s.unmerged_store[k]
      mine == {c \in s.cover_map : c[1] = k}
      met == {c \in mine : GreaterOrEqual(v.vc, c[2])}
      unmet == {c[3] : c \in mine \ met}
      found == [s EXCEPT
        !.in_preparation = [h \in Key |->
           IF \E c \in met : c[3] = h THEN [@[h] EXCEPT !.second[k] = v] ELSE @[h]],
        !.to_fetch_map = [h \in Key |->
           IF h \notin unmet /\ \E c \in met : c[3] = h THEN @[h] \ {k} ELSE @[h]],
        !.cover_map = @ \ met]
      Recheck(c, t) ==
        LET u == recursive_dependency_check(t, c[3], v)
        IN IF u.to_fetch_map[c[3]] = {}
           THEN merge_into_causal_cut(n, u, c[3]) ELSE u
      done == FoldSet(Recheck, found, met)
  IN IF \E c \in done.cover_map : c[1] = k THEN get_async(done, k) ELSE done

process_response(n, s, k, v) ==
  LET new == s.unmerged_store[k] = Nothing
      stored == [s EXCEPT !.unmerged_store = MergeInto(@, k, v)]
      told == IF new THEN SingleCallbacks(stored, k) ELSE stored
      direct == IF k \in told.heads /\ told.to_fetch_map[k] = {}
                THEN PrepareHead(n, told, k, told.unmerged_store[k]) ELSE told
  IN CoverHeads(n, direct, k)

------------------------------------------------------------------------------
(* A handler of node n that receives the messages ms and leaves s.         *)
Finish(n, s, ms) ==
  /\ ~ cache[n].fault
  /\ cache' = [cache EXCEPT ![n] = [s EXCEPT !.out = {}, !.sent = {}]]
  /\ msgs' = (msgs \ ms) \cup s.out
  /\ answers' = [r \in Read |->
       IF \E a \in s.sent : a.req = r THEN {a \in s.sent : a.req = r} ELSE answers[r]]
Answered(r) == answers[r] # {}
AnswerOf(r) == CHOOSE a \in answers[r] : TRUE

(* A function goes on when all of its keys exist; if not, it reads again,  *)
(* which is another read.                                                  *)
Complete(r) == Answered(r) /\ \A k \in Keys[r] : AnswerOf(r).tuples[k] # Nothing

(* get_request_handler for single-key causal consistency.                  *)
GetSingle(r) ==
  LET n == At[r]
      s == [cache[n] EXCEPT !.key_set = @ \cup Keys[r]]
      miss == {k \in Keys[r] : s.unmerged_store[k] = Nothing}
  IN /\ r \in todo /\ Kind[r] = "SINGLE"
     /\ todo' = todo \ {r}
     /\ Finish(n, IF miss = {}
                  THEN [s EXCEPT !.sent =
                          {[req |-> r, versions |-> [d \in Key |-> {}],
                            tuples |-> [d \in Keys[r] |-> s.unmerged_store[d]]]}]
                  ELSE [s EXCEPT !.gets = @ \cup miss, !.single = @ \cup
                          {[req |-> r, read |-> Keys[r], cover |-> miss]}], {})
     /\ UNCHANGED <<kvs, kept>>

(* The prior versions that a read brings along: those that the caches of   *)
(* the earlier reads keep for it and that no other of them dominates.      *)
PriorChains(r) ==
  LET given(x, k) == UNION {IF At[q] = x THEN {AnswerOf(q).versions[k]} ELSE {} : q \in After[r]}
      frontier(k) == UNION {given(x, k) : x \in Node}
      newest(x, k) == {c \in given(x, k) : ~ \E d \in frontier(k) : Less(c, d)}
  IN [x \in Node |-> [k \in Key |->
        IF newest(x, k) = {} THEN {} ELSE CHOOSE c \in newest(x, k) : TRUE]]

Prepared(s, k) ==
  \/ s.in_preparation[k].first # {}
  \/ \E d \in Key : s.in_preparation[k].second[d] # Nothing

(* One key of a read that needs a causal cut.  cover is what is missing.   *)
CoverKey(n, r, k, t) ==
  LET s == t.s
      p == find_lattice_from_in_preparation(s, k, {})
      v == IF p # Nothing THEN p ELSE s.unmerged_store[k]
      asked(x) == [x EXCEPT !.in_preparation[k].first = @ \cup {r}]
      begun == [s EXCEPT !.to_fetch_map[k] = {}, !.heads = @ \cup {k}]
      built == PrepareHead(n, begun, k, v)
      wait(x) == [s |-> asked(x), cover |-> t.cover \cup {k}]
  IN IF s.causal_cut_store[k] # Nothing THEN t
     ELSE IF Prepared(s, k) THEN wait(s)
     ELSE IF v = Nothing THEN wait(get_async(begun, k))
     ELSE IF k \in built.heads THEN wait(built)
     ELSE [t EXCEPT !.s = built]

GetCross(r) ==
  LET n == At[r]
      prior == PriorChains(r)
      m == [req |-> r, id |-> Id[r], read |-> Keys[r], cover |-> {}, prior |-> prior,
            future |-> Future[r], remote |-> {}, dne |-> {}, payload |-> <<>>]
      known == {k \in Key : \E x \in Node : prior[x][k] # {}}
      s == [cache[n] EXCEPT !.key_set = @ \cup Keys[r]]
      t == FoldSet(LAMBDA k, x : CoverKey(n, r, k, x), [s |-> s, cover |-> {}],
                   Keys[r] \ known)
  IN /\ r \in todo /\ Kind[r] = "CROSS"
     /\ \A q \in After[r] : Complete(q)
     /\ todo' = todo \ {r}
     /\ Finish(n, IF t.cover = {} THEN FireOrRespond(n, t.s, m)
                  ELSE [t.s EXCEPT !.cross = @ \cup {[m EXCEPT !.cover = t.cover]}], {})
     /\ UNCHANGED <<kvs, kept>>

put_request_handler(w) ==
  LET n == PutAt[w]
  IN /\ w \in todo \cap Put
     /\ todo' = todo \ {w}
     /\ LET u == MergeInto(cache[n].unmerged_store, KeyOf[w], VersionOf(w))
        IN Finish(n, [cache[n] EXCEPT !.unmerged_store = u,
                        !.puts = @ \cup {[put |-> w, ver |-> u[KeyOf[w]]]}], {})
     /\ UNCHANGED <<kvs, kept>>

(* kvs_response_handler.                                                   *)
KvsGetResponse(n, k, vs) ==
  /\ k \in cache[n].gets /\ vs \subseteq kvs[k]
  /\ Finish(n, process_response(n, [cache[n] EXCEPT !.gets = @ \ {k}], k, MergeAll(vs)), {})
  /\ UNCHANGED <<kvs, todo, kept>>

KvsPutResponse(n, p) ==
  /\ p \in cache[n].puts
  /\ kvs' = [kvs EXCEPT ![KeyOf[p.put]] = @ \cup {p.ver}]
  /\ Finish(n, [cache[n] EXCEPT !.puts = @ \ {p}], {})
  /\ UNCHANGED <<todo, kept>>

(* An update that the store pushes; only keys that were read are cached.   *)
KvsUpdate(n, k, vs) ==
  /\ k \in cache[n].key_set /\ vs # {} /\ vs \subseteq kvs[k]
  /\ Finish(n, process_response(n, cache[n], k, MergeAll(vs)), {})
  /\ UNCHANGED <<kvs, todo, kept>>

periodic_migration_handler(n) ==
  LET Migrate(k, s) ==
        IF /\ s.unmerged_store[k] # Nothing
           /\ ~ GreaterOrEqual(s.causal_cut_store[k].vc, s.unmerged_store[k].vc)
           /\ find_lattice_from_in_preparation(s, k, {}) = Nothing
        THEN PrepareHead(n, [s EXCEPT !.to_fetch_map[k] = {}, !.heads = @ \cup {k}],
                         k, s.unmerged_store[k])
        ELSE s
  IN /\ Finish(n, FoldSet(Migrate, cache[n], Key), {})
     /\ UNCHANGED <<kvs, todo, kept>>

versioned_key_request_handler(m) ==
  LET s == cache[m.to]
      have == {k \in m.keys : s.version_store[m.id][k] # Nothing}
  IN /\ m \in msgs /\ m.kind = "request"
     /\ ~ s.fault
     /\ msgs' = (msgs \ {m}) \cup
          {[kind |-> "response", to |-> m.from, id |-> m.id,
            tuples |-> [k \in have |-> s.version_store[m.id][k]]]}
     /\ UNCHANGED <<cache, kvs, answers, todo, kept>>

(* Every read of this client id takes the versions it asked for; those     *)
(* that now have all their keys are answered.                              *)
versioned_key_response_handler(m) ==
  LET n == m.to
      s == cache[n]
      Take(c) == LET got == c.remote \cap DOMAIN m.tuples
                 IN [c EXCEPT !.remote = @ \ got,
                       !.payload = [k \in DOMAIN @ \cup got |->
                                      IF k \in got THEN m.tuples[k] ELSE @[k]]]
      waiting == {c \in s.cross : c.id = m.id /\ c.remote # {}}
      taken == {Take(c) : c \in waiting}
      ready == {c \in taken : c.remote = {}}
  IN /\ m \in msgs /\ m.kind = "response"
     /\ Finish(n, [s EXCEPT
          !.cross = (@ \ waiting) \cup (taken \ ready),
          !.sent = {[req |-> c.req, tuples |-> c.payload,
                     versions |-> VersionsOf(s, c)] : c \in ready}], {m})
     /\ UNCHANGED <<kvs, todo, kept>>

(* Mutant of VersionGC: the first function to end drops the versions.     *)
VersionGCEarly(n, g) ==
  /\ <<n, g>> \in kept
  /\ \E r \in Read : Dag[r] = g /\ Complete(r)
  /\ kept' = kept \ {<<n, g>>}
  /\ Finish(n, [cache[n] EXCEPT !.version_store =
       [i \in DOMAIN @ |-> IF \E r \in Read : Dag[r] = g /\ Id[r] = i
                           THEN [k \in Key |-> Nothing] ELSE @[i]]], {})
  /\ UNCHANGED <<kvs, todo>>

(* The last function of the call has ended: a cache that kept versions for *)
(* it drops those of the client.                                           *)
VersionGC(n, g) ==
  /\ <<n, g>> \in kept
  /\ \A r \in Read : Dag[r] = g => Complete(r)
  /\ kept' = kept \ {<<n, g>>}
  /\ Finish(n, [cache[n] EXCEPT !.version_store =
       [i \in DOMAIN @ |-> IF \E r \in Read : Dag[r] = g /\ Id[r] = i
                           THEN [k \in Key |-> Nothing] ELSE @[i]]], {})
  /\ UNCHANGED <<kvs, todo>>

------------------------------------------------------------------------------
Init ==
  /\ cache = [n \in Node |-> NewCache]
  /\ kvs = [k \in Key |-> {VersionOf(w) : w \in {x \in Stored : KeyOf[x] = k}}]
  /\ msgs = {}
  /\ answers = [r \in Read |-> {}]
  /\ todo = Read \cup Put
  /\ kept = {<<At[r], Dag[r]>> : r \in {x \in Read : Kind[x] = "CROSS"}}

Next ==
  \/ \E r \in Read : GetSingle(r) \/ GetCross(r)
  \/ \E w \in Put : put_request_handler(w)
  \/ \E m \in msgs : versioned_key_request_handler(m) \/ versioned_key_response_handler(m)
  \/ \E n \in Node :
       \/ \E k \in Key : \E vs \in SUBSET kvs[k] :
            KvsGetResponse(n, k, vs) \/ KvsUpdate(n, k, vs)
       \/ \E p \in cache[n].puts : KvsPutResponse(n, p)
       \/ periodic_migration_handler(n)
       \/ \E r \in Read : VersionGC(n, Dag[r])

Spec == Init /\ [][Next]_vars

(* The functions make their requests, the caches handle what has come, and *)
(* the store answers a GET at last with all that was written, which ends   *)
(* it: while any of these is outstanding, a step that changes the state is *)
(* taken in the end.                                                       *)
Busy ==
  \/ \E r \in todo \cap Read : \A q \in After[r] : Complete(q)
  \/ msgs # {}
  \/ \E n \in Node : cache[n].gets # {}

FairSpec == Spec /\ (<>[]Busy => []<><<TRUE>>_vars)

------------------------------------------------------------------------------
Version == [vc : SUBSET Write, dep : [Key -> SUBSET Write]]
Store == [Key -> Version]

(* The stores hold versions, of the keys they are filed under.             *)
CausalTypeOK ==
  /\ \A n \in Node :
       /\ cache[n].unmerged_store \in Store /\ cache[n].causal_cut_store \in Store
       /\ \A k \in Key : \A w \in cache[n].unmerged_store[k].vc : KeyOf[w] = k
       /\ cache[n].to_fetch_map \in [Key -> SUBSET Key]
       /\ \A c \in cache[n].cover_map : c[2] # {} /\ c[1] # c[3]
       /\ cache[n].gets \subseteq Key
       /\ cache[n].out = {} /\ cache[n].sent = {}
  /\ todo \subseteq Read \cup Put

(* causal_cut_store is a causal cut: whatever a version in it depends on   *)
(* is in it, in that version or a later one.                               *)
CutClosed ==
  \A n \in Node : \A k, d \in Key :
    GreaterOrEqual(cache[n].causal_cut_store[d].vc, cache[n].causal_cut_store[k].dep[d])

(* No cache dies: at() finds its key, a remote read has an address, and a  *)
(* key read from unmerged_store is there.                                  *)
NoFault == \A n \in Node : ~ cache[n].fault

(* A chain in preparation is of versions that the cache has seen, and it   *)
(* lacks nothing but the keys that to_fetch_map lists for it, each of      *)
(* which is in cover_map and being fetched.  A read that waits for a key   *)
(* is noted in the chain of that key, which itself waits for the store.    *)
ChainsComplete ==
  \A n \in Node : LET s == cache[n] IN
    /\ \A h, k \in Key : GreaterOrEqual(s.unmerged_store[k].vc, s.in_preparation[h].second[k].vc)
    /\ \A h, k, d \in Key :
         LET c == s.in_preparation[h].second[k].dep[d] IN
           \/ GreaterOrEqual(s.causal_cut_store[d].vc, c)
           \/ GreaterOrEqual(s.in_preparation[h].second[d].vc, c)
           \/ <<d, c, h>> \in s.cover_map
    /\ \A c \in s.cover_map : c[1] \in s.to_fetch_map[c[3]] /\ c[1] \in s.gets
    /\ \A m \in s.cross : \A k \in m.cover :
         /\ m.req \in s.in_preparation[k].first /\ k \in s.heads
         /\ s.to_fetch_map[k] = {} => k \in s.gets

(* The functions of a dag, on one node or on several, never read a key     *)
(* back in time: what a function gets of a key that it or an earlier read  *)
(* depends on is not older than that dependency, though find_address lets  *)
(* it read a local version that is concurrent with it.                     *)
DagReadsCausal ==
  \A r \in Read : Kind[r] = "CROSS" /\ Answered(r) =>
    \A q \in After[r] \cup {r} : \A k \in Keys[q], d \in Keys[r] :
      \/ AnswerOf(r).tuples[d] = Nothing
      \/ ~ Less(AnswerOf(r).tuples[d].vc, AnswerOf(q).tuples[k].dep[d])

(* The reads of a dag together are a causal cut.  Not so: a local version  *)
(* that is concurrent with what an earlier read depends on is returned     *)
(* without it.                                                             *)
DagReadsCut ==
  \A r \in Read : Kind[r] = "CROSS" /\ Answered(r) =>
    \A q \in After[r] \cup {r} : \A k \in Keys[q], d \in Keys[r] :
      \/ AnswerOf(r).tuples[d] = Nothing
      \/ GreaterOrEqual(AnswerOf(r).tuples[d].vc, AnswerOf(q).tuples[k].dep[d])

(* Every read that is made is answered.                                    *)
ReadsAnswered == \A r \in Read : (r \notin todo) ~> Answered(r)
=============================================================================
