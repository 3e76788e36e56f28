-------------------------- MODULE Serializers_proofs --------------------------
(***************************************************************************)
(* What a replica stores is the join of the PUTs that went into it, for    *)
(* any number of replicas, clients and PUTs, whatever the order in which   *)
(* PUTs, gossip and removals come.  The inductive invariant Inv says of    *)
(* every store, and of every payload in flight, that it represents the     *)
(* PUTs that went into it; the merges of Lattices preserve that.           *)
(***************************************************************************)
EXTENDS Serializers, FiniteSetTheorems, TLAPS

(* The provers tried on a leaf that names none, with the seconds they get. *)
USE ZenonT(60), SMTT(60)

------------------------------------------------------------------------------
(* Clocks and dependencies: maps, with the order of their merges.          *)
IsClock(c) == c = [x \in DOMAIN c |-> c[x]] /\ \A x \in DOMAIN c : c[x] \in Nat
AtMost(c, d) == \A x \in DOMAIN c : x \in DOMAIN d /\ c[x] <= d[x]

IsDependency(f) == f = [k \in DOMAIN f |-> f[k]] /\ \A k \in DOMAIN f : IsClock(f[k])
Covers(f, g) == \A k \in DOMAIN g : k \in DOMAIN f /\ AtMost(g[k], f[k])

LEMMA ClockMerge ==
  ASSUME NEW c, NEW d, IsClock(c), IsClock(d)
  PROVE  LET m == clock_merge(c, d) IN
         /\ IsClock(m)
         /\ DOMAIN m = DOMAIN c \cup DOMAIN d
         /\ \A x \in DOMAIN m : \/ x \in DOMAIN c /\ m[x] = c[x]
                                \/ x \in DOMAIN d /\ m[x] = d[x]
         /\ AtMost(c, m) /\ AtMost(d, m)
<1> DEFINE m == clock_merge(c, d)
<1>1. DOMAIN m = DOMAIN c \cup DOMAIN d
  BY DEF clock_merge
<1>2. m = [x \in DOMAIN m |-> m[x]]
  BY DEF clock_merge
<1>3. ASSUME NEW x \in DOMAIN m
      PROVE  /\ m[x] \in Nat
             /\ \/ x \in DOMAIN c /\ m[x] = c[x]
                \/ x \in DOMAIN d /\ m[x] = d[x]
             /\ x \in DOMAIN c => c[x] <= m[x]
             /\ x \in DOMAIN d => d[x] <= m[x]
  BY SMTT(60) DEF clock_merge, Bigger, IsClock
<1> HIDE DEF m
<1>4. IsClock(m)
  BY <1>2, <1>3 DEF IsClock
<1>5. AtMost(c, m) /\ AtMost(d, m)
  BY <1>1, <1>3 DEF AtMost
<1> QED
  BY <1>1, <1>3, <1>4, <1>5 DEF m

(* A merge that changes nothing is one with a smaller map.                 *)
LEMMA ClockMergeRight ==
  ASSUME NEW c, NEW d, IsClock(c), IsClock(d), clock_merge(c, d) = d
  PROVE  AtMost(c, d)
  BY ClockMerge

LEMMA ClockMergeLeft ==
  ASSUME NEW c, NEW d, IsClock(c), IsClock(d)
  PROVE  clock_merge(c, d) = c <=> AtMost(d, c)
<1>1. ASSUME clock_merge(c, d) = c PROVE AtMost(d, c)
  BY <1>1, ClockMerge
<1>2. ASSUME AtMost(d, c) PROVE clock_merge(c, d) = c
  <2> DEFINE m == clock_merge(c, d)
  <2>1. DOMAIN m = DOMAIN c
    BY <1>2 DEF AtMost, clock_merge
  <2>2. ASSUME NEW x \in DOMAIN c PROVE m[x] = c[x]
    BY <1>2, SMTT(60) DEF AtMost, clock_merge, Bigger, IsClock
  <2>3. m = [x \in DOMAIN m |-> m[x]]
    BY DEF clock_merge
  <2>4. c = [x \in DOMAIN c |-> c[x]]
    BY DEF IsClock
  <2> HIDE DEF m
  <2> m = c
    BY <2>1, <2>2, <2>3, <2>4
  <2> QED
    BY DEF m
<1> QED
  BY <1>1, <1>2

LEMMA AtMostTransitive ==
  ASSUME NEW b, NEW c, NEW d, IsClock(b), IsClock(c), IsClock(d),
         AtMost(b, c), AtMost(c, d)
  PROVE  AtMost(b, d)
  BY SMTT(60) DEF AtMost, IsClock

LEMMA DependencyMerge ==
  ASSUME NEW f, NEW g, IsDependency(f), IsDependency(g)
  PROVE  LET m == dependency_merge(f, g) IN
         IsDependency(m) /\ Covers(m, f) /\ Covers(m, g)
<1> DEFINE m == dependency_merge(f, g)
<1>1. DOMAIN m = DOMAIN f \cup DOMAIN g
  BY DEF dependency_merge
<1>2. m = [k \in DOMAIN m |-> m[k]]
  BY DEF dependency_merge
<1>3. ASSUME NEW k \in DOMAIN m
      PROVE  /\ IsClock(m[k])
             /\ k \in DOMAIN f => AtMost(f[k], m[k])
             /\ k \in DOMAIN g => AtMost(g[k], m[k])
  <2>1. m[k] = IF k \in DOMAIN f
               THEN IF k \in DOMAIN g THEN clock_merge(f[k], g[k]) ELSE f[k]
               ELSE g[k]
    BY DEF dependency_merge
  <2>2. \A c : IsClock(c) => AtMost(c, c)
    BY SMTT(60) DEF IsClock, AtMost
  <2>3. /\ k \in DOMAIN f => IsClock(f[k])
        /\ k \in DOMAIN g => IsClock(g[k])
    BY DEF IsDependency
  <2> HIDE DEF m
  <2>4. CASE k \in DOMAIN f /\ k \in DOMAIN g
    <3>1. m[k] = clock_merge(f[k], g[k])
      BY <2>1, <2>4
    <3>2. IsClock(f[k]) /\ IsClock(g[k])
      BY <2>3, <2>4
    <3> DEFINE n == clock_merge(f[k], g[k])
    <3>3. IsClock(n) /\ AtMost(f[k], n) /\ AtMost(g[k], n)
      BY <3>2, ClockMerge
    <3> HIDE DEF n
    <3>4. m[k] = n
      BY <3>1 DEF n
    <3> QED
      BY <3>3, <3>4
  <2>5. CASE ~ (k \in DOMAIN f /\ k \in DOMAIN g)
    BY <1>1, <2>1, <2>2, <2>3, <2>5
  <2> QED
    BY <2>4, <2>5
<1> HIDE DEF m
<1> QED
  BY <1>1, <1>2, <1>3 DEF IsDependency, Covers, m

LEMMA CoversTransitive ==
  ASSUME NEW f, NEW g, NEW h, IsDependency(f), IsDependency(g), IsDependency(h),
         Covers(f, g), Covers(g, h)
  PROVE  Covers(f, h)
<1> SUFFICES ASSUME NEW k \in DOMAIN h PROVE k \in DOMAIN f /\ AtMost(h[k], f[k])
  BY DEF Covers
<1>1. k \in DOMAIN g /\ AtMost(h[k], g[k]) /\ k \in DOMAIN f /\ AtMost(g[k], f[k])
  BY DEF Covers
<1>2. IsClock(f[k]) /\ IsClock(g[k]) /\ IsClock(h[k])
  BY <1>1 DEF IsDependency
<1> QED
  BY <1>1, <1>2, AtMostTransitive

LEMMA CoversIsMerged ==
  ASSUME NEW f, NEW g, IsDependency(f), IsDependency(g), Covers(f, g)
  PROVE  dependency_merge(f, g) = f
<1> DEFINE m == dependency_merge(f, g)
<1>1. DOMAIN m = DOMAIN f
  BY DEF Covers, dependency_merge
<1>2. ASSUME NEW k \in DOMAIN f PROVE m[k] = f[k]
  <2>1. CASE k \in DOMAIN g
    <3>1. m[k] = clock_merge(f[k], g[k])
      BY <2>1 DEF dependency_merge
    <3>2. IsClock(f[k]) /\ IsClock(g[k]) /\ AtMost(g[k], f[k])
      BY <2>1 DEF IsDependency, Covers
    <3> HIDE DEF m
    <3> QED
      BY <3>1, <3>2, ClockMergeLeft
  <2>2. CASE k \notin DOMAIN g
    BY <2>2 DEF dependency_merge
  <2> QED
    BY <2>1, <2>2
<1>3. m = [k \in DOMAIN m |-> m[k]]
  BY DEF dependency_merge
<1>4. f = [k \in DOMAIN f |-> f[k]]
  BY DEF IsDependency
<1> HIDE DEF m
<1> m = f
  BY <1>1, <1>2, <1>3, <1>4
<1> QED
  BY DEF m

------------------------------------------------------------------------------
(* The element e represents the PUTs in A.                                 *)
Stamp(u) == puts[u].payload.timestamp
ClockOf(u) == puts[u].payload.vector_clock
DependencyOf(u) == puts[u].payload.dependency

(* EBSLWWSerializer truncates the file before it compares timestamps, so   *)
(* what is said of registers is said of those in memory.                   *)
RegistersInMemory == "LWW" \in Types => Disk["LWW"] = {}

LwwOf(e, A) ==
  /\ e.timestamp \in Nat
  /\ \A u \in A : Stamp(u) <= e.timestamp
  /\ A # {} => e.value \in A /\ Stamp(e.value) = e.timestamp
  /\ A = {} => e.timestamp = 0

(* The clock c is the least one above those of the PUTs in A.              *)
Joins(c, A) ==
  /\ IsClock(c)
  /\ \A u \in A : AtMost(ClockOf(u), c)
  /\ \A x \in DOMAIN c : \E u \in A : x \in DOMAIN ClockOf(u) /\ ClockOf(u)[x] = c[x]

CausalOf(e, A) ==
  /\ e.value \subseteq A
  /\ IsDependency(e.dependency)
  /\ \A u \in e.value : Covers(e.dependency, DependencyOf(u))
  /\ Joins(e.vector_clock, A)
  /\ ReadsOwnPut => Maximal(A) \subseteq e.value

Represents(e, A) ==
  /\ type = "LWW" /\ RegistersInMemory => LwwOf(e, A)
  /\ type = "SET" => e = A
  /\ type = "CAUSAL" => CausalOf(e, A)

Shape ==
  /\ type \in Types
  /\ \E n \in 0 .. MaxPuts : Put = 1 .. n
  /\ DOMAIN past = Put
  /\ \A u \in Put : puts[u].by \in Client
  /\ store = [r \in Replica |-> store[r]]
  /\ absorbed \in [Replica -> SUBSET Put]
  /\ \A m \in msgs : m.to \in Replica /\ m.of \subseteq Put /\ m.of # {}
  /\ \A r \in Replica : Found(store[r]) => absorbed[r] # {}

(* The timestamp of a PUT is that of generate_timestamp.                   *)
Stamped ==
  type = "LWW" => \A u \in Put :
    puts[u].time \in Nat /\ Stamp(u) = generate_timestamp(puts[u].time, puts[u].by)

(* The clock of a PUT has an entry for its writer, and no clock is ahead   *)
(* of a client's own PUTs.                                                 *)
Clocked ==
  type = "CAUSAL" => \A u \in Put :
    /\ IsClock(ClockOf(u)) /\ IsDependency(DependencyOf(u))
    /\ puts[u].by \in DOMAIN ClockOf(u)
    /\ \A x \in DOMAIN ClockOf(u) :
         \E v \in PutsOf(x) : x \in DOMAIN ClockOf(v) /\ ClockOf(u)[x] <= ClockOf(v)[x]

(* A clock that has reached the writer's entry of a PUT knows of the PUT.  *)
Causal ==
  type = "CAUSAL" /\ ReadsOwnPut => \A u, w \in Put :
    LET c == puts[u].by IN
    c \in DOMAIN ClockOf(w) /\ ClockOf(u)[c] <= ClockOf(w)[c] => u = w \/ u \in past[w]

Inv ==
  /\ Shape /\ Stamped /\ Clocked /\ Causal
  /\ \A r \in Replica : Represents(store[r], absorbed[r])
  /\ \A m \in msgs : Represents(m.payload, m.of)

------------------------------------------------------------------------------
(* The merges keep the join.                                               *)
LEMMA StampType ==
  ASSUME Shape, Stamped, type = "LWW", NEW u \in Put
  PROVE  Stamp(u) \in Nat
<1>1. puts[u].time \in Nat /\ puts[u].by \in 0 .. 99
  BY SerializersAssumption DEF Shape, Stamped
<1> QED
  BY <1>1, SMTT(60) DEF Stamped, generate_timestamp

LEMMA LwwMerge ==
  ASSUME NEW e, NEW p, NEW A, NEW B, LwwOf(e, A), LwwOf(p, B), B # {},
         \A u \in A \cup B : Stamp(u) \in Nat
  PROVE  LwwOf(lww_merge(e, p), A \cup B)
<1>1. CASE p.timestamp >= e.timestamp
  BY <1>1, SMTT(60) DEF lww_merge, LwwOf
<1>2. CASE ~ (p.timestamp >= e.timestamp)
  <2>1. e.timestamp > p.timestamp
    BY <1>2, SMTT(60) DEF LwwOf
  <2>2. LwwOf(e, A \cup B)
    BY <2>1, SMTT(60) DEF LwwOf
  <2> QED
    BY <1>2, <2>2 DEF lww_merge
<1> QED
  BY <1>1, <1>2

LEMMA JoinsMerge ==
  ASSUME NEW c, NEW d, NEW A, NEW B, Joins(c, A), Joins(d, B),
         \A u \in A \cup B : IsClock(ClockOf(u))
  PROVE  Joins(clock_merge(c, d), A \cup B)
<1> DEFINE m == clock_merge(c, d)
<1>0. IsClock(c) /\ IsClock(d)
  BY DEF Joins
<1>1. /\ IsClock(m)
      /\ \A x \in DOMAIN m : \/ x \in DOMAIN c /\ m[x] = c[x]
                             \/ x \in DOMAIN d /\ m[x] = d[x]
      /\ AtMost(c, m) /\ AtMost(d, m)
  BY <1>0, ClockMerge
<1> HIDE DEF m
<1>2. ASSUME NEW u \in A \cup B PROVE AtMost(ClockOf(u), m)
  BY <1>1, AtMostTransitive DEF Joins
<1>3. ASSUME NEW x \in DOMAIN m
      PROVE  \E u \in A \cup B : x \in DOMAIN ClockOf(u) /\ ClockOf(u)[x] = m[x]
  BY <1>1 DEF Joins
<1>4. Joins(m, A \cup B)
  BY <1>1, <1>2, <1>3 DEF Joins
<1> QED
  BY <1>4 DEF m

(* A maximal PUT is among those whose join is the greater one.             *)
LEMMA Overtaken ==
  ASSUME type = "CAUSAL", ReadsOwnPut, Clocked, Causal,
         NEW A \in SUBSET Put, NEW B \in SUBSET Put,
         NEW c, NEW d, Joins(c, A), Joins(d, B), AtMost(c, d),
         NEW u \in Maximal(A \cup B)
  PROVE  u \in Maximal(B)
<1>1. SUFFICES ASSUME u \in A \ B PROVE FALSE
  BY DEF Maximal
<1> DEFINE x == puts[u].by
<1>2. u \in Put /\ IsClock(ClockOf(u)) /\ x \in DOMAIN ClockOf(u)
  BY <1>1 DEF Clocked
<1>3. x \in DOMAIN c /\ ClockOf(u)[x] <= c[x]
  BY <1>1, <1>2 DEF Joins, AtMost
<1>4. x \in DOMAIN d /\ c[x] <= d[x]
  BY <1>3 DEF AtMost
<1>5. PICK w \in B : x \in DOMAIN ClockOf(w) /\ ClockOf(w)[x] = d[x]
  BY <1>4 DEF Joins
<1>6. ClockOf(u)[x] <= ClockOf(w)[x]
  <2>1. ClockOf(u)[x] \in Nat /\ c[x] \in Nat /\ d[x] \in Nat
    BY <1>2, <1>3, <1>4 DEF IsClock, Joins
  <2> QED
    BY <1>3, <1>4, <1>5, <2>1, SMTT(60)
<1>7. u = w \/ u \in past[w]
  BY <1>2, <1>5, <1>6 DEF Causal
<1> QED
  BY <1>1, <1>5, <1>7 DEF Maximal

LEMMA CausalMerge ==
  ASSUME type = "CAUSAL", Clocked, Causal,
         NEW e, NEW p, NEW A \in SUBSET Put, NEW B \in SUBSET Put,
         CausalOf(e, A), CausalOf(p, B)
  PROVE  CausalOf(causal_merge(e, p), A \cup B)
<1> DEFINE m == causal_merge(e, p)
           c == e.vector_clock
           d == p.vector_clock
<1>0. /\ Joins(c, A) /\ Joins(d, B) /\ IsClock(c) /\ IsClock(d)
      /\ \A u \in Put : IsClock(ClockOf(u)) /\ IsDependency(DependencyOf(u))
  BY DEF CausalOf, Joins, Clocked
<1>1. Joins(m.vector_clock, A \cup B)
  <2>1. Joins(clock_merge(c, d), A \cup B)
    BY <1>0, JoinsMerge
  <2> QED
    BY <2>1 DEF causal_merge
<1>2. CASE Dominating(e, p)
  <2>1. m.value = p.value /\ m.dependency = p.dependency
    BY <1>2 DEF causal_merge
  <2>2. ASSUME ReadsOwnPut PROVE Maximal(A \cup B) \subseteq m.value
    <3>1. AtMost(c, d)
      BY <1>0, <1>2, ClockMergeRight DEF Dominating
    <3>2. Maximal(A \cup B) \subseteq Maximal(B)
      BY <1>0, <2>2, <3>1, Overtaken
    <3> QED
      BY <2>1, <2>2, <3>2 DEF CausalOf
  <2> QED
    BY <1>1, <2>1, <2>2 DEF CausalOf
<1>3. CASE Concurrent(e, p)
  <2>0. ~ Dominating(e, p)
    BY <1>3 DEF Concurrent
  <2>1. /\ m.value = e.value \cup p.value
        /\ m.dependency = dependency_merge(e.dependency, p.dependency)
    BY <1>3, <2>0 DEF causal_merge, set_merge
  <2>2. Maximal(A \cup B) \subseteq Maximal(A) \cup Maximal(B)
    BY DEF Maximal
  <2>3. /\ IsDependency(m.dependency)
        /\ Covers(m.dependency, e.dependency)
        /\ Covers(m.dependency, p.dependency)
    BY <2>1, DependencyMerge DEF CausalOf
  <2>4. ASSUME NEW u \in m.value PROVE Covers(m.dependency, DependencyOf(u))
    BY <1>0, <2>1, <2>3, CoversTransitive DEF CausalOf
  <2> HIDE DEF m
  <2> QED
    BY <1>1, <2>1, <2>2, <2>3, <2>4 DEF CausalOf, m
<1>4. CASE ~ Dominating(e, p) /\ ~ Concurrent(e, p)
  <2>1. m.value = e.value /\ m.dependency = e.dependency
    BY <1>4 DEF causal_merge
  <2>2. ASSUME ReadsOwnPut PROVE Maximal(A \cup B) \subseteq m.value
    <3>1. AtMost(d, c)
      BY <1>0, <1>4, ClockMergeLeft DEF Dominating, Concurrent
    <3>2. Maximal(B \cup A) \subseteq Maximal(A)
      BY <1>0, <2>2, <3>1, Overtaken
    <3>3. A \cup B = B \cup A
      OBVIOUS
    <3> QED
      BY <2>1, <2>2, <3>2, <3>3 DEF CausalOf
  <2> QED
    BY <1>1, <2>1, <2>2 DEF CausalOf
<1> QED
  BY <1>2, <1>3, <1>4

(* Serializer::put, in memory and on disk, keeps the join.                 *)
LEMMA PutRepresents ==
  ASSUME Inv, NEW m \in msgs
  PROVE  Represents(put(m.to, m.payload), absorbed[m.to] \cup m.of)
<1> DEFINE r == m.to
           e == store[r]
           A == absorbed[r]
<1>1. /\ r \in Replica /\ A \in SUBSET Put /\ m.of \in SUBSET Put /\ m.of # {}
      /\ Represents(e, A) /\ Represents(m.payload, m.of)
  BY DEF Inv, Shape
<1>2. CASE type = "LWW" /\ RegistersInMemory
  <2>1. put(r, m.payload) = lww_merge(e, m.payload)
    BY <1>2 DEF put, memory_put, merge, RegistersInMemory, Inv, Shape
  <2>2. \A u \in A \cup m.of : Stamp(u) \in Nat
    BY <1>1, <1>2, StampType DEF Inv
  <2>3. LwwOf(lww_merge(e, m.payload), A \cup m.of)
    BY <1>1, <1>2, <2>2, LwwMerge DEF Represents
  <2> QED
    BY <1>2, <2>1, <2>3 DEF Represents
<1>3. CASE type = "SET"
  <2>1. put(r, m.payload) = e \cup m.payload
    BY <1>3 DEF put, memory_put, ebs_put, ebs_set_put, merge, set_merge
  <2> QED
    BY <1>1, <1>3, <2>1 DEF Represents
<1>4. CASE type = "CAUSAL"
  <2>1. put(r, m.payload) = causal_merge(e, m.payload)
    BY <1>4 DEF put, memory_put, ebs_put, ebs_causal_put, merge
  <2>2. CausalOf(causal_merge(e, m.payload), A \cup m.of)
    BY <1>1, <1>4, CausalMerge DEF Represents, Inv
  <2> QED
    BY <1>4, <2>1, <2>2 DEF Represents
<1> QED
  BY <1>2, <1>3, <1>4 DEF Represents

------------------------------------------------------------------------------
(* A PUT adds a number and leaves the earlier PUTs as they are.            *)
LEMMA Recorded ==
  ASSUME Shape, NextPut <= MaxPuts,
         NEW c \in Client, NEW time, NEW payload, NEW seen,
         Record(c, time, payload, seen)
  PROVE  /\ NextPut \notin Put
         /\ Put' = Put \cup {NextPut} /\ DOMAIN past' = Put'
         /\ \E n \in 0 .. MaxPuts : Put' = 1 .. n
         /\ \A u \in Put : puts'[u] = puts[u] /\ past'[u] = past[u]
         /\ puts'[NextPut] = [by |-> c, time |-> time, payload |-> payload]
         /\ past'[NextPut] = seen \cup UNION {past[v] : v \in seen}
<1>1. PICK n \in 0 .. MaxPuts : Put = 1 .. n
  BY DEF Shape
<1>2. n \in Nat /\ MaxPuts \in Nat
  BY SerializersAssumption, SMTT(60)
<1>3. NextPut = n + 1
  <2>1. Cardinality(1 .. n) = n
    <3>1. 1 \in Int /\ n \in Int
      BY <1>2, SMTT(60)
    <3>2. Cardinality(1 .. n) = IF 1 > n THEN 0 ELSE n - 1 + 1
      BY <3>1, FS_Interval
    <3> QED
      BY <1>2, <3>2, SMTT(60)
  <2> QED
    BY <1>1, <2>1 DEF NextPut
<1> HIDE DEF NextPut
<1>4. NextPut \notin Put /\ n + 1 \in 0 .. MaxPuts
  BY <1>1, <1>2, <1>3, SMTT(60)
<1>8. Put \cup {NextPut} = 1 .. n + 1
  <2>1. (1 .. n) \cup {n + 1} = 1 .. n + 1
    BY <1>2, SMTT(60)
  <2> QED
    BY <1>1, <1>3, <2>1
<1>5. Put' = Put \cup {NextPut} /\ DOMAIN past' = Put'
  BY DEF Record, Put
<1>6. \A u \in Put : puts'[u] = puts[u] /\ past'[u] = past[u]
  BY <1>4 DEF Record, Put
<1>7. /\ puts'[NextPut] = [by |-> c, time |-> time, payload |-> payload]
      /\ past'[NextPut] = seen \cup UNION {past[v] : v \in seen}
  BY DEF Record
<1> QED
  BY <1>4, <1>5, <1>6, <1>7, <1>8

LEMMA RepresentsKept ==
  ASSUME type' = type, \A u \in Put : puts'[u] = puts[u] /\ past'[u] = past[u],
         NEW A \in SUBSET Put, NEW e, Represents(e, A)
  PROVE  Represents(e, A)'
<1>1. LwwOf(e, A) => LwwOf(e, A)'
  BY DEF LwwOf, Stamp
<1>2. CausalOf(e, A) => CausalOf(e, A)'
  <2>1. Maximal(A)' = Maximal(A)
    BY DEF Maximal
  <2>2. \A u \in A : ClockOf(u)' = ClockOf(u) /\ DependencyOf(u)' = DependencyOf(u)
    BY DEF ClockOf, DependencyOf
  <2>3. Joins(e.vector_clock, A) => Joins(e.vector_clock, A)'
    BY <2>2 DEF Joins
  <2> QED
    BY <2>1, <2>2, <2>3 DEF CausalOf
<1> QED
  BY <1>1, <1>2 DEF Represents

(* What is left to show of a PUT: that the new one fits in.                *)
LEMMA PutKeeps ==
  ASSUME Inv, NextPut <= MaxPuts,
         NEW c \in Client, NEW r \in Replica, NEW time, NEW payload, NEW seen,
         Record(c, time, payload, seen), PutTo(r, payload),
         UNCHANGED <<type, store, absorbed>>,
         Stamped', Clocked', Causal',
         NEW n, n = NextPut, Represents(payload, {n})'
  PROVE  Inv'
<1>1. /\ Put' = Put \cup {n} /\ DOMAIN past' = Put'
      /\ \E i \in 0 .. MaxPuts : Put' = 1 .. i
      /\ \A u \in Put : puts'[u] = puts[u] /\ past'[u] = past[u]
      /\ puts'[n] = [by |-> c, time |-> time, payload |-> payload]
  BY Recorded, SMTT(60) DEF Inv
<1> DEFINE new == [to |-> r, from |-> 0, payload |-> payload, of |-> {n}]
<1>2. msgs' = msgs \cup {new}
  BY DEF PutTo
<1>3. new.to = r /\ new.of = {n} /\ new.payload = payload
  OBVIOUS
<1> HIDE DEF new
<1>4. Shape'
  <2>1. \A u \in Put' : puts'[u].by \in Client
    BY <1>1, SMTT(60) DEF Inv, Shape
  <2>2. absorbed' \in [Replica -> SUBSET Put']
    BY <1>1 DEF Inv, Shape
  <2>3. \A m \in msgs' : m.to \in Replica /\ m.of \subseteq Put' /\ m.of # {}
    BY <1>1, <1>2, <1>3 DEF Inv, Shape
  <2>4. \A s \in Replica : (Found(store[s]) => absorbed[s] # {})'
    BY DEF Inv, Shape, Found
  <2> QED
    BY <1>1, <2>1, <2>2, <2>3, <2>4 DEF Inv, Shape
<1>5. \A A \in SUBSET Put : \A e : Represents(e, A) => Represents(e, A)'
  BY <1>1, RepresentsKept
<1>6. \A s \in Replica : Represents(store[s], absorbed[s])'
  <2> SUFFICES ASSUME NEW s \in Replica PROVE Represents(store[s], absorbed[s])'
    OBVIOUS
  <2>1. absorbed[s] \in SUBSET Put /\ Represents(store[s], absorbed[s])
    BY DEF Inv, Shape
  <2>2. store'[s] = store[s] /\ absorbed'[s] = absorbed[s]
    OBVIOUS
  <2> QED
    BY <1>5, <2>1, <2>2
<1>7. \A m \in msgs' : Represents(m.payload, m.of)'
  <2> SUFFICES ASSUME NEW m \in msgs' PROVE Represents(m.payload, m.of)'
    OBVIOUS
  <2>1. CASE m \in msgs
    BY <1>5, <2>1 DEF Inv, Shape
  <2>2. CASE m = new
    BY <1>3, <2>2
  <2> QED
    BY <1>2, <2>1, <2>2
<1> QED
  BY <1>4, <1>6, <1>7 DEF Inv

LEMMA LwwPut ==
  ASSUME Inv, NEW c \in Client, NEW r \in Replica, NEW time \in 1 .. MaxTime,
         PutLWW(c, r, time)
  PROVE  Inv'
<1>0. PICK n : n = NextPut
  OBVIOUS
<1> DEFINE stamp == generate_timestamp(time, c)
           payload == [timestamp |-> stamp, value |-> n]
<1>1. /\ type = "LWW" /\ n <= MaxPuts /\ Record(c, time, payload, PutsOf(c))
      /\ PutTo(r, payload) /\ UNCHANGED <<type, store, absorbed>>
  BY <1>0 DEF PutLWW
<1>2. /\ Put' = Put \cup {n}
      /\ \A u \in Put : puts'[u] = puts[u]
      /\ puts'[n] = [by |-> c, time |-> time, payload |-> payload]
  BY <1>0, <1>1, Recorded, SMTT(60) DEF Inv
<1>3. payload.timestamp = stamp /\ payload.value = n
  OBVIOUS
<1>4. stamp \in Nat
  <2>1. time \in Nat /\ c \in 0 .. 99
    BY SerializersAssumption, SMTT(60)
  <2> QED
    BY <2>1, SMTT(60) DEF generate_timestamp
<1> HIDE DEF stamp, payload
<1>5. Stamp(n)' = stamp
  BY <1>2, <1>3, SMTT(60) DEF Stamp
<1>6. Stamped'
  <2> SUFFICES ASSUME NEW u \in Put'
               PROVE  /\ puts'[u].time \in Nat
                      /\ Stamp(u)' = generate_timestamp(puts'[u].time, puts'[u].by)
    BY DEF Stamped
  <2>1. CASE u \in Put
    BY <1>1, <1>2, <2>1 DEF Inv, Stamped, Stamp
  <2>2. CASE u = n
    <3>1. time \in Nat
      BY SerializersAssumption, SMTT(60)
    <3> QED
      BY <1>2, <1>5, <2>2, <3>1, SMTT(60) DEF stamp
  <2> QED
    BY <1>2, <2>1, <2>2
<1>7. Clocked' /\ Causal'
  BY <1>1 DEF Clocked, Causal
<1>8. Represents(payload, {n})'
  BY <1>1, <1>3, <1>4, <1>5, SMTT(60) DEF Represents, LwwOf
<1> QED
  BY <1>0, <1>1, <1>6, <1>7, <1>8, PutKeeps

LEMMA SetPut ==
  ASSUME Inv, NEW c \in Client, NEW r \in Replica, PutSet(c, r)
  PROVE  Inv'
<1>0. PICK n : n = NextPut
  OBVIOUS
<1>1. /\ type = "SET" /\ n <= MaxPuts /\ Record(c, 0, {n}, PutsOf(c))
      /\ PutTo(r, {n}) /\ UNCHANGED <<type, store, absorbed>>
  BY <1>0 DEF PutSet
<1>2. Stamped' /\ Clocked' /\ Causal'
  BY <1>1 DEF Stamped, Clocked, Causal
<1>3. Represents({n}, {n})'
  BY <1>1 DEF Represents
<1> QED
  BY <1>0, <1>1, <1>2, <1>3, PutKeeps

LEMMA Incremented ==
  ASSUME NEW clock, IsClock(clock), NEW c
  PROVE  LET new == Increment(clock, c) IN
         /\ IsClock(new)
         /\ DOMAIN new = DOMAIN clock \cup {c}
         /\ \A x \in DOMAIN new : x # c => new[x] = clock[x]
         /\ new[c] = IF c \in DOMAIN clock THEN clock[c] + 1 ELSE 1
<1> DEFINE one == [x \in {c} |-> IF c \in DOMAIN clock THEN clock[c] + 1 ELSE 1]
           new == clock_merge(clock, one)
<1>1. /\ IsClock(one) /\ DOMAIN one = {c}
      /\ one[c] = IF c \in DOMAIN clock THEN clock[c] + 1 ELSE 1
  BY SMTT(60) DEF IsClock
<1> HIDE DEF one
<1>2. IsClock(new) /\ DOMAIN new = DOMAIN clock \cup {c}
  BY <1>1, ClockMerge, SMTT(60)
<1>3. \A x \in DOMAIN new : x # c => new[x] = clock[x]
  BY <1>1 DEF clock_merge
<1>4. new[c] = one[c]
  BY <1>1, SMTT(60) DEF clock_merge, Bigger, IsClock
<1>5. Increment(clock, c) = new
  BY DEF Increment, one
<1> HIDE DEF new
<1> QED
  BY <1>1, <1>2, <1>3, <1>4, <1>5

(* The new PUT has a clock above those it was read from, and its writer's  *)
(* entry is ahead of all the writer's PUTs, which it has read.             *)
LEMMA CausalPut ==
  ASSUME Inv, NEW c \in Client, NEW r \in Replica, NEW clock, NEW read,
         NEW dependency, IsDependency(dependency),
         read \subseteq Put, type = "CAUSAL" => Joins(clock, read),
         PutCausal(c, r, clock, read, dependency)
  PROVE  Inv'
<1>0. PICK n : n = NextPut
  OBVIOUS
<1> DEFINE new == Increment(clock, c)
           payload == [vector_clock |-> new, dependency |-> dependency,
                       value |-> {n}]
           seen == read \cup PutsOf(c)
<1>1. /\ type = "CAUSAL" /\ n <= MaxPuts /\ Record(c, 0, payload, seen)
      /\ PutTo(r, payload) /\ UNCHANGED <<type, store, absorbed>>
      /\ ReadsOwnPut => PutsOf(c) \subseteq read
  BY <1>0 DEF PutCausal
<1>2. payload.vector_clock = new /\ payload.dependency = dependency /\ payload.value = {n}
  OBVIOUS
<1>3. /\ IsClock(clock) /\ IsClock(new)
      /\ DOMAIN new = DOMAIN clock \cup {c}
      /\ \A x \in DOMAIN new : x # c => new[x] = clock[x]
      /\ new[c] = IF c \in DOMAIN clock THEN clock[c] + 1 ELSE 1
  <2>1. IsClock(clock)
    BY <1>1 DEF Joins
  <2> QED
    BY <2>1, Incremented
<1> HIDE DEF new, payload, seen
<1>4. /\ n \notin Put /\ Put' = Put \cup {n}
      /\ \A u \in Put : puts'[u] = puts[u] /\ past'[u] = past[u]
      /\ puts'[n] = [by |-> c, time |-> 0, payload |-> payload]
      /\ past'[n] = seen \cup UNION {past[v] : v \in seen}
  BY <1>0, <1>1, Recorded, SMTT(60) DEF Inv
<1>5. /\ ClockOf(n)' = new /\ DependencyOf(n)' = dependency /\ puts'[n].by = c
      /\ \A u \in Put : /\ ClockOf(u)' = ClockOf(u) /\ DependencyOf(u)' = DependencyOf(u)
                        /\ puts'[u].by = puts[u].by
  BY <1>4, <1>2, SMTT(60) DEF ClockOf, DependencyOf
<1>6. \A u \in Put :
        /\ IsClock(ClockOf(u)) /\ IsDependency(DependencyOf(u))
        /\ puts[u].by \in DOMAIN ClockOf(u)
        /\ \A x \in DOMAIN ClockOf(u) :
             \E v \in PutsOf(x) : x \in DOMAIN ClockOf(v) /\ ClockOf(u)[x] <= ClockOf(v)[x]
  BY <1>1 DEF Inv, Clocked
<1>7. /\ \A x : PutsOf(x) \subseteq Put /\ PutsOf(x) \subseteq PutsOf(x)'
      /\ n \in PutsOf(c)'
  BY <1>4, <1>5 DEF PutsOf
<1>8. \A x \in DOMAIN clock : \E u \in read : x \in DOMAIN ClockOf(u) /\ ClockOf(u)[x] = clock[x]
  BY <1>1 DEF Joins
<1>9. Clocked'
  <2> SUFFICES ASSUME NEW u \in Put'
               PROVE  /\ IsClock(ClockOf(u))' /\ IsDependency(DependencyOf(u))'
                      /\ puts'[u].by \in DOMAIN ClockOf(u)'
                      /\ \A x \in DOMAIN ClockOf(u)' : \E v \in PutsOf(x)' :
                           /\ x \in DOMAIN ClockOf(v)'
                           /\ ClockOf(u)'[x] <= ClockOf(v)'[x]
    BY DEF Clocked
  <2>1. CASE u \in Put
    BY <1>5, <1>6, <1>7, <2>1
  <2>2. CASE u = n
    <3>1. ASSUME NEW x \in DOMAIN new
          PROVE  \E v \in PutsOf(x)' : x \in DOMAIN ClockOf(v)' /\ new[x] <= ClockOf(v)'[x]
      <4>1. CASE x = c
        BY <1>3, <1>5, <1>7, <3>1, <4>1, SMTT(60) DEF IsClock
      <4>2. CASE x # c
        <5>1. x \in DOMAIN clock /\ new[x] = clock[x]
          BY <1>3, <4>2
        <5>2. PICK w \in read : x \in DOMAIN ClockOf(w) /\ ClockOf(w)[x] = clock[x]
          BY <1>8, <5>1
        <5>3. PICK v \in PutsOf(x) : x \in DOMAIN ClockOf(v) /\ ClockOf(w)[x] <= ClockOf(v)[x]
          BY <1>6, <5>2
        <5> QED
          BY <1>5, <1>7, <5>1, <5>2, <5>3
      <4> QED
        BY <4>1, <4>2
    <3> QED
      BY <1>3, <1>5, <2>2, <3>1
  <2> QED
    BY <1>4, <2>1, <2>2
<1>10. Causal'
  <2> SUFFICES ASSUME ReadsOwnPut, NEW u \in Put', NEW w \in Put',
                      puts'[u].by \in DOMAIN ClockOf(w)',
                      ClockOf(u)'[puts'[u].by] <= ClockOf(w)'[puts'[u].by]
               PROVE  u = w \/ u \in past'[w]
    BY DEF Causal
  <2>0. PutsOf(c) \subseteq read
    BY <1>1
  <2>1. CASE u \in Put /\ w \in Put
    BY <1>1, <1>4, <1>5, <2>1 DEF Inv, Causal
  <2>2. CASE u = n /\ w \in Put
    <3>1. c \in DOMAIN ClockOf(w) /\ new[c] <= ClockOf(w)[c]
      BY <1>5, <2>2
    <3>2. PICK v \in PutsOf(c) : c \in DOMAIN ClockOf(v) /\ ClockOf(w)[c] <= ClockOf(v)[c]
      BY <1>6, <2>2, <3>1
    <3>3. c \in DOMAIN clock /\ ClockOf(v)[c] <= clock[c]
      BY <1>1, <2>0, <3>2 DEF Joins, AtMost
    <3>4. /\ clock[c] \in Nat /\ ClockOf(v)[c] \in Nat /\ ClockOf(w)[c] \in Nat
          /\ new[c] = clock[c] + 1
      BY <1>3, <1>6, <1>7, <2>2, <3>1, <3>2, <3>3 DEF IsClock
    <3> QED
      BY <3>1, <3>2, <3>3, <3>4, SMTT(60)
  <2>3. CASE u \in Put /\ w = n
    <3> DEFINE x == puts[u].by
    <3>1. CASE x = c
      BY <1>4, <2>3, <3>1 DEF PutsOf, seen
    <3>2. CASE x # c
      <4>1. x \in DOMAIN clock /\ ClockOf(u)[x] <= clock[x]
        BY <1>3, <1>5, <2>3, <3>2
      <4>2. PICK v \in read : x \in DOMAIN ClockOf(v) /\ ClockOf(v)[x] = clock[x]
        BY <1>8, <4>1
      <4>3. u = v \/ u \in past[v]
        BY <1>1, <2>3, <4>1, <4>2 DEF Inv, Causal
      <4> QED
        BY <1>4, <2>3, <4>3 DEF seen
    <3> QED
      BY <3>1, <3>2
  <2> QED
    BY <1>4, <2>1, <2>2, <2>3
<1>11. Stamped'
  BY <1>1 DEF Stamped
<1>12. Represents(payload, {n})'
  <2>1. Joins(new, {n})'
    BY <1>3, <1>5, SMTT(60) DEF Joins, AtMost, IsClock
  <2>2. Covers(dependency, dependency)
    <3>1. \A k \in DOMAIN dependency : IsClock(dependency[k])
      BY DEF IsDependency
    <3> QED
      BY <3>1, SMTT(60) DEF Covers, AtMost, IsClock
  <2>3. Maximal({n})' \subseteq {n}
    BY DEF Maximal
  <2>4. CausalOf(payload, {n})'
    BY <1>2, <1>5, <2>1, <2>2, <2>3 DEF CausalOf
  <2> QED
    BY <1>1, <2>4 DEF Represents
<1> QED
  BY <1>0, <1>1, <1>9, <1>10, <1>11, <1>12, PutKeeps

------------------------------------------------------------------------------
LEMMA GossipSent ==
  ASSUME Inv, NEW r \in Replica, NEW s \in Replica, SendGossip(r, s)
  PROVE  Inv'
<1> DEFINE new == [to |-> s, from |-> r, payload |-> store[r], of |-> absorbed[r]]
<1>1. Found(store[r]) /\ msgs' = msgs \cup {new}
  BY DEF SendGossip
<1>2. UNCHANGED <<type, store, puts, absorbed, past>>
  BY DEF SendGossip
<1>3. new.to = s /\ new.of = absorbed[r] /\ new.payload = store[r]
  OBVIOUS
<1> HIDE DEF new
<1>4. new.to \in Replica /\ new.of \subseteq Put /\ new.of # {}
  BY <1>1, <1>3 DEF Inv, Shape
<1>5. Shape' /\ Stamped' /\ Clocked' /\ Causal'
  <2>1. Shape'
    BY <1>1, <1>2, <1>4 DEF Inv, Shape, Put, Found
  <2> QED
    BY <1>2, <2>1 DEF Inv, Stamped, Clocked, Causal, Put, PutsOf, Stamp, ClockOf,
                      DependencyOf
<1>6. \A A \in SUBSET Put : \A e : Represents(e, A) => Represents(e, A)'
  BY <1>2, RepresentsKept
<1>7. \A m \in msgs \cup {new} : m.of \in SUBSET Put /\ Represents(m.payload, m.of)
  BY <1>3, <1>4 DEF Inv, Shape
<1>8. \A q \in Replica : absorbed[q] \in SUBSET Put /\ Represents(store[q], absorbed[q])
  BY DEF Inv, Shape
<1> QED
  BY <1>1, <1>2, <1>5, <1>6, <1>7, <1>8 DEF Inv

(* A store that has changed represents the PUTs that it is said to.        *)
LEMMA StoreKeeps ==
  ASSUME Inv, NEW r \in Replica, NEW e, NEW A \in SUBSET Put,
         Represents(e, A), Found(e) => A # {},
         store' = [store EXCEPT ![r] = e], absorbed' = [absorbed EXCEPT ![r] = A],
         msgs' \subseteq msgs, UNCHANGED <<type, puts, past>>
  PROVE  Inv'
<1>1. /\ store = [q \in Replica |-> store[q]] /\ absorbed \in [Replica -> SUBSET Put]
      /\ \A q \in Replica : Found(store[q]) => absorbed[q] # {}
  BY DEF Inv, Shape
<1>2. \A q \in Replica :
        \/ q = r /\ store'[q] = e /\ absorbed'[q] = A
        \/ q # r /\ store'[q] = store[q] /\ absorbed'[q] = absorbed[q]
  BY <1>1
<1>3. Shape'
  <2>1. store' = [q \in Replica |-> store'[q]] /\ absorbed' \in [Replica -> SUBSET Put]
    BY <1>1
  <2>2. \A q \in Replica : (Found(store[q]) => absorbed[q] # {})'
    BY <1>1, <1>2 DEF Found
  <2> QED
    BY <2>1, <2>2 DEF Inv, Shape, Put
<1>4. Stamped' /\ Clocked' /\ Causal'
  BY DEF Inv, Stamped, Clocked, Causal, Put, PutsOf, Stamp, ClockOf, DependencyOf
<1>5. \A B \in SUBSET Put : \A x : Represents(x, B) => Represents(x, B)'
  BY RepresentsKept
<1>6. \A q \in Replica : absorbed[q] \in SUBSET Put /\ Represents(store[q], absorbed[q])
  BY DEF Inv, Shape
<1>7. \A q \in Replica : Represents(store[q], absorbed[q])'
  BY <1>2, <1>5, <1>6
<1>8. \A m \in msgs' : Represents(m.payload, m.of)'
  BY <1>5 DEF Inv, Shape
<1> QED
  BY <1>3, <1>4, <1>7, <1>8 DEF Inv

LEMMA DefaultRepresents ==
  ASSUME type \in Types
  PROVE  Represents(Default(type), {}) /\ ~ Found(Default(type))
<1>1. CASE type = "LWW"
  BY <1>1 DEF Represents, LwwOf, Default, Found, NoValue
<1>2. CASE type = "SET"
  BY <1>2 DEF Represents, Default, Found
<1>3. CASE type = "CAUSAL"
  <2>1. /\ Default(type).vector_clock = EmptyMap /\ Default(type).dependency = EmptyMap
        /\ Default(type).value = {}
    BY <1>3 DEF Default
  <2>2. IsDependency(EmptyMap) /\ Joins(EmptyMap, {}) /\ DOMAIN EmptyMap = {}
    BY DEF EmptyMap, IsDependency, Joins, IsClock
  <2>3. CausalOf(Default(type), {})
    BY <2>1, <2>2 DEF CausalOf, Maximal
  <2> QED
    BY <1>3, <2>1, <2>3 DEF Represents, Found
<1> QED
  BY <1>1, <1>2, <1>3, SerializersAssumption

LEMMA InitInv ==
  ASSUME Init
  PROVE  Inv
<1>1. Put = {}
  BY DEF Init, Put, EmptyMap
<1>2. \A r \in Replica : store[r] = Default(type) /\ absorbed[r] = {}
  BY DEF Init
<1>3. Represents(Default(type), {}) /\ ~ Found(Default(type)) /\ type \in Types
  BY DefaultRepresents DEF Init
<1>4. Shape
  <2>1. \E n \in 0 .. MaxPuts : Put = 1 .. n
    <3>1. 0 \in 0 .. MaxPuts /\ 1 .. 0 = {}
      BY SerializersAssumption, SMTT(60)
    <3> QED
      BY <1>1, <3>1
  <2>2. DOMAIN past = Put
    BY <1>1 DEF Init, EmptyMap
  <2>3. store = [r \in Replica |-> store[r]] /\ absorbed \in [Replica -> SUBSET Put]
    BY DEF Init
  <2> QED
    BY <1>1, <1>2, <1>3, <2>1, <2>2, <2>3 DEF Shape, Init
<1> QED
  BY <1>1, <1>2, <1>3, <1>4 DEF Inv, Stamped, Clocked, Causal, Init

LEMMA StepInv ==
  ASSUME Inv, [Next]_vars
  PROVE  Inv'
<1>1. ASSUME NEW c \in Client, NEW r \in Replica, NEW time \in 1 .. MaxTime,
             PutLWW(c, r, time)
      PROVE  Inv'
  BY <1>1, LwwPut
<1>2. ASSUME NEW c \in Client, NEW r \in Replica, PutSet(c, r)
      PROVE  Inv'
  BY <1>2, SetPut
<1>3. ASSUME NEW c \in Client, NEW d \in Dependencies(c)
      PROVE  IsDependency(d)
  <2>1. d = EmptyMap \/ d = [k \in {DepKey} |-> [x \in {c} |-> 1]]
    BY DEF Dependencies
  <2>2. IsDependency(EmptyMap)
    BY DEF IsDependency, EmptyMap
  <2>3. IsDependency([k \in {DepKey} |-> [x \in {c} |-> 1]])
    BY DEF IsDependency, IsClock
  <2> QED
    BY <2>1, <2>2, <2>3
<1>4. ASSUME NEW c \in Client, NEW r \in Replica, NEW d \in Dependencies(c),
             PutCausal(c, r, EmptyMap, {}, d)
      PROVE  Inv'
  <2>1. Joins(EmptyMap, {})
    BY DEF EmptyMap, Joins, IsClock
  <2> QED
    BY <1>3, <1>4, <2>1, CausalPut, SMTT(60)
<1>5. ASSUME NEW c \in Client, NEW r \in Replica, NEW d \in Dependencies(c),
             NEW s \in Replica,
             PutCausal(c, r, store[s].vector_clock, absorbed[s], d)
      PROVE  Inv'
  <2>1. /\ absorbed[s] \subseteq Put
        /\ type = "CAUSAL" => Joins(store[s].vector_clock, absorbed[s])
    BY DEF Inv, Shape, Represents, CausalOf
  <2> QED
    BY <1>3, <1>5, <2>1, CausalPut
<1>6. ASSUME NEW r \in Replica, NEW s \in Replica, SendGossip(r, s)
      PROVE  Inv'
  BY <1>6, GossipSent
<1>7. ASSUME NEW m \in msgs, ProcessPut(m)
      PROVE  Inv'
  <2>1. /\ m.to \in Replica /\ m.of # {} /\ m.of \subseteq Put
        /\ absorbed[m.to] \cup m.of \in SUBSET Put
        /\ absorbed \in [Replica -> SUBSET Put]
    BY DEF Inv, Shape
  <2>2. Represents(put(m.to, m.payload), absorbed[m.to] \cup m.of)
    BY PutRepresents
  <2>3. absorbed' = [absorbed EXCEPT ![m.to] = absorbed[m.to] \cup m.of]
    BY <1>7 DEF ProcessPut
  <2>4. /\ store' = [store EXCEPT ![m.to] = put(m.to, m.payload)]
        /\ msgs' \subseteq msgs /\ UNCHANGED <<type, puts, past>>
    BY <1>7 DEF ProcessPut
  <2> QED
    BY <2>1, <2>2, <2>3, <2>4, StoreKeeps
<1>8. ASSUME NEW r \in Replica, RemoveKey(r)
      PROVE  Inv'
  <2>1. Represents(Default(type), {}) /\ ~ Found(Default(type))
    BY DefaultRepresents DEF Inv, Shape
  <2> QED
    BY <1>8, <2>1, StoreKeeps DEF RemoveKey
<1>9. CASE UNCHANGED vars
  <2>1. UNCHANGED <<type, store, msgs, puts, absorbed, past>>
    BY <1>9 DEF vars
  <2>2. \A A \in SUBSET Put : \A e : Represents(e, A) => Represents(e, A)'
    BY <2>1, RepresentsKept
  <2>3. Shape' /\ Stamped' /\ Clocked' /\ Causal'
    BY <2>1 DEF Inv, Shape, Stamped, Clocked, Causal, Put, PutsOf, Stamp, ClockOf,
                DependencyOf, Found
  <2> QED
    BY <2>1, <2>2, <2>3 DEF Inv, Shape
<1> QED
  BY <1>1, <1>2, <1>4, <1>5, <1>6, <1>7, <1>8, <1>9 DEF Next

------------------------------------------------------------------------------
(* Every store and every payload in flight represents the PUTs that went   *)
(* into it, whatever the serializers merge and in whatever order.          *)
THEOREM StoresRepresent == Spec => []Inv
  BY InitInv, StepInv, PTL DEF Spec

(* The order of the times is that of the timestamps when all writers have  *)
(* ids of the same number of digits.                                       *)
SameWidth == Client \subseteq 0 .. 9 \/ Client \subseteq 10 .. 99

LEMMA LaterStamped ==
  ASSUME SameWidth, Inv, type = "LWW", NEW u \in Put, NEW v \in Put, Later(u, v)
  PROVE  Stamp(v) < Stamp(u)
<1>1. /\ puts[u].time \in Nat /\ puts[v].time \in Nat
      /\ puts[u].by \in Client /\ puts[v].by \in Client
      /\ Stamp(u) = generate_timestamp(puts[u].time, puts[u].by)
      /\ Stamp(v) = generate_timestamp(puts[v].time, puts[v].by)
  BY DEF Inv, Shape, Stamped
<1> DEFINE s == puts[u].time
           t == puts[v].time
           a == puts[u].by
           b == puts[v].by
<1>2. s \in Nat /\ t \in Nat /\ (s > t \/ (s = t /\ a > b))
  BY <1>1 DEF Later
<1>3. CASE Client \subseteq 0 .. 9
  <2>1. a \in 0 .. 9 /\ b \in 0 .. 9
    BY <1>1, <1>3
  <2>2. Stamp(u) = s * 10 + a /\ Stamp(v) = t * 10 + b
    BY <1>1, <2>1, SMTT(60) DEF generate_timestamp
  <2> HIDE DEF s, t, a, b
  <2> QED
    BY <1>2, <2>1, <2>2, SMTT(60)
<1>4. CASE Client \subseteq 10 .. 99
  <2>1. a \in 10 .. 99 /\ b \in 10 .. 99
    BY <1>1, <1>4
  <2>2. Stamp(u) = s * 100 + a /\ Stamp(v) = t * 100 + b
    BY <1>1, <2>1, SMTT(60) DEF generate_timestamp
  <2> HIDE DEF s, t, a, b
  <2> QED
    BY <1>2, <2>1, <2>2, SMTT(60)
<1> QED
  BY <1>3, <1>4 DEF SameWidth

(* A replica in memory keeps the last of the LWW PUTs that reached it      *)
(* (LWWPairLattice::do_merge), in whatever order PUTs and gossip come, if  *)
(* the thread ids that generate_timestamp writes behind the time are all   *)
(* of one width.                                                           *)
THEOREM LatestRegister ==
  ASSUME RegistersInMemory, SameWidth
  PROVE  Spec => []LatestKept
<1>1. Inv => LatestKept
  <2> SUFFICES ASSUME Inv, type = "LWW", NEW r \in Replica, absorbed[r] # {}
               PROVE  /\ store[r].value \in absorbed[r]
                      /\ ~ \E u \in absorbed[r] : Later(u, store[r].value)
    BY DEF LatestKept
  <2>1. absorbed[r] \subseteq Put /\ LwwOf(store[r], absorbed[r])
    BY DEF Inv, Shape, Represents
  <2>2. store[r].value \in absorbed[r]
    BY <2>1 DEF LwwOf
  <2>3. ASSUME NEW u \in absorbed[r], Later(u, store[r].value)
        PROVE  FALSE
    <3>1. Stamp(store[r].value) < Stamp(u)
      BY <2>1, <2>2, <2>3, LaterStamped
    <3>2. Stamp(u) <= Stamp(store[r].value)
      BY <2>1 DEF LwwOf
    <3>3. Stamp(u) \in Nat /\ Stamp(store[r].value) \in Nat
      BY <2>1, <2>2, StampType DEF Inv
    <3> QED
      BY <3>1, <3>2, <3>3, SMTT(60)
  <2> QED
    BY <2>2, <2>3
<1> QED
  BY <1>1, StoresRepresent, PTL

(* A replica stores every PUT that reached it and that no other such PUT   *)
(* had seen, and only PUTs that reached it (CausalPairLattice and          *)
(* SetLattice do_merge), if a client has read its own last PUT of the key  *)
(* before the next.                                                        *)
THEOREM ConcurrentWrites ==
  ASSUME ReadsOwnPut
  PROVE  Spec => []ConcurrentKept
<1>1. Inv => ConcurrentKept
  BY DEF Inv, Represents, CausalOf, ConcurrentKept
<1> QED
  BY <1>1, StoresRepresent, PTL

(* The dependencies stored with a causal value cover those of every PUT    *)
(* whose value is still there (CrossCausalLattice::do_merge).              *)
THEOREM DependenciesMerged == Spec => []DependenciesCovered
<1>1. Inv => DependenciesCovered
  <2> SUFFICES ASSUME Inv, type = "CAUSAL", NEW r \in Replica, NEW u \in store[r].value
               PROVE  dependency_merge(store[r].dependency, puts[u].payload.dependency)
                        = store[r].dependency
    BY DEF DependenciesCovered
  <2>1. CausalOf(store[r], absorbed[r]) /\ absorbed[r] \subseteq Put
    BY DEF Inv, Shape, Represents
  <2>2. /\ IsDependency(store[r].dependency) /\ IsDependency(DependencyOf(u))
        /\ Covers(store[r].dependency, DependencyOf(u))
    BY <2>1 DEF CausalOf, Inv, Clocked
  <2> QED
    BY <2>2, CoversIsMerged DEF DependencyOf
<1> QED
  BY <1>1, StoresRepresent, PTL
=============================================================================
