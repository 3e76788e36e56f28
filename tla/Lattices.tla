------------------------------- MODULE Lattices -------------------------------
(***************************************************************************)
(* The lattice types a key can have (include/lattices) and their merges.   *)
(* An element is what reveal() returns; the default element of a type is   *)
(* what a key is before its first PUT.  A client's value is a number, and  *)
(* NoValue is the empty string.                                            *)
(***************************************************************************)
EXTENDS Integers

NoValue == 0
Bigger(m, n) == IF m < n THEN n ELSE m

(* Mutant of lww_merge: the timestamps are not compared.                   *)
lww_mergeAlways(e, p) == p

(* LWWPairLattice::do_merge: the incoming pair also wins a tie.            *)
lww_merge(e, p) == IF p.timestamp >= e.timestamp THEN p ELSE e

(* SetLattice::do_merge, and OrderedSetLattice's.                          *)
set_merge(e, p) == e \cup p

(* VectorClock, a MapLattice of MaxLattices, and a MapLattice of clocks.   *)
clock_merge(c, d) ==
  [x \in DOMAIN c \cup DOMAIN d |->
     IF x \in DOMAIN c
     THEN IF x \in DOMAIN d THEN Bigger(c[x], d[x]) ELSE c[x]
     ELSE d[x]]

dependency_merge(f, g) ==
  [k \in DOMAIN f \cup DOMAIN g |->
     IF k \in DOMAIN f
     THEN IF k \in DOMAIN g THEN clock_merge(f[k], g[k]) ELSE f[k]
     ELSE g[k]]

(* The two tests of CrossCausalLattice::do_merge and of CausalPairLattice: *)
(* the incoming version dominates, or else the versions are concurrent.    *)
Dominating(e, p) == clock_merge(e.vector_clock, p.vector_clock) = p.vector_clock
Concurrent(e, p) ==
  /\ ~ Dominating(e, p)
  /\ clock_merge(e.vector_clock, p.vector_clock) # e.vector_clock

(* Mutant of causal_merge: concurrent values are not merged.               *)
causal_mergeNoUnion(e, p) ==
  [vector_clock |-> clock_merge(e.vector_clock, p.vector_clock),
   dependency   |-> IF Dominating(e, p) THEN p.dependency ELSE e.dependency,
   value        |-> IF Dominating(e, p) THEN p.value ELSE e.value]

(* Mutant of causal_merge: concurrent dependencies are not merged.         *)
causal_mergeKeepsDependency(e, p) ==
  [vector_clock |-> clock_merge(e.vector_clock, p.vector_clock),
   dependency   |-> IF Dominating(e, p) THEN p.dependency ELSE e.dependency,
   value        |-> IF Dominating(e, p) THEN p.value
                    ELSE IF Concurrent(e, p) THEN set_merge(e.value, p.value)
                    ELSE e.value]

(* CausalPairLattice::do_merge is CrossCausalLattice::do_merge without     *)
(* dependencies, so this is both.                                          *)
causal_merge(e, p) ==
  [vector_clock |-> clock_merge(e.vector_clock, p.vector_clock),
   dependency   |-> IF Dominating(e, p) THEN p.dependency
                    ELSE IF Concurrent(e, p)
                    THEN dependency_merge(e.dependency, p.dependency)
                    ELSE e.dependency,
   value        |-> IF Dominating(e, p) THEN p.value
                    ELSE IF Concurrent(e, p) THEN set_merge(e.value, p.value)
                    ELSE e.value]

EmptyMap == [x \in {} |-> 0]
Default(type) ==
  CASE type = "LWW" -> [timestamp |-> 0, value |-> NoValue]
    [] type = "SET" -> {}
    [] type = "CAUSAL" -> [vector_clock |-> EmptyMap, dependency |-> EmptyMap,
                           value |-> {}]

merge(type, e, p) ==
  CASE type = "LWW" -> lww_merge(e, p)
    [] type = "SET" -> set_merge(e, p)
    [] type = "CAUSAL" -> causal_merge(e, p)
==============================================================================
