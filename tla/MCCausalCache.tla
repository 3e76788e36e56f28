---------------------------- MODULE MCCausalCache ----------------------------
(* Two function nodes.  Version a1 depends on the second version of kb, c1 *)
(* depends on a1.  x1 is a write of ka concurrent with a1, made on node n2 *)
(* where the second function of dag d1 then reads ka.                      *)
EXTENDS CausalCache

CONSTANTS n1, n2, ka, kb, kc, a1, b1, b2, c1, x1, s1, s2, r1, r2, i, j, d1, d2

MCKeyOf == a1 :> ka @@ b1 :> kb @@ b2 :> kb @@ c1 :> kc @@ x1 :> ka
MCClock == a1 :> {a1} @@ b1 :> {b1} @@ b2 :> {b1, b2}
           @@ c1 :> {c1} @@ x1 :> {x1}
Needs == a1 :> {b1, b2} @@ b1 :> {} @@ b2 :> {} @@ c1 :> {a1} @@ x1 :> {b1}
MCDep == [w \in Write |-> [k \in Key |-> {x \in Needs[w] : MCKeyOf[x] = k}]]
MCPutAt == x1 :> n2
MCAt == r1 :> n1 @@ r2 :> n2 @@ s1 :> n2 @@ s2 :> n2
MCId == r1 :> i @@ r2 :> i @@ s1 :> j @@ s2 :> j
MCKind == r1 :> "CROSS" @@ r2 :> "CROSS" @@ s1 :> "SINGLE" @@ s2 :> "SINGLE"
MCKeys == r1 :> {kb, kc} @@ r2 :> {ka, kb} @@ s1 :> {kb} @@ s2 :> {ka, kb}
MCFuture == r1 :> {ka, kb} @@ r2 :> {} @@ s1 :> {} @@ s2 :> {}
MCDag == r1 :> d1 @@ r2 :> d1 @@ s1 :> d2 @@ s2 :> d2
MCAfter == r1 :> {} @@ r2 :> {r1} @@ s1 :> {} @@ s2 :> {}
=============================================================================
