---------------------------- MODULE MCKvsServer -----------------------------
(* Instances of KvsServer: two or three nodes with one or two threads      *)
(* each, one key.  n1 comes first on the walk of the key, n3 on that of    *)
(* its metadata key, so that lookups cross the network.                    *)
EXTENDS KvsServer, TLC

CONSTANTS n1, n2, n3, k1, r1, r2, r3, LWW

MCTid == {0}
TwoTids == {0, 1}
MCTier == {0, 1}
MCTierOf == [n \in Node |-> 0]
TwoTiers == [n \in Node |-> IF n = n2 THEN 1 ELSE 0]
MCDataRank == [k \in Key |-> [n \in Node |-> IF n = n1 THEN 1 ELSE IF n = n2 THEN 2 ELSE 3]]
MCMetaRank == [k \in Key |-> [n \in Node |-> IF n = n3 THEN 1 ELSE IF n = n1 THEN 2 ELSE 3]]
MCTidRank == [k \in Key |-> [t \in Tid |-> 1 - t]]

(* Replication factors: m memory and e EBS replicas, one thread each.      *)
Rep(m, e) == [global |-> (0 :> m @@ 1 :> e), local |-> (0 :> 1 @@ 1 :> 1)]

(* r1 is a PUT, r2 a PUT without a response address, r3 a GET.             *)
MCOp == [r \in Request |-> IF r = r3 THEN "GET" ELSE "PUT"]
MCKeyOf == [r \in Request |-> k1]
MCTypeOf == [r \in Request |-> LWW]
MCHasAddr == [r \in Request |-> r # r2]
SendOnce == [r \in Request |-> 1]

FixedRep == (0 :> Rep(2, 0))
GrowShrink == (0 :> Rep(1, 0) @@ 1 :> Rep(2, 0) @@ 2 :> Rep(1, 0))
DemotePromote == (0 :> Rep(1, 0) @@ 1 :> Rep(0, 1) @@ 2 :> Rep(1, 0))
=============================================================================
