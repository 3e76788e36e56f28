---------------------------- MODULE MCKvsElastic ----------------------------
(* Instances of KvsElastic: memory nodes with one or two threads each.     *)
EXTENDS KvsElastic, TLC

CONSTANTS n1, n2, n3, k1, k2, r1, r2, r3, LWW, SET

MCTid == {0}
TwoTids == {0, 1}
MCTier == {0, 1}
MCTierOf == [n \in Node |-> 0]

(* n1 comes last on the walk of k1 and n2 first, so that n2 takes k1 over  *)
(* when it joins; n3 takes k2.                                             *)
MCDataRank ==
  [k \in Key |-> [n \in Node |->
     IF n = n1 THEN 2 ELSE IF (n = n2) <=> (k = k1) THEN 1 ELSE 3]]
MCMetaRank == [k \in Key |-> [n \in Node |-> IF n = n1 THEN 1 ELSE IF n = n2 THEN 2 ELSE 3]]
MetaMoves == [k \in Key |-> [n \in Node |-> IF n = n1 THEN 3 ELSE IF n = n2 THEN 1 ELSE 2]]
MCTidRank == [k \in Key |-> [t \in Tid |-> t]]

Rep(m, e) == [global |-> (0 :> m @@ 1 :> e), local |-> (0 :> 1 @@ 1 :> 1)]
One == (0 :> Rep(1, 0))
TwoSame == (0 :> Rep(1, 0) @@ 1 :> Rep(1, 0))
Two == (0 :> Rep(2, 0))
Grown == (0 :> Rep(1, 0) @@ 1 :> Rep(2, 0))

MCOp == [r \in Request |-> "PUT"]
(* r3 is about k2 where there are two keys.                                *)
MCKeyOf == [r \in Request |-> IF r = r3 /\ k2 \in Key THEN k2 ELSE k1]
MCTypeOf == [r \in Request |-> LWW]
MixedTypes == [r \in Request |-> IF r = r1 THEN LWW ELSE SET]
MCHasAddr == [r \in Request |-> r = r1]
SendOnce == [r \in Request |-> 1]
SendTwice == [r \in Request |-> 2]
NoRestart == [n \in Node |-> 0]
RestartBoth == [n \in Node |-> 1]
=============================================================================
