----------------------------- MODULE MCKvsClient -----------------------------
(* Two memory nodes with one thread each, or these and an EBS node (e1),   *)
(* and one key.                                                            *)
EXTENDS KvsClient, SequencesExt

CONSTANTS m1, m2, e1, a, p1, pa, g1, ga

Walk == m1 :> 2 @@ m2 :> 1 @@ e1 :> 3
MCTierOf == [n \in Node |-> IF n = e1 THEN 2 ELSE 1]
MCDataRank == [k \in Key |-> [n \in Node |-> Walk[n]]]
MCMetaRank == [k \in Key |-> [n \in Node |-> Walk[n]]]
MCTidRank == [k \in Key |-> [t \in Tid |-> t]]
(* One replica in the memory tier; two; one in the EBS tier only.          *)
Some == 0 :> [global |-> <<1, 0>>, local |-> <<1, 1>>]
        @@ 1 :> [global |-> <<2, 0>>, local |-> <<1, 1>>]
        @@ 2 :> [global |-> <<0, 1>>, local |-> <<1, 1>>]
MCRepOf == [v \in Version |-> Some[v]]
MCKeyOf == [c \in Call |-> a]
MCType == [c \in Call |-> IF c \in {p1, pa} THEN "put" ELSE "get"]
(* p1 is put_set, the others are put and put_all of the default type.     *)
MCLatticeOf == [c \in Call |-> IF c = p1 THEN "SET" ELSE "LWW"]
MCSorted == [ws \in SUBSET Thread |-> SetToSeq(ws)]
MCMany == [c \in Call |-> c \in {pa, ga}]
=============================================================================
