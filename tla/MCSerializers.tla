---------------------------- MODULE MCSerializers ----------------------------
(* Instances of Serializers: two or three replicas, two writers.           *)
EXTENDS Serializers

CONSTANTS m1, d1, k2

(* Registers are kept in memory only, where DISK_PUT needs no file; the    *)
(* other types on one server of each tier.                                 *)
MCDisk == [t \in Types |-> IF t = "LWW" THEN {} ELSE {d1}]
OnDisk == [t \in Types |-> {d1}]
==============================================================================
