------------------------------ MODULE KvsAccess ------------------------------
(***************************************************************************)
(* What an executor is promised about the PUTs it hands to the cache on    *)
(* its node: each is processed by the key-value store before it is         *)
(* acknowledged, and answered once, either by an acknowledgement or by a   *)
(* refusal.  How addresses are found, requests repeated and answers        *)
(* matched is left to module AsyncCache, which implements this one.        *)
(***************************************************************************)
EXTENDS Integers

CONSTANT Put

VARIABLES
  asked,      \* PUTs the cache has taken from an executor
  processed,  \* PUTs a storage server has processed
  answers     \* how many answers each PUT has had

vars == <<asked, processed, answers>>

Init ==
  /\ asked = {}
  /\ processed = {}
  /\ answers = [p \in Put |-> 0]

Ask(p) ==
  /\ p \notin asked
  /\ asked' = asked \cup {p}
  /\ UNCHANGED <<processed, answers>>

(* A PUT whose lattice type is not that of the cached key is refused.      *)
Refuse(p) ==
  /\ p \notin asked
  /\ asked' = asked \cup {p}
  /\ processed' = processed
  /\ answers' = [answers EXCEPT ![p] = 1]

Process(p) ==
  /\ p \in asked \ processed
  /\ processed' = processed \cup {p}
  /\ UNCHANGED <<asked, answers>>

Acknowledge(p) ==
  /\ p \in processed
  /\ answers[p] = 0
  /\ answers' = [answers EXCEPT ![p] = 1]
  /\ UNCHANGED <<asked, processed>>

Next == \E p \in Put : Ask(p) \/ Refuse(p) \/ Process(p) \/ Acknowledge(p)

(* A PUT the cache has taken is processed and acknowledged in the end.     *)
Spec ==
  /\ Init
  /\ [][Next]_vars
  /\ \A p \in Put : WF_vars(answers[p] = 0 /\ Process(p))
  /\ \A p \in Put : WF_vars(Acknowledge(p))
=============================================================================
