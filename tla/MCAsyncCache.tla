---------------------------- MODULE MCAsyncCache -----------------------------
(* Instances of AsyncCache: two executor threads, up to three keys and the *)
(* cache's metadata key, two storage servers on different nodes.           *)
EXTENDS AsyncCache

CONSTANTS t1, t2, a, b, kc, meta, w1, w2, g1, g2, g3, p1, p2, p3, p4, f1, f3

MCOpThread == [o \in Op \cup Foreign |-> IF o \in {g1, g2, g3} THEN t1 ELSE t2]
MCOpKind == [o \in Op \cup Foreign |-> IF o \in {g1, g2, g3} THEN "get" ELSE "put"]
MCOpKeys == [o \in Op \cup Foreign |->
               IF o = g3 THEN <<a, b>> ELSE IF o \in {p3, f3} THEN <<b>>
               ELSE IF o = p4 THEN <<kc>> ELSE <<a>>]
MCOpType == [o \in Op \cup Foreign |-> IF o = p2 THEN "SET" ELSE "LWW"]
MCNodeOfW == [w \in Worker |-> w]
OneReplica == {{w1}}
OtherOrNone == {{w2}, {}}
(* Two of the faults that make the client repeat a request, or one other.  *)
MCFaultCost ==
  [f \in {"lose", "early", "redirect", "ipc", "report", "noServers",
          "invalidate"} |-> IF f \in {"lose", "early", "redirect"} THEN 1 ELSE 2]
=============================================================================
