-------------------------- MODULE MCFunctionRuntime --------------------------
(* A DAG of two sources and a sink, and two that share the sink.           *)
EXTENDS FunctionRuntime, TLC

CONSTANTS s1, s2, e1, e2, e3, ff, fg, fh, join, pair, sink, c1, c2, c3, c4, x1, x2, x3, x4

MCIpOf == [e \in Exec |-> IF e = e1 THEN "ip1" ELSE "ip2"]
MCFunctions == join :> <<ff, fg, fh>> @@ pair :> <<fg, fh>> @@ sink :> <<fh>>
MCConnections == join :> {<<ff, fh>>, <<fg, fh>>} @@ pair :> {<<fg, fh>>} @@ sink :> {}
MCCalledDag == c1 :> join @@ c2 :> pair @@ c3 :> sink @@ c4 :> pair

create(s, d) == [kind |-> "create", at |-> s, dag |-> d]
delete(s, d) == [kind |-> "delete", at |-> s, dag |-> d]
call(s, c) == [kind |-> "call", at |-> s, call |-> c]
report(p, n) == [kind |-> "report", who |-> p, nth |-> n]
replicate(x, n) == [kind |-> "replicate", func |-> x, nth |-> n]
dereplicate(x) == [kind |-> "dereplicate", func |-> x]
remove(ip) == [kind |-> "remove", ip |-> ip]
fault(x) == [kind |-> x]

one(E) == [schedulers |-> {s1}, reported |-> {}, events |-> E]
two(E) == [schedulers |-> {s1, s2}, reported |-> {}, events |-> E]
depart == one({create(s1, sink), call(s1, c3), report(e1, 1), remove("ip1"), report(e1, 2)})
MCDepart == {depart}

MCScenario == {
  (* A DAG whose sink waits for two sources.                               *)
  one({create(s1, join), call(s1, c1)}),
  (* A pin that is answered late.                                          *)
  one({create(s1, pair), call(s1, c2), fault("late")}),
  (* Two calls at once, and a function that raises an exception.           *)
  one({create(s1, pair), call(s1, c2), call(s1, c4), fault("raise")}),
  (* Not enough executors for two DAGs, and a call of an unknown DAG.      *)
  one({create(s1, sink), create(s1, join), call(s1, c1)}),
  (* Another scheduler learns of the DAG and calls it; it is deleted.      *)
  two({create(s1, sink), report(s1, 1), call(s2, c3), delete(s1, sink)}),
  two({create(s1, pair), report(s1, 1), call(s2, c2)}),
  (* Two schedulers create DAGs.                                           *)
  two({create(s1, sink), report(s1, 1), create(s2, sink)}),
  two({create(s1, sink), create(s2, pair)}),
  (* DAGs that share a function.                                           *)
  one({create(s1, sink), create(s1, pair), call(s1, c3), delete(s1, pair)}),
  one({create(s1, sink), create(s1, pair), delete(s1, pair), delete(s1, sink)}),
  (* A function is missing from the KVS when it is pinned or called.       *)
  one({create(s1, pair), call(s1, c2), fault("missing")}),
  one({call(s1, x1), call(s1, x2), fault("missing")}),
  (* Calls of single functions, more than there are executors.             *)
  one({call(s1, x1), call(s1, x2), call(s1, x3), call(s1, x4)}),
  (* An executor that has run a function departs; its DAG may be deleted.  *)
  depart,
  one({create(s1, sink), delete(s1, sink), report(e1, 1), remove("ip1")}),
  (* A node with two idle executors is removed.                            *)
  one({report(e2, 1), report(e3, 1), remove("ip2"), report(e2, 2), report(e3, 2)}),
  (* A function is replicated and the replicas are reduced.                *)
  [one({create(s1, sink), report(e1, 1), report(e2, 1), report(e3, 1), replicate(fh, 1),
        replicate(fh, 2), dereplicate(fh)}) EXCEPT !.reported = {e2, e3}]}
=============================================================================
