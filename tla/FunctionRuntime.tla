--------------------------- MODULE FunctionRuntime ---------------------------
(***************************************************************************)
(* The function runtime: schedulers (functions/scheduler) that pin the     *)
(* functions of a DAG to executor threads and call DAGs, the executors     *)
(* (functions/executor) that run a function when all its predecessors have *)
(* triggered it, and the part of the management server (k8s) that          *)
(* replicates functions and removes executors.                             *)
(*                                                                         *)
(* Which executor a scheduler prefers (cached keys, load, backoff) is      *)
(* left open: any that it may pick.  A process that exits is started again *)
(* in its initial state (start-funcs.sh), and an exception that nothing    *)
(* catches is an exit.                                                     *)
(***************************************************************************)
EXTENDS Integers, Sequences, FiniteSets

CONSTANTS
  Sched, Exec, IpOf, Func,
  DagName, Functions, Connections, \* of each DAG: its functions, in order; <<source, sink>>s
  Call, CalledDag,   \* DAG calls
  Single,            \* calls of a single function
  Scenario,  \* schedulers, executors that have reported to the management server, and
             \* what clients, timers and faults will do, each once
  NoDag, Unknown

VARIABLES
  sched, exec, mgmt,
  pins,        \* pins[e]: pin requests to the executor, in order
  pin_accept,  \* pin_accept[s]: answers to them
  statuses,    \* statuses[e][s]: its status updates to the scheduler
  msgs,        \* all other messages
  schedule,    \* the locations of each DAG call, once it is scheduled
  runs,        \* how often a call has run a function
  results,     \* the calls that have been answered by this sink
  exited,      \* processes that have ever exited
  todo,        \* what is left of the scenario
  faults       \* the faults that have happened

vars == <<sched, exec, mgmt, pins, pin_accept, statuses, msgs, schedule, runs,
          results, exited, todo, faults>>

FuncsOf(d) == {Functions[d][i] : i \in DOMAIN Functions[d]}
Predecessors(d, f) == {c[1] : c \in {x \in Connections[d] : x[2] = f}}
Successors(d, f) == {c[2] : c \in {x \in Connections[d] : x[1] = f}}
Sinks(d) == {f \in FuncsOf(d) : Successors(d, f) = {}}
find_dag_source(d) == {f \in FuncsOf(d) : Predecessors(d, f) = {}}
Triggers(d, f) == IF Predecessors(d, f) = {} THEN {"BEGIN"} ELSE Predecessors(d, f)

(* DAGs are made of known functions, the trigger of a source is none of    *)
(* them, the management server is no scheduler and knows some schedulers,  *)
(* and a call is made once: its id is unique.                              *)
ASSUME DagAssumption ==
  /\ IsFiniteSet(Func) /\ IsFiniteSet(Exec) /\ "BEGIN" \notin Func /\ "management" \notin Sched
  /\ CalledDag \in [Call -> DagName]
  /\ \A d \in DagName :
       Functions[d] \in Seq(Func) /\ Connections[d] \subseteq FuncsOf(d) \X FuncsOf(d)
  /\ \A scenario \in Scenario : scenario.schedulers \subseteq Sched
  /\ \A scenario \in Scenario : \A s, t \in Sched, c \in Call :
       {[kind |-> "call", at |-> s, call |-> c], [kind |-> "call", at |-> t, call |-> c]}
         \subseteq scenario.events => s = t

NewStatus == [running |-> TRUE, functions |-> {}]
NewExecutor ==
  [status |-> NewStatus, departing |-> FALSE, pinned_functions |-> {},
   queued |-> {},   \* the functions that are keys of queue
   queue |-> {}, received_triggers |-> {}]   \* <<call, function>>; ... with the source

Idle == [dag |-> NoDag, i |-> 0, candidates |-> {}, node |-> Unknown, pin_locations |-> {}]
NewScheduler ==
  [creating |-> Idle, dags |-> {}, executors |-> {},
   call_frequency |-> {},    \* its keys
   located |-> {},           \* the keys of func_locations
   func_locations |-> [f \in Func |-> {}],
   thread_statuses |-> [e \in Exec |-> Unknown]]

Push(q, e, status) ==
  [q EXCEPT ![e] = [s \in Sched |-> IF s \in mgmt.schedulers THEN Append(@[s], status) ELSE @[s]]]
Do(event) == event \in todo /\ todo' = todo \ {event}
Fault(kind) == Do([kind |-> kind]) /\ faults' = faults \cup {kind}

UnpinRequest(e) == [kind |-> "unpin", to |-> e]
ExecRequest(c, e) == [kind |-> "exec", to |-> e, call |-> c]
DagSchedule(c, f, e) == [kind |-> "schedule", to |-> e, call |-> c, func |-> f]
DagTrigger(c, source, f, e) ==
  [kind |-> "trigger", to |-> e, call |-> c, source |-> source, func |-> f]
DepartRequest(e) == [kind |-> "depart", to |-> e]
DepartDone(e) == [kind |-> "done", from |-> e]
Utilization(e) == [kind |-> "util", from |-> e, functions |-> exec[e].status.functions]
SchedulerStatus(s, r) ==
  [kind |-> "update", to |-> s, dags |-> r.dags,
   func_locations |-> [f \in Func |-> IF f \in r.located THEN r.func_locations[f] ELSE {}]]

------------------------------------------------------------------------------
(* Executors.                                                              *)

(* The process is gone, and with it the message it has got and perhaps     *)
(* those that were waiting for it; another one starts and announces        *)
(* itself.  The old one has sent the messages in sent, and st and ps are   *)
(* the status updates and the pin requests until now.                      *)
Exit(e, got, sent, st, ps) ==
  /\ exec' = [exec EXCEPT ![e] = NewExecutor]
  /\ LET waiting == {m \in msgs : "to" \in DOMAIN m /\ m.to = e}
     IN \/ msgs' = (msgs \ got) \cup sent /\ pins' = ps
        \/ /\ msgs' = (msgs \ (got \cup waiting)) \cup sent
           /\ pins' = [ps EXCEPT ![e] = <<>>]
  /\ statuses' = Push(st, e, NewStatus)
  /\ exited' = exited \cup {e}

(* The scheduler is told before the function is read from the KVS.  When   *)
(* the read finds nothing or times out, get returns None as the value, and *)
(* the exception ends the process.                                         *)
pin(e) ==
  LET m == Head(pins[e])
      x == exec[e]
      ok == x.pinned_functions = {} /\ x.status.running
      y == IF ok THEN [x EXCEPT !.pinned_functions = {m.func},
                                !.status.functions = @ \cup {m.func}] ELSE x
  IN /\ pins[e] # <<>>
     /\ pin_accept' = IF m.from \in Sched
                      THEN [pin_accept EXCEPT ![m.from] =
                              Append(@, [success |-> ok, node |-> e, func |-> m.func])]
                      ELSE pin_accept
     /\ \/ /\ exec' = [exec EXCEPT ![e] = y]
           /\ pins' = [pins EXCEPT ![e] = Tail(@)]
           /\ statuses' = Push(statuses, e, y.status)
           /\ UNCHANGED <<msgs, exited, todo, faults>>
        \/ /\ ok /\ Fault("missing")
           /\ Exit(e, {}, {}, statuses, [pins EXCEPT ![e] = Tail(@)])
     /\ UNCHANGED <<sched, mgmt, schedule, runs, results>>

unpin(m) ==
  /\ m.kind = "unpin"
  /\ Exit(m.to, {m}, {}, statuses, pins)
  /\ UNCHANGED <<sched, mgmt, pin_accept, schedule, runs, results, todo, faults>>

(* Mutant of exec_function: no status update after the call.               *)
exec_functionQuiet(m) ==
  /\ m.kind = "exec"
  /\ results' = results \cup {<<m.call, "result">>}
  /\ msgs' = msgs \ {m}
  /\ UNCHANGED <<sched, exec, mgmt, pins, pin_accept, statuses, schedule, runs, exited, todo,
                 faults>>

(* The function is read from the KVS, as in pin.                           *)
exec_function(m) ==
  /\ m.kind = "exec"
  /\ \/ /\ results' = results \cup {<<m.call, "result">>}
        /\ msgs' = msgs \ {m}
        /\ statuses' = Push(statuses, m.to, exec[m.to].status)
        /\ UNCHANGED <<exec, pins, exited, todo, faults>>
     \/ /\ Fault("missing")
        /\ Exit(m.to, {m}, {}, statuses, pins)
        /\ UNCHANGED results
  /\ UNCHANGED <<sched, mgmt, pin_accept, schedule, runs>>

(* exec_dag_function for a call that waits in the queue of executor x,     *)
(* which is called e.                                                      *)
exec_dag_function(e, x, c, f, m) ==
  LET d == CalledDag[c]
  IN /\ exec' = [exec EXCEPT ![e] =
                   [x EXCEPT !.queue = @ \ {<<c, f>>},
                             !.received_triggers = {t \in @ : t[1] # c \/ t[2] # f}]]
     /\ runs' = [runs EXCEPT ![c][f] = @ + 1]
     /\ msgs' = (msgs \ {m}) \cup
                  {DagTrigger(c, f, g, schedule[c][g]) : g \in Successors(d, f)}
     /\ results' = IF Successors(d, f) = {} THEN results \cup {<<c, f>>} ELSE results
     /\ UNCHANGED <<pins, statuses, exited, todo, faults>>

(* Mutant of RunIfTriggered: the triggers are not counted.                 *)
RunIfTriggeredOnce(e, x, c, f, m) ==
  IF <<c, f>> \in x.queue /\ f \in x.pinned_functions
       /\ \E t \in x.received_triggers : t[1] = c /\ t[2] = f
  THEN exec_dag_function(e, x, c, f, m)
  ELSE /\ exec' = [exec EXCEPT ![e] = x]
       /\ msgs' = msgs \ {m}
       /\ UNCHANGED <<pins, statuses, runs, results, exited, todo, faults>>

(* A schedule or a trigger has been noted; the function runs if it has all *)
(* its triggers.  An executor that does not have it exits, and so it does  *)
(* when the function raises an exception.                                  *)
RunIfTriggered(e, x, c, f, m) ==
  LET sources == {t[3] : t \in {u \in x.received_triggers : u[1] = c /\ u[2] = f}}
      ready == /\ <<c, f>> \in x.queue /\ sources # {}
               /\ Cardinality(sources) = Cardinality(Triggers(CalledDag[c], f))
  IN \/ /\ ~ ready
        /\ exec' = [exec EXCEPT ![e] = x]
        /\ msgs' = msgs \ {m}
        /\ UNCHANGED <<pins, statuses, runs, results, exited, todo, faults>>
     \/ ready /\ f \in x.pinned_functions /\ exec_dag_function(e, x, c, f, m)
     \/ /\ ready
        /\ \/ f \in x.pinned_functions /\ Fault("raise")
           \/ f \notin x.pinned_functions /\ UNCHANGED <<todo, faults>>
        /\ Exit(e, {m}, {}, statuses, pins)
        /\ UNCHANGED <<runs, results>>

(* Mutant of ReceiveSchedule: only a trigger makes the function run.       *)
ReceiveScheduleOnly(m) ==
  /\ m.kind = "schedule"
  /\ exec' = [exec EXCEPT ![m.to].queue = @ \cup {<<m.call, m.func>>},
                          ![m.to].queued = @ \cup {m.func}]
  /\ msgs' = msgs \ {m}
  /\ UNCHANGED <<sched, mgmt, pins, pin_accept, statuses, schedule, runs, results, exited,
                 todo, faults>>

(* dag_queue_socket.                                                       *)
ReceiveSchedule(m) ==
  /\ m.kind = "schedule"
  /\ RunIfTriggered(m.to, [exec[m.to] EXCEPT !.queue = @ \cup {<<m.call, m.func>>},
                                             !.queued = @ \cup {m.func}],
                    m.call, m.func, m)
  /\ UNCHANGED <<sched, mgmt, pin_accept, schedule>>

(* Mutant of ReceiveTrigger: a trigger before the schedule is ignored.     *)
ReceiveTriggerIgnored(m) ==
  /\ m.kind = "trigger"
  /\ RunIfTriggered(m.to, [exec[m.to] EXCEPT !.received_triggers =
                             IF <<m.call, m.func>> \in exec[m.to].queue
                             THEN @ \cup {<<m.call, m.func, m.source>>} ELSE @],
                    m.call, m.func, m)
  /\ UNCHANGED <<sched, mgmt, pin_accept, schedule>>

(* dag_exec_socket.                                                        *)
ReceiveTrigger(m) ==
  /\ m.kind = "trigger"
  /\ RunIfTriggered(m.to, [exec[m.to] EXCEPT !.received_triggers =
                             @ \cup {<<m.call, m.func, m.source>>}],
                    m.call, m.func, m)
  /\ UNCHANGED <<sched, mgmt, pin_accept, schedule>>

(* self_depart_socket.                                                     *)
ReceiveDepart(m) ==
  LET gone == [running |-> FALSE, functions |-> {}]
  IN /\ m.kind = "depart"
     /\ exec' = [exec EXCEPT ![m.to].status = gone, ![m.to].departing = TRUE]
     /\ statuses' = Push(statuses, m.to, gone)
     /\ msgs' = msgs \ {m}
     /\ UNCHANGED <<sched, mgmt, pins, pin_accept, schedule, runs, results, exited, todo,
                    faults>>

(* The periodic report.  The functions that are not accepted any more are  *)
(* deleted from queue while the loop goes through it, which raises an      *)
(* exception at the next pass of the loop.                                 *)
Report(e) ==
  LET x == exec[e]
      old == {f \in x.queued : f \notin x.status.functions
                                 /\ \A c \in Call : <<c, f>> \notin x.queue}
  IN /\ \E n \in 1 .. 2 : Do([kind |-> "report", who |-> e, nth |-> n])
     /\ \/ /\ old = {} /\ ~ (x.departing /\ x.queued = {})
           /\ statuses' = Push(statuses, e, x.status)
           /\ msgs' = msgs \cup {Utilization(e)}
           /\ UNCHANGED <<exec, pins, exited>>
        \/ /\ old # {}
           /\ Exit(e, {}, {Utilization(e)}, Push(statuses, e, x.status), pins)
        \/ /\ x.departing /\ x.queued = {}
           /\ Exit(e, {}, {Utilization(e), DepartDone(e)}, Push(statuses, e, x.status), pins)
     /\ UNCHANGED <<sched, mgmt, pin_accept, schedule, runs, results, faults>>

------------------------------------------------------------------------------
(* Schedulers.  One that creates a DAG waits for the answers to its pins   *)
(* and does nothing else.                                                  *)
Free(s) == sched[s].creating = Idle

Send(q, s, e, f) == [q EXCEPT ![e] = Append(@, [from |-> s, func |-> f])]

(* An exception ends the loop, after the messages in sent.                 *)
Crash(s, sent) ==
  /\ sched' = [sched EXCEPT ![s] = NewScheduler]
  /\ pin_accept' = [pin_accept EXCEPT ![s] = <<>>]
  /\ exited' = exited \cup {s}
  /\ msgs' = msgs \cup sent
  /\ UNCHANGED <<pins, schedule>>

Placed(r) == UNION {r.func_locations[f] : f \in r.located}

(* create_dag fails: the functions pinned so far are unpinned.             *)
CreateFails(s, r) ==
  /\ sched' = [sched EXCEPT ![s] = [r EXCEPT !.creating = Idle]]
  /\ msgs' = msgs \cup {UnpinRequest(l[1]) : l \in r.creating.pin_locations}
  /\ UNCHANGED pins

(* _pin_func for the function that create_dag has come to.  The counts are *)
(* looked up under the wrong kind of key and all 0, so that the candidate  *)
(* is the first in the order of a set, which each process has its own.     *)
pin_func(s, r) ==
  \/ r.creating.candidates = {} /\ CreateFails(s, r)
  \/ \E e \in r.creating.candidates :
       /\ sched' = [sched EXCEPT ![s] = [r EXCEPT !.creating.node = e]]
       /\ pins' = Send(pins, s, e, Functions[r.creating.dag][r.creating.i])
       /\ UNCHANGED msgs

(* create_dag's loop body: candidates for the i-th function.               *)
PinFrom(s, r, i) ==
  pin_func(s, [r EXCEPT !.creating.i = i, !.creating.candidates = r.executors \ Placed(r)])

(* create_dag for the functions from the i-th on.                          *)
CreateFrom(s, r, i) ==
  LET d == r.creating.dag
  IN \/ /\ i > Len(Functions[d])
        /\ sched' = [sched EXCEPT ![s] = [r EXCEPT !.creating = Idle, !.dags = @ \cup {d}]]
        /\ UNCHANGED <<pins, msgs>>
     \/ /\ i <= Len(Functions[d])
        /\ PinFrom(s, r, i)

create_dag(s, d) ==
  /\ Do([kind |-> "create", at |-> s, dag |-> d]) /\ Free(s)
  /\ IF d \in sched[s].dags THEN UNCHANGED <<sched, pins, msgs>>
     ELSE CreateFrom(s, [sched[s] EXCEPT !.creating.dag = d], 1)
  /\ UNCHANGED <<exec, mgmt, pin_accept, statuses, schedule, runs, results, exited, faults>>

(* Mutant of ReceivePinAccept: every answer is taken for a success.        *)
ReceivePinAcceptAny(s) ==
  LET r == sched[s]
      c == r.creating
      f == Functions[c.dag][c.i]
  IN /\ ~ Free(s) /\ pin_accept[s] # <<>>
     /\ pin_accept' = [pin_accept EXCEPT ![s] = Tail(@)]
     /\ CreateFrom(s, [r EXCEPT !.call_frequency = @ \cup {f}, !.located = @ \cup {f},
                         !.func_locations[f] = @ \cup {c.node},
                         !.creating.pin_locations = @ \cup {<<c.node, f>>}], c.i + 1)
     /\ UNCHANGED <<exec, mgmt, statuses, schedule, runs, results, exited, todo, faults>>

(* The answer that _pin_func receives.  It does not say whose it is.       *)
ReceivePinAccept(s) ==
  LET r == sched[s]
      c == r.creating
      f == Functions[c.dag][c.i]
  IN /\ ~ Free(s) /\ pin_accept[s] # <<>>
     /\ pin_accept' = [pin_accept EXCEPT ![s] = Tail(@)]
     /\ \/ /\ Head(pin_accept[s]).success
           /\ CreateFrom(s, [r EXCEPT !.call_frequency = @ \cup {f}, !.located = @ \cup {f},
                               !.func_locations[f] = @ \cup {c.node},
                               !.creating.pin_locations = @ \cup {<<c.node, f>>}], c.i + 1)
        \/ /\ ~ Head(pin_accept[s]).success
           /\ pin_func(s, [r EXCEPT !.creating.candidates = @ \ {c.node}])
     /\ UNCHANGED <<exec, mgmt, statuses, schedule, runs, results, exited, todo, faults>>

(* No answer in time: _pin_func sends the same request again.              *)
PinTimeout(s) ==
  LET c == sched[s].creating
      waiting == pin_accept[s] # <<>>
                 \/ \E i \in DOMAIN pins[c.node] : pins[c.node][i].from = s
  IN /\ ~ Free(s)
     /\ \/ waiting /\ Fault("late")
        \/ ~ waiting /\ UNCHANGED <<todo, faults>>
     /\ pins' = Send(pins, s, c.node, Functions[c.dag][c.i])
     /\ UNCHANGED <<sched, exec, mgmt, pin_accept, statuses, msgs, schedule, runs, results,
                    exited>>

(* _pick_node fails for a function without locations, and a lookup for one *)
(* that another DAG had and that was deleted with it.                      *)
Callable(r, d) ==
  \A f \in FuncsOf(d) : f \in r.located \cap r.call_frequency /\ r.func_locations[f] # {}

(* A call of a DAG that the scheduler does not know is refused.            *)
call_dag(s, c) ==
  LET r == sched[s]
      d == CalledDag[c]
  IN /\ Do([kind |-> "call", at |-> s, call |-> c]) /\ Free(s)
     /\ \/ d \notin r.dags /\ UNCHANGED <<sched, pin_accept, pins, msgs, schedule, exited>>
        \/ d \in r.dags /\ ~ Callable(r, d) /\ Crash(s, {})
        \/ /\ d \in r.dags /\ Callable(r, d)
           /\ \E loc \in [FuncsOf(d) -> Exec] :
                /\ \A f \in FuncsOf(d) : loc[f] \in r.func_locations[f]
                /\ schedule' = [schedule EXCEPT ![c] = loc]
                /\ msgs' = msgs \cup {DagSchedule(c, f, loc[f]) : f \in FuncsOf(d)}
                             \cup {DagTrigger(c, "BEGIN", f, loc[f]) : f \in find_dag_source(d)}
           /\ UNCHANGED <<sched, pin_accept, pins, exited>>
     /\ UNCHANGED <<exec, mgmt, statuses, runs, results, faults>>

call_function(s, c) ==
  LET r == sched[s]
  IN /\ Do([kind |-> "call", at |-> s, call |-> c]) /\ Free(s)
     /\ \/ r.executors = {} /\ Crash(s, {})
        \/ \E e \in r.executors :
             /\ sched' = [sched EXCEPT ![s].executors = @ \ {e}]
             /\ msgs' = msgs \cup {ExecRequest(c, e)}
             /\ UNCHANGED <<pin_accept, pins, schedule, exited>>
     /\ UNCHANGED <<exec, mgmt, statuses, runs, results, faults>>

(* The loop of delete_dag ends with an exception at a function that is not *)
(* known any more, because another DAG had it and was deleted.             *)
delete_dag(s, d) ==
  LET r == sched[s]
      known == r.located \cap r.call_frequency
      reached == {i \in DOMAIN Functions[d] : \A j \in 1 .. i - 1 : Functions[d][j] \in known}
      unpins == UNION {{UnpinRequest(e) : e \in r.func_locations[Functions[d][i]]} : i \in reached}
      locs == UNION {r.func_locations[f] : f \in FuncsOf(d)}
  IN /\ Do([kind |-> "delete", at |-> s, dag |-> d]) /\ Free(s)
     /\ \/ d \notin r.dags /\ UNCHANGED <<sched, pins, pin_accept, msgs, schedule, exited>>
        \/ d \in r.dags /\ ~ FuncsOf(d) \subseteq known /\ Crash(s, unpins)
        \/ /\ d \in r.dags /\ FuncsOf(d) \subseteq known
           /\ msgs' = msgs \cup unpins
           /\ sched' = [sched EXCEPT ![s] =
                [r EXCEPT !.dags = @ \ {d}, !.executors = @ \ locs,
                   !.located = @ \ FuncsOf(d), !.call_frequency = @ \ FuncsOf(d),
                   !.func_locations = [f \in Func |-> IF f \in FuncsOf(d) THEN {} ELSE @[f]]]]
           /\ UNCHANGED <<pins, pin_accept, schedule, exited>>
     /\ UNCHANGED <<exec, mgmt, statuses, runs, results, faults>>

(* exec_status_socket: forget where the old status has located functions,  *)
(* and note the new one, unless the executor departs.                      *)
ReceiveStatus(s, e) ==
  LET r == sched[s]
      new == Head(statuses[e][s])
      old == r.thread_statuses[e]
      was == IF old = Unknown THEN {} ELSE old.functions
      without == [f \in Func |-> IF f \in was THEN r.func_locations[f] \ {e}
                                 ELSE r.func_locations[f]]
  IN /\ Free(s) /\ statuses[e][s] # <<>>
     /\ statuses' = [statuses EXCEPT ![e][s] = Tail(@)]
     /\ \/ /\ new.running
           /\ sched' = [sched EXCEPT ![s] =
                [r EXCEPT !.executors = @ \cup {e}, !.thread_statuses[e] = new,
                   !.located = @ \cup new.functions,
                   !.func_locations = [f \in Func |-> IF f \in new.functions
                                         THEN without[f] \cup {e} ELSE without[f]]]]
           /\ UNCHANGED <<pin_accept, pins, msgs, schedule, exited>>
        \/ /\ ~ new.running /\ was \subseteq r.located
           /\ sched' = [sched EXCEPT ![s] =
                [r EXCEPT !.executors = @ \ {e}, !.thread_statuses[e] = Unknown,
                   !.func_locations = without]]
           /\ UNCHANGED <<pin_accept, pins, msgs, schedule, exited>>
        \/ ~ new.running /\ ~ was \subseteq r.located /\ Crash(s, {})
     /\ UNCHANGED <<exec, mgmt, runs, results, todo, faults>>

(* The periodic report to the other schedulers.                            *)
ReportSchedule(s) ==
  /\ \E n \in 1 .. 2 : Do([kind |-> "report", who |-> s, nth |-> n])
  /\ Free(s)
  /\ msgs' = msgs \cup {SchedulerStatus(t, sched[s]) : t \in mgmt.schedulers \ {s}}
  /\ UNCHANGED <<sched, exec, mgmt, pins, pin_accept, statuses, schedule, runs, results,
                 exited, faults>>

ReceiveUpdate(m) ==
  LET s == m.to
      r == sched[s]
      new == UNION {FuncsOf(d) : d \in m.dags \ r.dags}
  IN /\ m.kind = "update" /\ Free(s)
     /\ sched' = [sched EXCEPT ![s] =
          [r EXCEPT !.dags = @ \cup m.dags, !.call_frequency = @ \cup new,
             !.located = @ \cup new \cup {f \in Func : m.func_locations[f] # {}},
             !.func_locations = [f \in Func |-> r.func_locations[f] \cup m.func_locations[f]]]]
     /\ msgs' = msgs \ {m}
     /\ UNCHANGED <<exec, mgmt, pins, pin_accept, statuses, schedule, runs, results, exited,
                    todo, faults>>

------------------------------------------------------------------------------
(* The management server.                                                  *)

(* function_status_socket.  Whether the executor departs is looked up      *)
(* under a pair and noted under an address, so that it is never found.     *)
ReceiveUtilization(m) ==
  /\ m.kind = "util"
  /\ mgmt' = [mgmt EXCEPT !.executor_statuses[m.from] = m.functions]
  /\ msgs' = msgs \ {m}
  /\ UNCHANGED <<sched, exec, pins, pin_accept, statuses, schedule, runs, results, exited,
                 todo, faults>>

Reported == {e \in Exec : mgmt.executor_statuses[e] # Unknown}
Locations(f) == {e \in Reported : f \in mgmt.executor_statuses[e]}

replicate_function(f) ==
  /\ \E n \in 1 .. 2 : Do([kind |-> "replicate", func |-> f, nth |-> n])
  /\ Locations(f) # {}
  /\ \E e \in Reported \ Locations(f) :
       pins' = [pins EXCEPT ![e] = Append(@, [from |-> "management", func |-> f])]
  /\ UNCHANGED <<sched, exec, mgmt, pin_accept, statuses, msgs, schedule, runs, results,
                 exited, faults>>

dereplicate_function(f) ==
  /\ Do([kind |-> "dereplicate", func |-> f])
  /\ Cardinality(Locations(f)) > 2
  /\ \E e \in Locations(f) : msgs' = msgs \cup {UnpinRequest(e)}
  /\ UNCHANGED <<sched, exec, mgmt, pins, pin_accept, statuses, schedule, runs, results,
                 exited, faults>>

OnNode(ip) == {e \in Exec : IpOf[e] = ip}

check_executor_utilization(ip) ==
  /\ Do([kind |-> "remove", ip |-> ip])
  /\ OnNode(ip) \cap Reported # {}
  /\ msgs' = msgs \cup {DepartRequest(e) : e \in OnNode(ip)}
  /\ mgmt' = [mgmt EXCEPT !.departing_executors[ip] = Cardinality(OnNode(ip)),
                !.executor_statuses = [e \in Exec |-> IF IpOf[e] = ip THEN Unknown ELSE @[e]]]
  /\ UNCHANGED <<sched, exec, pins, pin_accept, statuses, schedule, runs, results, exited,
                 faults>>

(* executor_depart_socket: when all its executors have departed, the node  *)
(* is removed.                                                             *)
ReceiveDepartDone(m) ==
  /\ m.kind = "done"
  /\ mgmt' = [mgmt EXCEPT !.departing_executors[IpOf[m.from]] = @ - 1,
                !.removed = IF mgmt.departing_executors[IpOf[m.from]] = 1
                            THEN @ \cup {IpOf[m.from]} ELSE @]
  /\ msgs' = msgs \ {m}
  /\ UNCHANGED <<sched, exec, pins, pin_accept, statuses, schedule, runs, results, exited,
                 todo, faults>>

------------------------------------------------------------------------------
(* At first the executors have announced themselves to the schedulers, and *)
(* some have reported to the management server.                            *)
Init ==
  \E scenario \in Scenario :
    /\ todo = scenario.events
    /\ sched = [s \in Sched |-> [NewScheduler EXCEPT !.executors = Exec,
                                   !.thread_statuses = [e \in Exec |-> NewStatus]]]
    /\ exec = [e \in Exec |-> NewExecutor]
    /\ mgmt = [schedulers |-> scenario.schedulers,
               executor_statuses |-> [e \in Exec |-> IF e \in scenario.reported THEN {}
                                                     ELSE Unknown],
               departing_executors |-> [ip \in {IpOf[e] : e \in Exec} |-> 0], removed |-> {}]
    /\ pins = [e \in Exec |-> <<>>]
    /\ pin_accept = [s \in Sched |-> <<>>]
    /\ statuses = [e \in Exec |-> [s \in Sched |-> <<>>]]
    /\ msgs = {}
    /\ schedule = [c \in Call |-> <<>>]
    /\ runs = [c \in Call |-> [f \in Func |-> 0]]
    /\ results = {}
    /\ exited = {}
    /\ faults = {}

Next ==
  \/ \E e \in Exec : pin(e) \/ Report(e)
  \/ \E m \in msgs :
       \/ unpin(m) \/ exec_function(m) \/ ReceiveSchedule(m) \/ ReceiveTrigger(m)
       \/ ReceiveDepart(m) \/ ReceiveUpdate(m) \/ ReceiveUtilization(m)
       \/ ReceiveDepartDone(m)
  \/ \E s \in Sched :
       \/ \E d \in DagName : create_dag(s, d) \/ delete_dag(s, d)
       \/ \E c \in Call : call_dag(s, c)
       \/ \E c \in Single : call_function(s, c)
       \/ \E e \in Exec : ReceiveStatus(s, e)
       \/ ReceivePinAccept(s) \/ PinTimeout(s) \/ ReportSchedule(s)
  \/ \E f \in Func : replicate_function(f) \/ dereplicate_function(f)
  \/ \E e \in Exec : check_executor_utilization(IpOf[e])

Spec == Init /\ [][Next]_vars

(* The loops of the processes go on while they have anything to receive.   *)
Busy ==
  \/ msgs # {}
  \/ \E e \in Exec : pins[e] # <<>> \/ \E s \in Sched : statuses[e][s] # <<>>
  \/ \E s \in Sched : ~ Free(s)

FairSpec == Spec /\ (<>[]Busy => []<><<UNCHANGED <<faults, todo>>>>_vars)

------------------------------------------------------------------------------
(* What a scheduler knows of a DAG and of a function goes together, and an *)
(* executor holds at most one function.                                    *)
RuntimeTypeOK ==
  /\ \A s \in Sched :
       LET r == sched[s]
       IN /\ r.dags \subseteq DagName /\ r.executors \subseteq Exec
          /\ \A f \in Func : f \notin r.located => r.func_locations[f] = {}
          /\ r.creating # Idle => r.creating.node \in r.creating.candidates
  /\ \A e \in Exec :
       /\ Cardinality(exec[e].pinned_functions) <= 1
       /\ exec[e].status.functions \subseteq exec[e].pinned_functions
       /\ \A q \in exec[e].queue : q[2] \in exec[e].queued
  /\ \A ip \in DOMAIN mgmt.departing_executors : mgmt.departing_executors[ip] \in Nat

(* A call runs a function at most once, and not before all predecessors of *)
(* the function in the DAG (the triggers that the executor counts).        *)
TriggeredByAll ==
  \A c \in Call : \A f \in FuncsOf(CalledDag[c]) :
    /\ runs[c][f] <= 1
    /\ runs[c][f] = 1 => \A p \in Predecessors(CalledDag[c], f) : runs[c][p] = 1

(* Schedules and triggers come in any order, and none is lost: until the   *)
(* function runs, or the executor that is to run it exits, its schedule    *)
(* and the triggers of the predecessors that have run are on their way or  *)
(* noted by the executor.                                                  *)
NoTriggerLost ==
  \A c \in Call : schedule[c] # <<>> => \A f \in DOMAIN schedule[c] :
    LET e == schedule[c][f]
    IN runs[c][f] = 0 /\ e \notin exited =>
         /\ DagSchedule(c, f, e) \in msgs \/ <<c, f>> \in exec[e].queue
         /\ \A t \in Triggers(CalledDag[c], f) :
              t = "BEGIN" \/ runs[c][t] = 1 =>
                DagTrigger(c, t, f, e) \in msgs \/ <<c, f, t>> \in exec[e].received_triggers

(* Where a scheduler locates a function (from a pin that was accepted, a   *)
(* status update or another scheduler) the function is pinned, unless that *)
(* executor has exited or an answer to a pin came after its timeout.       *)
LocationsPinned ==
  \A s \in Sched, f \in Func : \A e \in sched[s].func_locations[f] :
    e \in exited \/ "late" \in faults \/ f \in exec[e].pinned_functions

(* A DAG call that was scheduled is answered by every sink of the DAG, or  *)
(* an executor that it was scheduled on has exited.                        *)
CallsComplete ==
  \A c \in Call :
    schedule[c] # <<>> ~> \/ \A f \in Sinks(CalledDag[c]) : <<c, f>> \in results
                          \/ \E f \in DOMAIN schedule[c] : schedule[c][f] \in exited

(* An executor that a scheduler has struck off its list (call_function,    *)
(* delete_dag) is on it again in the end, unless it departs.               *)
ExecutorsReturn ==
  \A s \in Sched, e \in Exec :
    <>[](e \in sched[s].executors \/ s \in exited \/ ~ exec[e].status.running)

(* A departing executor exits only after it has let the management server  *)
(* know.                                                                   *)
DepartReported ==
  [][\A e \in Exec : exec[e].departing /\ ~ exec'[e].departing => DepartDone(e) \in msgs']_vars
=============================================================================
