------------------------ MODULE FunctionPins_proofs -------------------------
(* What the schedulers, the executors and the management server know of    *)
(* each other, for every number of them, of functions and of DAGs: every   *)
(* variable has its type, and a function is pinned wherever a scheduler    *)
(* locates it.                                                             *)
EXTENDS FunctionRuntime_proofs

(* The provers tried on a leaf that names none, with the seconds they get. *)
USE ZenonT(60), SMTT(60)

------------------------------------------------------------------------------
(* Where a scheduler locates a function, the function is pinned: what the  *)
(* schedulers, the executors and the messages between them hold.           *)

Pinned(f, e) == e \in exited \/ f \in exec[e].pinned_functions

Status == [running : BOOLEAN, functions : SUBSET Func]
StatusAt(e) == {x \in Status : \A f \in x.functions : Pinned(f, e)}
Request == [from : Sched \cup {"management"}, func : Func]

(* A scheduler, the DAG that it creates and the management server are      *)
(* records of these shapes.                                                *)
CreatingFields == {"dag", "i", "candidates", "node", "pin_locations"}
SchedFields == {"creating", "dags", "executors", "call_frequency", "located",
                "func_locations", "thread_statuses"}
MgmtFields == {"schedulers", "executor_statuses", "departing_executors", "removed"}
Creating(c) == c = [a \in CreatingFields |-> c[a]] /\ c.candidates \subseteq Exec
Scheduler(r) ==
  /\ r = [a \in SchedFields |-> r[a]]
  /\ Creating(r.creating)
  /\ r.dags \subseteq DagName /\ r.executors \subseteq Exec
  /\ r.func_locations \in [Func -> SUBSET Exec]

(* An executor holds at most one function, and reports no other.           *)
Holding(x) ==
  /\ x.status \in Status /\ x.status.functions \subseteq x.pinned_functions
  /\ x.pinned_functions = {} \/ \E f \in Func : x.pinned_functions = {f}
  /\ \A q \in x.queue : q[2] \in x.queued

(* A scheduler that creates a DAG has come to one of its functions, and    *)
(* has asked one of the candidates.                                        *)
Asking(c) == c.dag \in DagName /\ c.i \in DOMAIN Functions[c.dag] /\ c.node \in c.candidates
Knowing(r) ==
  /\ Scheduler(r)
  /\ r.creating = Idle \/ Asking(r.creating)
  /\ \A f \in Func : f \notin r.located => r.func_locations[f] = {}

Update == [kind : {"update"}, to : Sched, dags : SUBSET DagName,
           func_locations : [Func -> SUBSET Exec]]

PinTypes ==
  /\ \A e \in Exec : Holding(exec[e])
  /\ sched = [s \in Sched |-> sched[s]] /\ \A s \in Sched : Knowing(sched[s])
  /\ \A m \in msgs : m.kind = "update" => m \in Update
  /\ mgmt = [a \in MgmtFields |-> mgmt[a]] /\ mgmt.schedulers \subseteq Sched
  /\ pins \in [Exec -> Seq(Request)]
  /\ pin_accept = [s \in Sched |-> pin_accept[s]]
  /\ statuses = [e \in Exec |-> [s \in Sched |-> statuses[e][s]]]
  /\ \A e \in Exec, s \in Sched : statuses[e][s] \in Seq(StatusAt(e))

(* What the schedulers, and the messages between them, locate is pinned.   *)
Located ==
  /\ \A s \in Sched, f \in Func : \A e \in sched[s].func_locations[f] : Pinned(f, e)
  /\ \A m \in msgs : m.kind = "update" =>
       \A f \in Func : \A e \in m.func_locations[f] : Pinned(f, e)

(* A scheduler has no request under way; or one, for the function and to   *)
(* the executor that it waits for; or the answer to that one.              *)
NotAsked(q, s) == \A e \in Exec : \A i \in DOMAIN q[e] : q[e][i].from # s
AskedOnce(q, s, e, f) ==
  \E n \in DOMAIN q[e] :
    /\ q[e][n].from = s /\ q[e][n].func = f
    /\ \A d \in Exec : \A i \in DOMAIN q[d] : q[d][i].from = s => d = e /\ i = n
Wanted(c) == Functions[c.dag][c.i]
Handshake(s) ==
  LET c == sched[s].creating
  IN \/ NotAsked(pins, s) /\ pin_accept[s] = <<>>
     \/ ~ Free(s) /\ AskedOnce(pins, s, c.node, Wanted(c)) /\ pin_accept[s] = <<>>
     \/ /\ ~ Free(s) /\ NotAsked(pins, s)
        /\ \E a : pin_accept[s] = <<a>> /\ (a.success => Pinned(Wanted(c), c.node))

PinInv ==
  /\ PinTypes
  /\ "late" \notin faults => Located /\ \A s \in Sched : Handshake(s)

------------------------------------------------------------------------------
(* Queues: what is taken from one end and put at the other.                *)
LEMMA Taken ==
  ASSUME NEW S, NEW q \in Seq(S), q # <<>>
  PROVE  /\ Head(q) \in S /\ Tail(q) \in Seq(S)
         /\ 1 \in DOMAIN q /\ Head(q) = q[1]
         /\ \A i \in DOMAIN Tail(q) : i + 1 \in DOMAIN q /\ Tail(q)[i] = q[i + 1]
         /\ \A i \in DOMAIN q : i # 1 => i - 1 \in DOMAIN Tail(q) /\ Tail(q)[i - 1] = q[i]
BY SMTT(60)

LEMMA Shifted ==
  ASSUME NEW S, NEW q \in Seq(S), q # <<>>
  PROVE  /\ \A i \in DOMAIN Tail(q) : i + 1 # 1
         /\ \A i, k \in DOMAIN Tail(q) : i + 1 = k + 1 => i = k
         /\ \A k \in DOMAIN q : k # 1 => (k - 1) + 1 = k
BY SMTT(60)

LEMMA Added ==
  ASSUME NEW S, NEW q \in Seq(S), NEW x \in S
  PROVE  /\ Append(q, x) \in Seq(S)
         /\ Len(q) + 1 \in DOMAIN Append(q, x) /\ Append(q, x)[Len(q) + 1] = x
         /\ \A i \in DOMAIN Append(q, x) : i # Len(q) + 1 => i \in DOMAIN q
         /\ \A i \in DOMAIN q : /\ i # Len(q) + 1 /\ i \in DOMAIN Append(q, x)
                               /\ Append(q, x)[i] = q[i]
BY SMTT(60)

LEMMA Wider ==
  ASSUME NEW S, NEW T, S \subseteq T, NEW q \in Seq(S)
  PROVE  q \in Seq(T)
BY SMTT(60)

(* An executor that has not exited keeps its function.                     *)
Evolves ==
  \A e \in Exec :
    Holding(exec'[e]) /\ (exec[e].pinned_functions \subseteq exec'[e].pinned_functions
                          \/ e \in exited')

LEMMA ExecEvolves ==
  ASSUME RuntimeInv, PinTypes, NEW e, NEW y, exec' = [exec EXCEPT ![e] = y],
         e \in Exec => /\ Holding(y)
                       /\ exec[e].pinned_functions \subseteq y.pinned_functions \/ e \in exited'
  PROVE  Evolves
BY DEF RuntimeInv, Shapes, PinTypes, Evolves

LEMMA ExecSame ==
  ASSUME PinTypes, exec' = exec
  PROVE  Evolves
BY DEF PinTypes, Evolves

LEMMA NewHolding == Holding(NewExecutor) /\ NewStatus \in Status
BY SMTT(60) DEF Holding, NewExecutor, NewStatus, Status

LEMMA ExitEvolves ==
  ASSUME RuntimeInv, PinTypes, NEW e, NEW got, NEW sent, NEW st, NEW ps,
         Exit(e, got, sent, st, ps)
  PROVE  Evolves
BY NewHolding, ExecEvolves DEF Exit

LEMMA RunEvolves ==
  ASSUME RuntimeInv, PinTypes, NEW e, NEW x, NEW c, NEW f, NEW m,
         RunIfTriggered(e, x, c, f, m),
         e \in Exec => /\ Shaped(x) /\ Holding(x)
                       /\ x.pinned_functions = exec[e].pinned_functions
  PROVE  Evolves
<1>1. CASE exec' = [exec EXCEPT ![e] = x]
  BY <1>1, ExecEvolves
<1>2. CASE exec_dag_function(e, x, c, f, m)
  <2> DEFINE y == [x EXCEPT !.queue = @ \ {<<c, f>>},
                            !.received_triggers = {t \in @ : t[1] # c \/ t[2] # f}]
  <2>1. exec' = [exec EXCEPT ![e] = y]
    BY <1>2 DEF exec_dag_function
  <2>2. ASSUME e \in Exec PROVE Holding(y) /\ y.pinned_functions = exec[e].pinned_functions
    <3>1. Shaped(x) /\ Holding(x) /\ x.pinned_functions = exec[e].pinned_functions
      BY <2>2
    <3>2. /\ y.status = x.status /\ y.pinned_functions = x.pinned_functions
          /\ y.queued = x.queued /\ y.queue \subseteq x.queue
      BY <3>1 DEF Shaped, Fields
    <3> QED
      BY <3>1, <3>2 DEF Holding
  <2> HIDE DEF y
  <2> QED
    BY <2>1, <2>2, ExecEvolves
<1> QED
  BY <1>1, <1>2, ExitEvolves DEF RunIfTriggered

(* What the steps of a scheduler and of the management leave alone.        *)
SchedulerStep(s) ==
  \/ \E d \in DagName : create_dag(s, d) \/ delete_dag(s, d)
  \/ \E c \in Call : call_dag(s, c)
  \/ \E c \in Single : call_function(s, c)
  \/ \E e \in Exec : ReceiveStatus(s, e)
  \/ ReceivePinAccept(s) \/ PinTimeout(s) \/ ReportSchedule(s)

LEMMA SchedulerLeaves ==
  ASSUME NEW s, SchedulerStep(s)
  PROVE  exec' = exec /\ mgmt' = mgmt
<1>1. ASSUME NEW d, create_dag(s, d) \/ delete_dag(s, d) PROVE exec' = exec /\ mgmt' = mgmt
  BY <1>1 DEF create_dag, delete_dag
<1>2. ASSUME NEW c, call_dag(s, c) \/ call_function(s, c) PROVE exec' = exec /\ mgmt' = mgmt
  BY <1>2 DEF call_dag, call_function
<1>3. ASSUME NEW e, ReceiveStatus(s, e) PROVE exec' = exec /\ mgmt' = mgmt
  BY <1>3 DEF ReceiveStatus
<1>4. ASSUME ReceivePinAccept(s) \/ PinTimeout(s) \/ ReportSchedule(s)
      PROVE  exec' = exec /\ mgmt' = mgmt
  BY <1>4 DEF ReceivePinAccept, PinTimeout, ReportSchedule
<1> QED
  BY <1>1, <1>2, <1>3, <1>4 DEF SchedulerStep

LEMMA StatusesLeft ==
  ASSUME NEW s \in Sched, SchedulerStep(s)
  PROVE  statuses' = statuses \/ \E e \in Exec : ReceiveStatus(s, e)
<1>1. ASSUME NEW d, create_dag(s, d) \/ delete_dag(s, d) PROVE statuses' = statuses
  BY <1>1 DEF create_dag, delete_dag
<1>2. ASSUME NEW c, call_dag(s, c) \/ call_function(s, c) PROVE statuses' = statuses
  BY <1>2 DEF call_dag, call_function
<1>3. ASSUME ReceivePinAccept(s) \/ PinTimeout(s) \/ ReportSchedule(s)
      PROVE  statuses' = statuses
  BY <1>3 DEF ReceivePinAccept, PinTimeout, ReportSchedule
<1> QED
  BY <1>1, <1>2, <1>3 DEF SchedulerStep

LEMMA ManagementLeaves ==
  /\ \A f : replicate_function(f) \/ dereplicate_function(f) =>
             exec' = exec /\ mgmt' = mgmt /\ statuses' = statuses
  /\ \A ip : check_executor_utilization(ip) => exec' = exec /\ statuses' = statuses
BY DEF replicate_function, dereplicate_function, check_executor_utilization

(* What the steps of a scheduler and of an executor send, reports apart.   *)
Work == {"unpin", "exec", "schedule", "trigger"}
OnlyWork == \A m \in msgs' : m \in msgs \/ m.kind \in Work

LEMMA WorkKinds ==
  /\ \A e : UnpinRequest(e).kind \in Work
  /\ \A c, e : ExecRequest(c, e).kind \in Work
  /\ \A c, f, e : DagSchedule(c, f, e).kind \in Work
  /\ \A c, t, f, e : DagTrigger(c, t, f, e).kind \in Work
  /\ "update" \notin Work /\ "depart" \notin Work /\ "done" \notin Work
BY SMTT(60) DEF UnpinRequest, ExecRequest, DagSchedule, DagTrigger, Work

LEMMA SchedulerSends ==
  ASSUME NEW s, SchedulerStep(s), ~ ReportSchedule(s)
  PROVE  OnlyWork
<1>1. ASSUME NEW r, pin_func(s, r) PROVE OnlyWork
  <2> DEFINE unpins == {UnpinRequest(l[1]) : l \in r.creating.pin_locations}
  <2>1. msgs' = msgs \/ msgs' = msgs \cup unpins
    BY <1>1 DEF pin_func, CreateFails
  <2>2. \A m \in unpins : m.kind \in Work
    BY WorkKinds
  <2> HIDE DEF unpins
  <2> QED
    BY <2>1, <2>2 DEF OnlyWork
<1>2. ASSUME NEW r, NEW i, CreateFrom(s, r, i) PROVE OnlyWork
  <2>1. msgs' = msgs \/ \E q : pin_func(s, q)
    BY <1>2 DEF CreateFrom, PinFrom
  <2> QED
    BY <1>1, <2>1 DEF OnlyWork
<1>3. ASSUME UNCHANGED msgs PROVE OnlyWork
  BY <1>3 DEF OnlyWork
<1>4. Crash(s, {}) => msgs' = msgs
  BY DEF Crash
<1>5. ASSUME NEW d, delete_dag(s, d) PROVE OnlyWork
  <2> DEFINE r == sched[s]
             known == r.located \cap r.call_frequency
             reached == {i \in DOMAIN Functions[d] :
                           \A j \in 1 .. i - 1 : Functions[d][j] \in known}
             U(i) == {UnpinRequest(e) : e \in r.func_locations[Functions[d][i]]}
             unpins == UNION {U(i) : i \in reached}
  <2>1. msgs' = msgs \/ msgs' = msgs \cup unpins
    BY <1>5 DEF delete_dag, Crash
  <2>2. \A i : \A m \in U(i) : m.kind \in Work
    BY WorkKinds
  <2> HIDE DEF U, reached
  <2>3. \A m \in unpins : m.kind \in Work
    BY <2>2
  <2> HIDE DEF unpins
  <2> QED
    BY <2>1, <2>3 DEF OnlyWork
<1>6. ASSUME NEW c, call_dag(s, c) PROVE OnlyWork
  <2> DEFINE d == CalledDag[c]
             S(loc) == {DagSchedule(c, f, loc[f]) : f \in FuncsOf(d)}
             T(loc) == {DagTrigger(c, "BEGIN", f, loc[f]) : f \in find_dag_source(d)}
  <2>1. msgs' = msgs \/ \E loc : msgs' = msgs \cup S(loc) \cup T(loc)
    BY <1>4, <1>6 DEF call_dag
  <2>2. \A loc : /\ \A m \in S(loc) : m.kind \in Work
                /\ \A m \in T(loc) : m.kind \in Work
    BY WorkKinds
  <2> HIDE DEF S, T
  <2> QED
    BY <2>1, <2>2 DEF OnlyWork
<1>7. ASSUME NEW c, call_function(s, c) PROVE OnlyWork
  <2>1. msgs' = msgs \/ \E e : msgs' = msgs \cup {ExecRequest(c, e)}
    BY <1>4, <1>7 DEF call_function
  <2>2. \A e : \A m \in {ExecRequest(c, e)} : m.kind \in Work
    BY WorkKinds
  <2> QED
    BY <2>1, <2>2 DEF OnlyWork
<1>8. ASSUME NEW e, ReceiveStatus(s, e) PROVE msgs' = msgs
  BY <1>4, <1>8 DEF ReceiveStatus
<1> QED
  BY <1>1, <1>2, <1>3, <1>5, <1>6, <1>7, <1>8
     DEF SchedulerStep, create_dag, ReceivePinAccept, PinTimeout

LEMMA RunSends ==
  ASSUME NEW e, NEW x, NEW c, NEW f, NEW m, RunIfTriggered(e, x, c, f, m)
  PROVE  OnlyWork
<1> DEFINE T == {DagTrigger(c, f, g, schedule[c][g]) : g \in Successors(CalledDag[c], f)}
<1>1. ASSUME Exit(e, {m}, {}, statuses, pins) PROVE msgs' \subseteq msgs
  BY <1>1 DEF Exit
<1>2. msgs' \subseteq msgs \/ msgs' = (msgs \ {m}) \cup T
  BY <1>1 DEF RunIfTriggered, exec_dag_function
<1>3. \A n \in T : n.kind \in Work
  BY WorkKinds
<1> HIDE DEF T
<1> QED
  BY <1>2, <1>3 DEF OnlyWork

LEMMA ExecutorSends ==
  ASSUME NEW m, \/ unpin(m) \/ exec_function(m) \/ ReceiveSchedule(m) \/ ReceiveTrigger(m)
                \/ ReceiveDepart(m)
  PROVE  OnlyWork
<1>1. ASSUME unpin(m) PROVE msgs' \subseteq msgs
  BY <1>1 DEF unpin, Exit
<1>2. ASSUME exec_function(m) \/ ReceiveDepart(m) PROVE msgs' \subseteq msgs
  BY <1>2 DEF exec_function, ReceiveDepart, Exit
<1>3. ASSUME ReceiveSchedule(m) \/ ReceiveTrigger(m) PROVE OnlyWork
  BY <1>3, RunSends DEF ReceiveSchedule, ReceiveTrigger
<1> QED
  BY <1>1, <1>2, <1>3 DEF OnlyWork

LEMMA Grows ==
  ASSUME RuntimeInv, PinTypes, [Next]_vars
  PROVE  Evolves
<1>0. \A e \in Exec : Shaped(exec[e]) /\ Holding(exec[e])
  BY DEF RuntimeInv, Shapes, PinTypes
<1>1. ASSUME NEW e \in Exec, pin(e) PROVE Evolves
  <2> DEFINE x == exec[e]
             m == Head(pins[e])
             y == [x EXCEPT !.pinned_functions = {m.func}, !.status.functions = @ \cup {m.func}]
  <2>1. m.func \in Func
    <3>1. m \in Request
      BY <1>1, Taken DEF pin, PinTypes
    <3> QED
      BY <3>1, SMTT(60) DEF Request
  <2>2. \/ exec' = [exec EXCEPT ![e] = x]
        \/ exec' = [exec EXCEPT ![e] = y] /\ x.pinned_functions = {}
        \/ \E ps : Exit(e, {}, {}, statuses, ps)
    BY <1>1 DEF pin
  <2>3. Shaped(x) /\ Holding(x)
    BY <1>0
  <2>4. /\ y.pinned_functions = {m.func} /\ y.queue = x.queue /\ y.queued = x.queued
        /\ y.status = [x.status EXCEPT !.functions = @ \cup {m.func}]
    BY <2>3 DEF Shaped, Fields
  <2> HIDE DEF m, x, y
  <2>5. x.pinned_functions = {} => x.status.functions = {}
    BY <2>3 DEF Holding
  <2>6. x.pinned_functions = {} => y.status \in Status /\ y.status.functions = {m.func}
    BY <2>1, <2>3, <2>4, <2>5, SMTT(60) DEF Holding, Status
  <2>7. x.pinned_functions = {} => Holding(y)
    BY <2>1, <2>3, <2>4, <2>6 DEF Holding
  <2>8. x = exec[e]
    BY DEF x
  <2> QED
    BY <2>2, <2>3, <2>7, <2>8, ExecEvolves, ExitEvolves
<1>2. ASSUME NEW e \in Exec, Report(e) PROVE Evolves
  BY <1>2, ExitEvolves, ExecSame DEF Report
<1>3. ASSUME NEW m \in msgs, ReceiveDepart(m) PROVE Evolves
  <2> DEFINE e == m.to
             gone == [running |-> FALSE, functions |-> {}]
             y == [exec[e] EXCEPT !.status = gone, !.departing = TRUE]
  <2>1. exec' = [exec EXCEPT ![e] = y]
    BY <1>3 DEF ReceiveDepart, RuntimeInv, Shapes
  <2>2. ASSUME e \in Exec
        PROVE  /\ y.status = gone /\ y.pinned_functions = exec[e].pinned_functions
               /\ y.queue = exec[e].queue /\ y.queued = exec[e].queued
    BY <1>0, <2>2 DEF Shaped, Fields
  <2>3. gone \in Status /\ gone.functions = {}
    BY SMTT(60) DEF Status
  <2> HIDE DEF e, y, gone
  <2> QED
    BY <1>0, <2>1, <2>2, <2>3, ExecEvolves DEF Holding
<1>4. ASSUME NEW m \in msgs, ReceiveSchedule(m) PROVE Evolves
  <2> DEFINE e == m.to
             x == [exec[e] EXCEPT !.queue = @ \cup {<<m.call, m.func>>},
                                  !.queued = @ \cup {m.func}]
  <2>1. RunIfTriggered(e, x, m.call, m.func, m)
    BY <1>4 DEF ReceiveSchedule
  <2>2. ASSUME e \in Exec
        PROVE  /\ x.status = exec[e].status /\ x.pinned_functions = exec[e].pinned_functions
               /\ x.queue = exec[e].queue \cup {<<m.call, m.func>>}
               /\ x.queued = exec[e].queued \cup {m.func}
               /\ Shaped(x)
    BY <1>0, <2>2 DEF Shaped, Fields
  <2> HIDE DEF e, x
  <2>3. ASSUME e \in Exec PROVE Holding(x)
    <3>1. Holding(exec[e])
      BY <1>0, <2>3
    <3>2. \A q \in x.queue : q[2] \in x.queued
      BY <2>2, <2>3, <3>1, SMTT(60) DEF Holding
    <3> QED
      BY <2>2, <2>3, <3>1, <3>2 DEF Holding
  <2> QED
    BY <2>1, <2>2, <2>3, RunEvolves
<1>5. ASSUME NEW m \in msgs, ReceiveTrigger(m) PROVE Evolves
  <2> DEFINE e == m.to
             x == [exec[e] EXCEPT !.received_triggers = @ \cup {<<m.call, m.func, m.source>>}]
  <2>1. RunIfTriggered(e, x, m.call, m.func, m)
    BY <1>5 DEF ReceiveTrigger
  <2>2. ASSUME e \in Exec
        PROVE  /\ x.status = exec[e].status /\ x.pinned_functions = exec[e].pinned_functions
               /\ x.queue = exec[e].queue /\ x.queued = exec[e].queued
               /\ Shaped(x)
    BY <1>0, <2>2 DEF Shaped, Fields
  <2> HIDE DEF e, x
  <2> QED
    BY <1>0, <2>1, <2>2, RunEvolves DEF Holding
<1>6. ASSUME NEW m \in msgs, unpin(m) PROVE Evolves
  BY <1>6, ExitEvolves DEF unpin
<1>7. ASSUME UNCHANGED exec PROVE Evolves
  BY <1>7, ExecSame
<1>8. ASSUME NEW m, \/ ReceiveUpdate(m) \/ ReceiveUtilization(m) \/ ReceiveDepartDone(m)
      PROVE  UNCHANGED exec
  BY <1>8 DEF ReceiveUpdate, ReceiveUtilization, ReceiveDepartDone
<1>9. ASSUME NEW s \in Sched, SchedulerStep(s) PROVE Evolves
  BY <1>7, <1>9, SchedulerLeaves
<1>10. ASSUME NEW m \in msgs, exec_function(m) PROVE Evolves
  BY <1>7, <1>10, ExitEvolves DEF exec_function
<1> QED
  BY <1>1, <1>2, <1>3, <1>4, <1>5, <1>6, <1>7, <1>8, <1>9, <1>10, ManagementLeaves
     DEF Next, SchedulerStep, vars

LEMMA ExitedGrow ==
  ASSUME [Next]_vars
  PROVE  exited \subseteq exited' /\ faults \subseteq faults'
<1>1. ASSUME NEW e, NEW got, NEW sent, NEW st, NEW ps, Exit(e, got, sent, st, ps)
      PROVE  exited \subseteq exited'
  BY <1>1 DEF Exit
<1>2. ASSUME NEW s, NEW sent, Crash(s, sent) PROVE exited \subseteq exited'
  BY <1>2 DEF Crash
<1>3. ASSUME NEW kind, Fault(kind) PROVE faults \subseteq faults'
  BY <1>3 DEF Fault
<1>4. ASSUME NEW e \in Exec, pin(e) \/ Report(e)
      PROVE  exited \subseteq exited' /\ faults \subseteq faults'
  BY <1>1, <1>3, <1>4 DEF pin, Report
<1>5. ASSUME NEW m \in msgs, NEW e, NEW x, RunIfTriggered(e, x, m.call, m.func, m)
      PROVE  exited \subseteq exited' /\ faults \subseteq faults'
  BY <1>1, <1>3, <1>5 DEF RunIfTriggered, exec_dag_function
<1>6. ASSUME NEW m \in msgs,
             \/ unpin(m) \/ exec_function(m) \/ ReceiveSchedule(m) \/ ReceiveTrigger(m)
             \/ ReceiveDepart(m) \/ ReceiveUpdate(m) \/ ReceiveUtilization(m)
             \/ ReceiveDepartDone(m)
      PROVE  exited \subseteq exited' /\ faults \subseteq faults'
  BY <1>1, <1>3, <1>5, <1>6 DEF unpin, exec_function, ReceiveSchedule, ReceiveTrigger, ReceiveDepart,
       ReceiveUpdate, ReceiveUtilization, ReceiveDepartDone
<1>7. ASSUME NEW s \in Sched,
             \/ \E d \in DagName : create_dag(s, d) \/ delete_dag(s, d)
             \/ \E c \in Call : call_dag(s, c)
             \/ \E c \in Single : call_function(s, c)
             \/ \E e \in Exec : ReceiveStatus(s, e)
             \/ ReceivePinAccept(s) \/ PinTimeout(s) \/ ReportSchedule(s)
      PROVE  exited \subseteq exited' /\ faults \subseteq faults'
  BY <1>2, <1>3, <1>7 DEF create_dag, delete_dag, call_dag, call_function, ReceiveStatus,
       ReceivePinAccept, PinTimeout, ReportSchedule
<1> QED
  BY <1>4, <1>6, <1>7 DEF Next, replicate_function, dereplicate_function,
       check_executor_utilization, vars

(* So what was pinned is, as far as the executor has not exited.           *)
LEMMA PinnedKept ==
  ASSUME RuntimeInv, PinTypes, [Next]_vars
  PROVE  /\ \A e \in Exec : \A f : Pinned(f, e) => Pinned(f, e)'
         /\ \A e \in Exec : StatusAt(e) \subseteq StatusAt(e)'
         /\ \A e \in Exec : exec'[e].status \in StatusAt(e)'
         /\ \A e \in Exec : exec[e].status \in StatusAt(e)'
<1>1. \A e \in Exec : \A f : Pinned(f, e) => Pinned(f, e)'
  BY Grows, ExitedGrow DEF Evolves, Pinned
<1>2. \A e \in Exec : StatusAt(e) \subseteq StatusAt(e)'
  BY <1>1 DEF StatusAt
<1>3. \A e \in Exec : exec'[e].status \in StatusAt(e)'
  BY Grows DEF Evolves, Holding, StatusAt, Pinned
<1>4. \A e \in Exec : exec[e].status \in StatusAt(e)
  BY DEF PinTypes, Holding, StatusAt, Pinned
<1> QED
  BY <1>1, <1>2, <1>3, <1>4

------------------------------------------------------------------------------
(* The status updates under way tell what is pinned.                       *)
StatusesOK(st) ==
  /\ st = [e \in Exec |-> [s \in Sched |-> st[e][s]]]
  /\ \A e \in Exec, s \in Sched : st[e][s] \in Seq(StatusAt(e)')

LEMMA PushOK ==
  ASSUME NEW st, StatusesOK(st), NEW e, NEW x, e \in Exec => x \in StatusAt(e)'
  PROVE  StatusesOK(Push(st, e, x))
<1> DEFINE q == Push(st, e, x)
<1>1. q = [d \in Exec |-> IF d = e THEN [s \in Sched |-> IF s \in mgmt.schedulers
                                          THEN Append(st[d][s], x) ELSE st[d][s]] ELSE st[d]]
  BY DEF Push, StatusesOK
<1>2. \A d \in Exec : q[d] = [s \in Sched |-> q[d][s]]
  BY <1>1 DEF StatusesOK
<1>3. q = [d \in Exec |-> [s \in Sched |-> q[d][s]]]
  BY <1>1, <1>2
<1>4. ASSUME NEW d \in Exec, NEW s \in Sched PROVE q[d][s] \in Seq(StatusAt(d)')
  <2>1. st[d][s] \in Seq(StatusAt(d)')
    BY DEF StatusesOK
  <2>2. d = e => Append(st[d][s], x) \in Seq(StatusAt(d)')
    BY <2>1, Added
  <2>3. CASE d = e
    <3>1. q[d] = [t \in Sched |-> IF t \in mgmt.schedulers THEN Append(st[d][t], x) ELSE st[d][t]]
      BY <1>1, <2>3
    <3>2. q[d][s] = IF s \in mgmt.schedulers THEN Append(st[d][s], x) ELSE st[d][s]
      BY <3>1
    <3> QED
      BY <2>1, <2>2, <2>3, <3>2
  <2>4. CASE d # e
    BY <1>1, <2>1, <2>4
  <2> QED
    BY <2>3, <2>4
<1> HIDE DEF q
<1>5. StatusesOK(q)
  BY <1>3, <1>4 DEF StatusesOK
<1> QED
  BY <1>5 DEF q

LEMMA StatusesStep ==
  ASSUME RuntimeInv, PinTypes, [Next]_vars
  PROVE  StatusesOK(statuses')
<1>0. StatusesOK(statuses)
  BY PinnedKept, Wider DEF PinTypes, StatusesOK
<1>1. ASSUME NEW e, NEW got, NEW sent, NEW st, NEW ps, StatusesOK(st),
             Exit(e, got, sent, st, ps)
      PROVE  StatusesOK(statuses')
  <2>1. e \in Exec => exec'[e] = NewExecutor
    BY <1>1 DEF Exit, RuntimeInv, Shapes
  <2>2. e \in Exec => NewStatus \in StatusAt(e)'
    BY <2>1, PinnedKept, SMTT(60) DEF NewExecutor
  <2> QED
    BY <1>1, <2>2, PushOK DEF Exit
<1>2. ASSUME NEW e \in Exec, pin(e) PROVE StatusesOK(statuses')
  <2>1. \/ statuses' = Push(statuses, e, exec'[e].status)
        \/ \E ps : Exit(e, {}, {}, statuses, ps)
    BY <1>2 DEF pin, RuntimeInv, Shapes
  <2> QED
    BY <1>0, <1>1, <2>1, PushOK, PinnedKept
<1>3. ASSUME NEW e \in Exec, Report(e) PROVE StatusesOK(statuses')
  <2>1. StatusesOK(Push(statuses, e, exec[e].status))
    BY <1>0, PushOK, PinnedKept
  <2> QED
    BY <1>1, <1>3, <2>1 DEF Report
<1>4. ASSUME NEW m \in msgs, unpin(m) PROVE StatusesOK(statuses')
  BY <1>0, <1>1, <1>4 DEF unpin
<1>5. ASSUME NEW m \in msgs, exec_function(m) PROVE StatusesOK(statuses')
  <2>1. CASE Exit(m.to, {m}, {}, statuses, pins)
    BY <1>0, <1>1, <2>1
  <2>2. CASE statuses' = Push(statuses, m.to, exec[m.to].status)
    BY <1>0, <2>2, PushOK, PinnedKept
  <2> QED
    BY <1>5, <2>1, <2>2 DEF exec_function
<1>6. ASSUME NEW m \in msgs, ReceiveDepart(m) PROVE StatusesOK(statuses')
  <2> DEFINE gone == [running |-> FALSE, functions |-> {}]
  <2>1. ASSUME m.to \in Exec PROVE gone \in StatusAt(m.to)'
    <3>1. gone \in Status /\ gone.functions = {}
      BY SMTT(60) DEF Status
    <3> QED
      BY <3>1 DEF StatusAt
  <2> QED
    BY <1>0, <1>6, <2>1, PushOK DEF ReceiveDepart
<1>7. ASSUME NEW m, NEW e, NEW x, RunIfTriggered(e, x, m.call, m.func, m)
      PROVE  StatusesOK(statuses')
  BY <1>0, <1>1, <1>7 DEF RunIfTriggered, exec_dag_function
<1>8. ASSUME NEW s \in Sched, NEW e \in Exec, ReceiveStatus(s, e) PROVE StatusesOK(statuses')
  <2>1. statuses' = [statuses EXCEPT ![e][s] = Tail(@)] /\ statuses[e][s] # <<>>
    BY <1>8 DEF ReceiveStatus
  <2>2. ASSUME NEW d \in Exec, NEW t \in Sched
        PROVE  \/ statuses'[d][t] = statuses[d][t]
               \/ statuses'[d][t] = Tail(statuses[d][t]) /\ statuses[d][t] # <<>>
    <3>1. statuses'[d] = IF d = e THEN [statuses[e] EXCEPT ![s] = Tail(@)] ELSE statuses[d]
      BY <1>0, <2>1 DEF StatusesOK
    <3>2. statuses[d] = [r \in Sched |-> statuses[d][r]]
      BY <1>0 DEF StatusesOK
    <3>3. d = e => statuses'[d][t] = IF t = s THEN Tail(statuses[d][t]) ELSE statuses[d][t]
      BY <3>1, <3>2
    <3> QED
      BY <2>1, <3>1, <3>3
  <2>3. statuses' = [d \in Exec |-> [t \in Sched |-> statuses'[d][t]]]
    BY <1>0, <2>1 DEF StatusesOK
  <2>4. ASSUME NEW d \in Exec, NEW t \in Sched PROVE statuses'[d][t] \in Seq(StatusAt(d)')
    <3>1. statuses[d][t] \in Seq(StatusAt(d)')
      BY <1>0 DEF StatusesOK
    <3>2. statuses[d][t] # <<>> => Tail(statuses[d][t]) \in Seq(StatusAt(d)')
      BY <3>1, Taken
    <3> QED
      BY <2>2, <3>1, <3>2
  <2> QED
    BY <2>3, <2>4 DEF StatusesOK
<1>9. ASSUME UNCHANGED statuses PROVE StatusesOK(statuses')
  BY <1>0, <1>9
<1>10. ASSUME NEW m, ReceiveSchedule(m) \/ ReceiveTrigger(m) PROVE StatusesOK(statuses')
  BY <1>7, <1>10 DEF ReceiveSchedule, ReceiveTrigger
<1>11. ASSUME NEW m, ReceiveUpdate(m) \/ ReceiveUtilization(m) \/ ReceiveDepartDone(m)
       PROVE  UNCHANGED statuses
  BY <1>11 DEF ReceiveUpdate, ReceiveUtilization, ReceiveDepartDone
<1>12. ASSUME NEW s \in Sched, SchedulerStep(s) PROVE StatusesOK(statuses')
  BY <1>8, <1>9, <1>12, StatusesLeft
<1> QED
  BY <1>2, <1>3, <1>4, <1>5, <1>6, <1>9, <1>10, <1>11, <1>12, ManagementLeaves
     DEF Next, SchedulerStep, vars

------------------------------------------------------------------------------
(* What the schedulers know.  After a step of a scheduler its state is r.  *)
Informed(r) ==
  /\ Scheduler(r)
  /\ \A f \in Func : f \notin r.located => r.func_locations[f] = {}
  /\ "late" \notin faults' => \A f \in Func : \A e \in r.func_locations[f] : Pinned(f, e)'
Known(r) == Informed(r) /\ (r.creating = Idle \/ Asking(r.creating))
Knows(s) ==
  \E r : sched' = [sched EXCEPT ![s] = r] /\ (s \in Sched => Known(r) /\ r.creating = Idle)

(* A scheduler that creates a DAG has sent a request, or is done.          *)
Turn(s) ==
  \E r : /\ sched' = [sched EXCEPT ![s] = r] /\ Known(r)
         /\ \/ r.creating = Idle /\ pins' = pins
            \/ /\ Asking(r.creating)
               /\ pins' = Send(pins, s, r.creating.node, Wanted(r.creating))
         /\ \A m \in msgs' : m.kind = "update" => m \in msgs

LEMMA IdleTyped == Creating(Idle) /\ Idle.i = 0
<1>1. DOMAIN Idle = CreatingFields /\ Idle = [a \in DOMAIN Idle |-> Idle[a]]
      /\ Idle.candidates = {} /\ Idle.i = 0
  BY SMTT(60) DEF Idle, CreatingFields
<1> QED
  BY <1>1 DEF Creating

LEMMA NewKnown == Known(NewScheduler) /\ NewScheduler.creating = Idle
<1> DEFINE r == NewScheduler
<1>1. DOMAIN r = SchedFields /\ r = [a \in DOMAIN r |-> r[a]]
  BY DEF NewScheduler, SchedFields
<1>2. /\ r.creating = Idle /\ r.dags = {} /\ r.executors = {}
      /\ r.func_locations = [f \in Func |-> {}]
  BY SMTT(60) DEF NewScheduler
<1> HIDE DEF r
<1>3. Scheduler(r)
  BY <1>1, <1>2, IdleTyped DEF Scheduler
<1>4. Known(r)
  BY <1>2, <1>3 DEF Known, Informed
<1> QED
  BY <1>2, <1>4 DEF r

LEMMA CreatingOnly ==
  ASSUME NEW r, Informed(r), NEW c, Creating(c)
  PROVE  LET y == [r EXCEPT !.creating = c] IN Informed(y) /\ y.creating = c
<1> DEFINE y == [r EXCEPT !.creating = c]
<1>1. /\ y = [a \in SchedFields |-> y[a]] /\ y.creating = c
      /\ y.located = r.located /\ y.func_locations = r.func_locations
      /\ y.dags = r.dags /\ y.executors = r.executors
  BY DEF Informed, Scheduler, SchedFields
<1> HIDE DEF y
<1>2. Informed(y) /\ y.creating = c
  BY <1>1 DEF Informed, Scheduler
<1> QED
  BY <1>2 DEF y

LEMMA PinTurns ==
  ASSUME NEW s, NEW r, Informed(r), pin_func(s, r),
         r.creating.dag \in DagName, r.creating.i \in DOMAIN Functions[r.creating.dag]
  PROVE  Turn(s)
<1>0. Scheduler(r) /\ Creating(r.creating) /\ r.creating.candidates \subseteq Exec
  BY DEF Informed, Scheduler, Creating
<1>1. CASE CreateFails(s, r)
  <2> DEFINE y == [r EXCEPT !.creating = Idle]
  <2>1. Known(y) /\ y.creating = Idle
    BY IdleTyped, CreatingOnly DEF Known
  <2>2. \A m \in msgs' : m.kind = "update" => m \in msgs
    BY <1>1, SMTT(60) DEF CreateFails, UnpinRequest
  <2>3. sched' = [sched EXCEPT ![s] = y] /\ pins' = pins
    BY <1>1 DEF CreateFails
  <2> HIDE DEF y
  <2> QED
    BY <2>1, <2>2, <2>3 DEF Turn
<1>2. ASSUME NEW e \in r.creating.candidates,
             sched' = [sched EXCEPT ![s] = [r EXCEPT !.creating.node = e]],
             pins' = Send(pins, s, e, Functions[r.creating.dag][r.creating.i]),
             msgs' = msgs
      PROVE  Turn(s)
  <2> DEFINE c == [r.creating EXCEPT !.node = e]
             y == [r EXCEPT !.creating = c]
  <2>3. /\ c = [a \in CreatingFields |-> c[a]] /\ c.dag = r.creating.dag /\ c.i = r.creating.i
        /\ c.candidates = r.creating.candidates /\ c.node = e
    BY <1>0 DEF Creating, CreatingFields
  <2>4. sched' = [sched EXCEPT ![s] = y]
    BY <1>2
  <2> HIDE DEF c
  <2>5. Informed(y) /\ y.creating = c
    BY <1>0, <2>3, CreatingOnly DEF Creating
  <2>6. Asking(c) /\ pins' = Send(pins, s, c.node, Wanted(c))
    BY <1>2, <2>3 DEF Asking, Wanted
  <2> HIDE DEF y
  <2> QED
    BY <1>2, <2>4, <2>5, <2>6 DEF Turn, Known
<1> QED
  BY <1>1, <1>2 DEF pin_func

LEMMA CreateTurns ==
  ASSUME NEW s, NEW r, Informed(r), NEW i \in Nat \ {0}, CreateFrom(s, r, i),
         r.creating.dag \in DagName
  PROVE  Turn(s)
<1> DEFINE d == r.creating.dag
           X == r.executors \ Placed(r)
<1>0. /\ Scheduler(r) /\ Creating(r.creating)
      /\ d \in DagName /\ Functions[d] \in Seq(Func) /\ X \subseteq Exec
  BY DagAssumption DEF Informed, Scheduler
<1>1. CASE /\ sched' = [sched EXCEPT ![s] = [r EXCEPT !.creating = Idle, !.dags = @ \cup {d}]]
           /\ UNCHANGED <<pins, msgs>>
  <2> HIDE DEF d
  <2> DEFINE y == [r EXCEPT !.creating = Idle, !.dags = @ \cup {d}]
  <2>1. /\ y = [a \in SchedFields |-> y[a]] /\ y.creating = Idle
        /\ y.located = r.located /\ y.func_locations = r.func_locations
        /\ y.dags = r.dags \cup {d} /\ y.executors = r.executors
    BY <1>0 DEF Scheduler, SchedFields
  <2>2. sched' = [sched EXCEPT ![s] = y] /\ pins' = pins /\ msgs' = msgs
    BY <1>1
  <2> HIDE DEF y
  <2>3. Known(y)
    BY <1>0, <2>1, IdleTyped DEF Known, Informed, Scheduler
  <2> QED
    BY <2>1, <2>2, <2>3 DEF Turn
<1>2. CASE i <= Len(Functions[d]) /\ PinFrom(s, r, i)
  <2>1. pin_func(s, [r EXCEPT !.creating.i = i, !.creating.candidates = X])
    BY <1>2 DEF PinFrom
  <2>2. i \in DOMAIN Functions[d]
    BY <1>0, <1>2, SMTT(60)
  <2> HIDE DEF X
  <2> DEFINE c == [r.creating EXCEPT !.i = i, !.candidates = X]
             y == [r EXCEPT !.creating = c]
  <2>3. /\ c = [a \in CreatingFields |-> c[a]] /\ c.dag = d /\ c.i = i
        /\ c.candidates = X
    BY <1>0 DEF Creating, CreatingFields
  <2>4. y = [r EXCEPT !.creating.i = i, !.creating.candidates = X]
    BY <1>0 DEF Scheduler, SchedFields
  <2> HIDE DEF c
  <2>5. Informed(y) /\ y.creating = c
    BY <1>0, <2>3, CreatingOnly DEF Creating
  <2> HIDE DEF y, d
  <2> QED
    BY <1>0, <2>1, <2>2, <2>3, <2>4, <2>5, PinTurns
<1> QED
  BY <1>1, <1>2 DEF CreateFrom

(* The schedulers before the step, judged by what is pinned after it.      *)
LEMMA KnownBefore ==
  ASSUME RuntimeInv, PinInv, [Next]_vars, NEW s \in Sched
  PROVE  Known(sched[s])
<1>1. Knowing(sched[s])
  BY DEF PinInv, PinTypes
<1>2. ASSUME "late" \notin faults', NEW f \in Func, NEW e \in sched[s].func_locations[f]
      PROVE  Pinned(f, e)'
  <2>1. Pinned(f, e)
    BY <1>2, ExitedGrow DEF PinInv, Located
  <2>2. e \in Exec
    BY <1>1, <1>2 DEF Knowing, Scheduler
  <2> QED
    BY <2>1, <2>2, PinnedKept DEF PinInv
<1> QED
  BY <1>1, <1>2 DEF Known, Informed, Knowing

LEMMA WantedTyped ==
  ASSUME NEW c, Asking(c), Creating(c)
  PROVE  c.dag \in DagName /\ c.i \in Nat \ {0} /\ c.node \in Exec /\ Wanted(c) \in Func
<1>1. c.dag \in DagName /\ c.i \in DOMAIN Functions[c.dag] /\ c.node \in Exec
  BY DEF Asking, Creating
<1>2. Functions[c.dag] \in Seq(Func)
  BY <1>1, DagAssumption
<1> QED
  BY <1>1, <1>2, SMTT(60) DEF Wanted

LEMMA AnswerTurns ==
  ASSUME RuntimeInv, PinInv, [Next]_vars, NEW s \in Sched, ReceivePinAccept(s)
  PROVE  Turn(s)
<1> DEFINE r == sched[s]
           c == r.creating
<1>1. Known(r) /\ c # Idle
  BY KnownBefore DEF ReceivePinAccept, Free
<1>2. Asking(c) /\ Creating(c) /\ Scheduler(r)
  BY <1>1 DEF Known, Informed, Scheduler
<1>3. c.dag \in DagName /\ c.i \in Nat \ {0} /\ c.node \in Exec /\ Wanted(c) \in Func
  BY <1>2, WantedTyped
<1>4. c.i + 1 \in Nat \ {0}
  BY <1>3, SMTT(60)
<1>5. CASE Head(pin_accept[s]).success
  <2>n. PICK n \in Exec : n = c.node
    BY <1>3
  <2>f. PICK f \in Func : f = Wanted(c)
    BY <1>3
  <2> DEFINE b == [c EXCEPT !.pin_locations = @ \cup {<<n, f>>}]
             y == [r EXCEPT !.call_frequency = @ \cup {f}, !.located = @ \cup {f},
                     !.func_locations[f] = @ \cup {n},
                     !.creating.pin_locations = @ \cup {<<n, f>>}]
  <2>1. CreateFrom(s, y, c.i + 1)
    BY <1>5, <2>n, <2>f DEF ReceivePinAccept, Wanted
  <2>2. ASSUME "late" \notin faults' PROVE Pinned(f, n)'
    <3>1. Handshake(s)
      BY <2>2, ExitedGrow DEF PinInv
    <3>0. pin_accept[s] # <<>>
      BY DEF ReceivePinAccept
    <3>2. PICK a : pin_accept[s] = <<a>> /\ (a.success => Pinned(f, n))
      BY <2>n, <2>f, <3>0, <3>1 DEF Handshake
    <3>3. Head(pin_accept[s]) = a
      BY <3>2, SMTT(60)
    <3> QED
      BY <1>3, <1>5, <3>2, <3>3, PinnedKept DEF PinInv
  <2>3. /\ y = [a \in SchedFields |-> y[a]] /\ y.dags = r.dags /\ y.executors = r.executors
        /\ y.located = r.located \cup {f} /\ y.creating = b
        /\ y.func_locations = [r.func_locations EXCEPT ![f] = @ \cup {n}]
    BY <1>2 DEF Scheduler, SchedFields
  <2>4. b = [a \in CreatingFields |-> b[a]] /\ b.candidates = c.candidates /\ b.dag = c.dag
    BY <1>2 DEF Creating, CreatingFields
  <2> HIDE DEF y, b
  <2>5. Scheduler(y)
    <3>1. Creating(y.creating)
      BY <1>2, <2>3, <2>4 DEF Creating
    <3>2. y.func_locations \in [Func -> SUBSET Exec]
      <4>1. r.func_locations \in [Func -> SUBSET Exec]
        BY <1>2 DEF Scheduler
      <4>2. r.func_locations[f] \cup {n} \in SUBSET Exec
        BY <4>1
      <4> QED
        BY <2>3, <4>1, <4>2
    <3>3. y.dags \subseteq DagName /\ y.executors \subseteq Exec
      BY <1>2, <2>3 DEF Scheduler
    <3> QED
      BY <2>3, <3>1, <3>2, <3>3 DEF Scheduler
  <2>6. \A g \in Func : y.func_locations[g] = IF g = f THEN r.func_locations[g] \cup {n}
                                              ELSE r.func_locations[g]
    BY <1>2, <1>3, <2>3 DEF Scheduler
  <2>7. Informed(y)
    <3>1. Informed(r)
      BY <1>1 DEF Known
    <3>2. ASSUME NEW g \in Func, g \notin y.located PROVE y.func_locations[g] = {}
      BY <2>3, <2>6, <3>1, <3>2 DEF Informed
    <3>3. ASSUME "late" \notin faults', NEW g \in Func, NEW e \in y.func_locations[g]
          PROVE  Pinned(g, e)'
      <4>1. e \in r.func_locations[g] \/ (g = f /\ e = n)
        BY <2>6, <3>3
      <4> QED
        BY <2>2, <3>1, <3>3, <4>1 DEF Informed
    <3> QED
      BY <2>5, <3>2, <3>3 DEF Informed
  <2> QED
    BY <1>3, <1>4, <2>1, <2>3, <2>4, <2>7, CreateTurns
<1>6. CASE ~ Head(pin_accept[s]).success
  <2> DEFINE X == c.candidates \ {c.node}
             b == [c EXCEPT !.candidates = X]
             y == [r EXCEPT !.creating = b]
  <2>1. pin_func(s, [r EXCEPT !.creating.candidates = @ \ {c.node}])
    BY <1>6 DEF ReceivePinAccept
  <2>2. y = [r EXCEPT !.creating.candidates = @ \ {c.node}]
    BY <1>2 DEF Scheduler, SchedFields
  <2>3. /\ b = [a \in CreatingFields |-> b[a]] /\ b.candidates = X /\ b.dag = c.dag
        /\ b.i = c.i
    BY <1>2 DEF Creating, CreatingFields
  <2> HIDE DEF b
  <2>4. Creating(b)
    BY <1>2, <2>3 DEF Creating
  <2>5. Informed(y) /\ y.creating = b
    BY <1>1, <2>4, CreatingOnly DEF Known
  <2> HIDE DEF y
  <2> QED
    BY <1>2, <2>1, <2>2, <2>3, <2>5, PinTurns DEF Asking
<1> QED
  BY <1>5, <1>6

LEMMA CreateDagTurns ==
  ASSUME RuntimeInv, PinInv, [Next]_vars, NEW s \in Sched, NEW d \in DagName, create_dag(s, d),
         d \notin sched[s].dags
  PROVE  Turn(s)
<1> DEFINE r == sched[s]
           c == [Idle EXCEPT !.dag = d]
           y == [r EXCEPT !.creating = c]
<1>1. Known(r) /\ r.creating = Idle /\ Scheduler(r)
  BY KnownBefore DEF create_dag, Free, Known, Informed
<1>2. CreateFrom(s, [r EXCEPT !.creating.dag = d], 1)
  BY DEF create_dag
<1>3. y = [r EXCEPT !.creating.dag = d]
  BY <1>1 DEF Scheduler, SchedFields
<1>4. c = [a \in CreatingFields |-> c[a]] /\ c.dag = d /\ c.candidates = Idle.candidates
  BY IdleTyped DEF Creating, CreatingFields
<1> HIDE DEF c
<1>5. Creating(c)
  BY <1>4, IdleTyped DEF Creating
<1>6. Informed(y) /\ y.creating = c
  BY <1>1, <1>5, CreatingOnly DEF Known
<1> HIDE DEF y
<1>7. 1 \in Nat \ {0}
  BY SMTT(60)
<1> QED
  BY <1>2, <1>3, <1>4, <1>6, <1>7, CreateTurns

LEMMA StatusKnown ==
  ASSUME RuntimeInv, PinInv, [Next]_vars, NEW s \in Sched, NEW e \in Exec, ReceiveStatus(s, e)
  PROVE  Knows(s)
<1> DEFINE r == sched[s]
           old == r.thread_statuses[e]
           was == IF old = Unknown THEN {} ELSE old.functions
           without == [f \in Func |-> IF f \in was THEN r.func_locations[f] \ {e}
                                      ELSE r.func_locations[f]]
<1>1. Known(r) /\ r.creating = Idle
  BY KnownBefore DEF ReceiveStatus, Free
<1>2. Informed(r) /\ Scheduler(r) /\ r.func_locations \in [Func -> SUBSET Exec]
  BY <1>1 DEF Known, Informed, Scheduler
<1>3. PICK new \in StatusAt(e) : new = Head(statuses[e][s])
  BY Taken DEF ReceiveStatus, PinInv, PinTypes
<1>4. new.functions \subseteq Func /\ \A f \in new.functions : Pinned(f, e)'
  <2>1. new \in StatusAt(e)'
    BY PinnedKept DEF PinInv
  <2>2. new.functions \subseteq Func
    BY <2>1, SMTT(60) DEF StatusAt, Status
  <2> QED
    BY <2>1, <2>2 DEF StatusAt
<1>5. \A f \in Func : without[f] \subseteq r.func_locations[f]
  BY <1>2
<1> HIDE DEF was
<1>6. CASE sched' = [sched EXCEPT ![s] =
                [r EXCEPT !.executors = @ \cup {e}, !.thread_statuses[e] = new,
                   !.located = @ \cup new.functions,
                   !.func_locations = [f \in Func |-> IF f \in new.functions
                                         THEN without[f] \cup {e} ELSE without[f]]]]
  <2> DEFINE L == [f \in Func |-> IF f \in new.functions THEN without[f] \cup {e} ELSE without[f]]
             y == [r EXCEPT !.executors = @ \cup {e}, !.thread_statuses[e] = new,
                     !.located = @ \cup new.functions, !.func_locations = L]
  <2>1. sched' = [sched EXCEPT ![s] = y]
    BY <1>6
  <2>2. \A f \in Func : L[f] \subseteq r.func_locations[f] \cup {e}
                        /\ (f \notin new.functions => L[f] \subseteq r.func_locations[f])
    BY <1>5
  <2>3. L = [f \in Func |-> L[f]]
    OBVIOUS
  <2> HIDE DEF L, without
  <2>4. L \in [Func -> SUBSET Exec]
    <3>1. \A f \in Func : L[f] \in SUBSET Exec
      BY <1>2, <2>2
    <3> QED
      BY <2>3, <3>1
  <2>5. /\ y = [a \in SchedFields |-> y[a]] /\ y.dags = r.dags /\ y.executors = r.executors \cup {e}
        /\ y.located = r.located \cup new.functions /\ y.creating = r.creating
        /\ y.func_locations = L
    BY <1>2 DEF Scheduler, SchedFields
  <2> HIDE DEF y
  <2>6. Scheduler(y)
    BY <1>2, <2>4, <2>5 DEF Scheduler
  <2>7. ASSUME NEW f \in Func, f \notin y.located PROVE y.func_locations[f] = {}
    BY <1>2, <2>2, <2>5, <2>7 DEF Informed
  <2>8. ASSUME "late" \notin faults', NEW f \in Func, NEW d \in y.func_locations[f]
        PROVE  Pinned(f, d)'
    <3>1. d \in r.func_locations[f] \/ (f \in new.functions /\ d = e)
      BY <2>2, <2>5, <2>8
    <3> QED
      BY <1>2, <1>4, <2>8, <3>1 DEF Informed
  <2>9. Known(y)
    BY <1>1, <2>5, <2>6, <2>7, <2>8 DEF Known, Informed
  <2> QED
    BY <1>1, <2>1, <2>5, <2>9 DEF Knows
<1>7. CASE sched' = [sched EXCEPT ![s] =
                [r EXCEPT !.executors = @ \ {e}, !.thread_statuses[e] = Unknown,
                   !.func_locations = without]]
  <2> DEFINE y == [r EXCEPT !.executors = @ \ {e}, !.thread_statuses[e] = Unknown,
                     !.func_locations = without]
  <2>1. sched' = [sched EXCEPT ![s] = y]
    BY <1>7
  <2>3. without = [f \in Func |-> without[f]]
    OBVIOUS
  <2> HIDE DEF without
  <2>4. without \in [Func -> SUBSET Exec]
    <3>1. \A f \in Func : without[f] \in SUBSET Exec
      BY <1>2, <1>5
    <3> QED
      BY <2>3, <3>1
  <2>5. /\ y = [a \in SchedFields |-> y[a]] /\ y.dags = r.dags /\ y.executors = r.executors \ {e}
        /\ y.located = r.located /\ y.creating = r.creating
        /\ y.func_locations = without
    BY <1>2 DEF Scheduler, SchedFields
  <2> HIDE DEF y
  <2>6. Scheduler(y)
    BY <1>2, <2>4, <2>5 DEF Scheduler
  <2>7. ASSUME NEW f \in Func, f \notin y.located PROVE y.func_locations[f] = {}
    BY <1>2, <1>5, <2>5, <2>7 DEF Informed
  <2>8. ASSUME "late" \notin faults', NEW f \in Func, NEW d \in y.func_locations[f]
        PROVE  Pinned(f, d)'
    BY <1>2, <1>5, <2>5, <2>8 DEF Informed
  <2>9. Known(y)
    BY <1>1, <2>5, <2>6, <2>7, <2>8 DEF Known, Informed
  <2> QED
    BY <1>1, <2>1, <2>5, <2>9 DEF Knows
<1>8. CASE Crash(s, {})
  BY <1>8, NewKnown DEF Crash, Knows
<1> QED
  BY <1>3, <1>6, <1>7, <1>8 DEF ReceiveStatus, was

LEMMA UpdateKnown ==
  ASSUME RuntimeInv, PinInv, [Next]_vars, NEW m \in msgs, ReceiveUpdate(m)
  PROVE  Knows(m.to)
<1> DEFINE s == m.to
           r == sched[s]
           new == UNION {FuncsOf(d) : d \in m.dags \ r.dags}
           L == [f \in Func |-> r.func_locations[f] \cup m.func_locations[f]]
           y == [r EXCEPT !.dags = @ \cup m.dags, !.call_frequency = @ \cup new,
                   !.located = @ \cup new \cup {f \in Func : m.func_locations[f] # {}},
                   !.func_locations = L]
<1>1. sched' = [sched EXCEPT ![s] = y]
  BY DEF ReceiveUpdate
<1>2. ASSUME s \in Sched PROVE Known(y) /\ y.creating = Idle
  <2>1. Known(r)
    BY <1>2, KnownBefore
  <2>2. Informed(r) /\ Scheduler(r) /\ r.func_locations \in [Func -> SUBSET Exec]
    BY <2>1 DEF Known, Informed, Scheduler
  <2>3. m.dags \subseteq DagName /\ m.func_locations \in [Func -> SUBSET Exec]
    BY SMTT(60) DEF ReceiveUpdate, PinInv, PinTypes, Update
  <2>4. ASSUME "late" \notin faults', NEW f \in Func, NEW e \in m.func_locations[f]
        PROVE  Pinned(f, e)'
    <3>1. Pinned(f, e)
      BY <2>4, ExitedGrow DEF PinInv, Located, ReceiveUpdate
    <3>2. e \in Exec
      BY <2>3, <2>4
    <3> QED
      BY <3>1, <3>2, PinnedKept DEF PinInv
  <2>5. L \in [Func -> SUBSET Exec]
        /\ \A f \in Func : L[f] = r.func_locations[f] \cup m.func_locations[f]
    BY <2>2, <2>3
  <2> HIDE DEF L
  <2>6. /\ y = [a \in SchedFields |-> y[a]] /\ y.dags = r.dags \cup m.dags
        /\ y.executors = r.executors
        /\ y.located = r.located \cup new \cup {f \in Func : m.func_locations[f] # {}}
        /\ y.creating = r.creating
        /\ y.func_locations = L
    BY <2>2 DEF Scheduler, SchedFields
  <2> HIDE DEF y
  <2>7. Scheduler(y)
    BY <2>2, <2>3, <2>5, <2>6 DEF Scheduler
  <2>8. ASSUME NEW f \in Func, f \notin y.located PROVE y.func_locations[f] = {}
    <3>1. f \notin r.located /\ m.func_locations[f] = {}
      BY <2>6, <2>8
    <3>2. r.func_locations[f] = {}
      BY <2>2, <3>1 DEF Informed
    <3> QED
      BY <2>5, <2>6, <3>1, <3>2
  <2>9. ASSUME "late" \notin faults', NEW f \in Func, NEW d \in y.func_locations[f]
        PROVE  Pinned(f, d)'
    BY <2>2, <2>4, <2>5, <2>6, <2>9 DEF Informed
  <2> QED
    BY <2>6, <2>7, <2>8, <2>9 DEF Known, Informed, ReceiveUpdate, Free
<1> HIDE DEF y
<1> QED
  BY <1>1, <1>2 DEF Knows

LEMMA DeleteKnown ==
  ASSUME RuntimeInv, PinInv, [Next]_vars, NEW s \in Sched, NEW d \in DagName, delete_dag(s, d)
  PROVE  sched' = sched \/ Knows(s)
<1> DEFINE r == sched[s]
           locs == UNION {r.func_locations[f] : f \in FuncsOf(d)}
           L == [f \in Func |-> IF f \in FuncsOf(d) THEN {} ELSE r.func_locations[f]]
           y == [r EXCEPT !.dags = @ \ {d}, !.executors = @ \ locs,
                   !.located = @ \ FuncsOf(d), !.call_frequency = @ \ FuncsOf(d),
                   !.func_locations = L]
<1>1. \/ sched' = sched \/ sched' = [sched EXCEPT ![s] = y]
      \/ sched' = [sched EXCEPT ![s] = NewScheduler]
  BY DEF delete_dag, Crash
<1>2. Known(r)
  BY KnownBefore
<1>3. Informed(r) /\ Scheduler(r) /\ r.func_locations \in [Func -> SUBSET Exec]
  BY <1>2 DEF Known, Informed, Scheduler
<1>4. L \in [Func -> SUBSET Exec]
      /\ \A f \in Func : L[f] = {} \/ (L[f] = r.func_locations[f] /\ f \notin FuncsOf(d))
  BY <1>3
<1> HIDE DEF L, locs
<1>5. /\ y = [a \in SchedFields |-> y[a]] /\ y.dags = r.dags \ {d}
      /\ y.executors = r.executors \ locs /\ y.located = r.located \ FuncsOf(d)
      /\ y.creating = r.creating /\ y.func_locations = L
  BY <1>3 DEF Scheduler, SchedFields
<1> HIDE DEF y
<1>6. Scheduler(y)
  BY <1>3, <1>4, <1>5 DEF Scheduler
<1>7. ASSUME NEW f \in Func, f \notin y.located PROVE y.func_locations[f] = {}
  BY <1>3, <1>4, <1>5, <1>7 DEF Informed
<1>8. ASSUME "late" \notin faults', NEW f \in Func, NEW e \in y.func_locations[f]
      PROVE  Pinned(f, e)'
  BY <1>3, <1>4, <1>5, <1>8 DEF Informed
<1>9. r.creating = Idle
  BY DEF delete_dag, Free
<1>10. Known(y) /\ y.creating = Idle
  BY <1>2, <1>9, <1>5, <1>6, <1>7, <1>8 DEF Known, Informed
<1> QED
  BY <1>1, <1>10, NewKnown DEF Knows

LEMMA CallKnown ==
  ASSUME RuntimeInv, PinInv, [Next]_vars, NEW s \in Sched, NEW c, call_function(s, c)
  PROVE  Knows(s)
<1>1. ASSUME NEW e, sched' = [sched EXCEPT ![s].executors = @ \ {e}] PROVE Knows(s)
  <2> DEFINE r == sched[s]
             y == [r EXCEPT !.executors = @ \ {e}]
  <2>1. Known(r)
    BY KnownBefore
  <2>2. Informed(r) /\ Scheduler(r)
    BY <2>1 DEF Known, Informed
  <2>3. /\ y = [a \in SchedFields |-> y[a]] /\ y.dags = r.dags
        /\ y.executors = r.executors \ {e} /\ y.located = r.located
        /\ y.creating = r.creating /\ y.func_locations = r.func_locations
    BY <2>2 DEF Scheduler, SchedFields
  <2>4. sched' = [sched EXCEPT ![s] = y]
    BY <1>1 DEF PinInv, PinTypes
  <2> HIDE DEF y
  <2>5. Known(y) /\ y.creating = Idle
    BY <2>1, <2>2, <2>3 DEF Known, Informed, Scheduler, call_function, Free
  <2> QED
    BY <2>4, <2>5 DEF Knows
<1>2. CASE Crash(s, {})
  BY <1>2, NewKnown DEF Crash, Knows
<1> QED
  BY <1>1, <1>2 DEF call_function

LEMMA SchedStep ==
  ASSUME RuntimeInv, PinInv, [Next]_vars
  PROVE  /\ sched' = [s \in Sched |-> sched'[s]]
         /\ \A s \in Sched : Known(sched'[s])
<1> DEFINE OK == /\ sched' = [s \in Sched |-> sched'[s]]
                 /\ \A s \in Sched : Known(sched'[s])
<1>0. sched = [s \in Sched |-> sched[s]] /\ \A s \in Sched : Known(sched[s])
  BY KnownBefore DEF PinInv, PinTypes
<1>1. ASSUME NEW s, Knows(s) PROVE OK
  BY <1>0, <1>1 DEF Knows
<1>2. ASSUME NEW s, Turn(s) PROVE OK
  BY <1>0, <1>2 DEF Turn
<1>3. ASSUME sched' = sched PROVE OK
  BY <1>0, <1>3
<1> HIDE DEF OK
<1>4. ASSUME NEW s \in Sched, NEW d \in DagName, create_dag(s, d) PROVE OK
  BY <1>2, <1>3, <1>4, CreateDagTurns DEF create_dag
<1>5. ASSUME NEW s \in Sched, NEW c, call_dag(s, c) PROVE OK
  <2>1. sched' = sched \/ Knows(s)
    BY <1>5, NewKnown DEF call_dag, Crash, Knows
  <2> QED
    BY <1>1, <1>3, <2>1
<1>6. OK
  BY <1>1, <1>2, <1>3, <1>4, <1>5, DeleteKnown, CallKnown, StatusKnown, AnswerTurns, UpdateKnown
     DEF Next, pin, Report, unpin, exec_function, ReceiveSchedule, ReceiveTrigger, ReceiveDepart,
         ReceiveUtilization, ReceiveDepartDone, PinTimeout, ReportSchedule, replicate_function,
         dereplicate_function, check_executor_utilization, vars
<1> QED
  BY <1>6 DEF OK

------------------------------------------------------------------------------
(* The messages between the schedulers.                                    *)
LEMMA UpdateTyped ==
  ASSUME NEW t \in Sched, NEW D, D \subseteq DagName, NEW L \in [Func -> SUBSET Exec]
  PROVE  LET x == [kind |-> "update", to |-> t, dags |-> D, func_locations |-> L]
         IN x \in Update /\ x.func_locations = L
BY SMTT(60) DEF Update

LEMMA UpdatesStep ==
  ASSUME RuntimeInv, PinInv, [Next]_vars
  PROVE  \A m \in msgs' : m.kind = "update" =>
           /\ m \in Update
           /\ "late" \notin faults' =>
                \A f \in Func : \A e \in m.func_locations[f] : Pinned(f, e)'
<1> DEFINE OK(m) == /\ m \in Update
                    /\ "late" \notin faults' =>
                         \A f \in Func : \A e \in m.func_locations[f] : Pinned(f, e)'
<1>0. ASSUME NEW m \in msgs, m.kind = "update" PROVE OK(m)
  <2>1. m \in Update /\ m.func_locations \in [Func -> SUBSET Exec]
    BY <1>0, SMTT(60) DEF PinInv, PinTypes, Update
  <2>2. ASSUME "late" \notin faults', NEW f \in Func, NEW e \in m.func_locations[f]
        PROVE  Pinned(f, e)'
    BY <1>0, <2>1, <2>2, ExitedGrow, PinnedKept DEF PinInv, Located
  <2> QED
    BY <2>1, <2>2
<1> HIDE DEF OK
<1> DEFINE OnlyOld == \A m \in msgs' : m.kind = "update" => m \in msgs
<1>1. ASSUME NEW s \in Sched, ReportSchedule(s) PROVE \A m \in msgs' : m.kind = "update" => OK(m)
  <2> DEFINE r == sched[s]
             L == [f \in Func |-> IF f \in r.located THEN r.func_locations[f] ELSE {}]
  <2>1. Informed(r) /\ r.dags \subseteq DagName /\ r.func_locations \in [Func -> SUBSET Exec]
    BY KnownBefore DEF Known, Informed, Scheduler
  <2>2. L \in [Func -> SUBSET Exec] /\ \A f \in Func : L[f] \subseteq r.func_locations[f]
    BY <2>1
  <2>3. \A t : SchedulerStatus(t, r) = [kind |-> "update", to |-> t, dags |-> r.dags,
                                       func_locations |-> L]
    BY DEF SchedulerStatus
  <2> HIDE DEF L
  <2>4. ASSUME NEW t \in Sched PROVE OK(SchedulerStatus(t, r))
    <3>1. /\ SchedulerStatus(t, r) \in Update
          /\ SchedulerStatus(t, r).func_locations = L
      <4>1. PICK D : D = r.dags
        OBVIOUS
      <4>2. PICK x : x = [kind |-> "update", to |-> t, dags |-> D, func_locations |-> L]
        OBVIOUS
      <4>3. x \in Update /\ x.func_locations = L
        BY <2>1, <2>2, <4>1, <4>2, UpdateTyped
      <4>4. SchedulerStatus(t, r) = x
        BY <2>3, <4>1, <4>2
      <4> QED
        BY <4>3, <4>4
    <3> QED
      BY <2>1, <2>2, <3>1 DEF OK, Informed
  <2>5. mgmt.schedulers \subseteq Sched
    BY DEF PinInv, PinTypes
  <2> QED
    BY <1>0, <1>1, <2>4, <2>5 DEF ReportSchedule
<1>2. ASSUME NEW e, NEW got, NEW sent, NEW st, NEW ps, Exit(e, got, sent, st, ps),
             \A m \in sent : m.kind # "update"
      PROVE  OnlyOld
  BY <1>2 DEF Exit
<1>3. ASSUME NEW e \in Exec, Report(e) PROVE OnlyOld
  <2>1. Utilization(e).kind # "update" /\ DepartDone(e).kind # "update"
    BY SMTT(60) DEF Utilization, DepartDone
  <2> QED
    <3>1. \A m \in {Utilization(e)} \cup {Utilization(e), DepartDone(e)} : m.kind # "update"
      BY <2>1
    <3> QED
      BY <1>2, <1>3, <3>1 DEF Report
<1>p. ASSUME NEW e \in Exec, pin(e) PROVE OnlyOld
  <2>1. msgs' = msgs \/ \E ps : Exit(e, {}, {}, statuses, ps)
    BY <1>p DEF pin
  <2>2. (\E ps : Exit(e, {}, {}, statuses, ps)) => msgs' \subseteq msgs
    BY DEF Exit
  <2> QED
    BY <2>1, <2>2
<1>4. ASSUME OnlyWork PROVE OnlyOld
  BY <1>4, WorkKinds DEF OnlyWork
<1>u. \A e : UnpinRequest(e).kind # "update" /\ DepartRequest(e).kind # "update"
  BY SMTT(60) DEF UnpinRequest, DepartRequest
<1>11. ASSUME NEW s, SchedulerStep(s), ~ ReportSchedule(s) PROVE OnlyOld
  BY <1>4, <1>11, SchedulerSends
<1>12. ASSUME NEW m \in msgs,
              \/ unpin(m) \/ exec_function(m) \/ ReceiveSchedule(m) \/ ReceiveTrigger(m)
              \/ ReceiveDepart(m) \/ ReceiveUpdate(m) \/ ReceiveUtilization(m)
              \/ ReceiveDepartDone(m)
       PROVE  OnlyOld
  <2>1. ASSUME ReceiveUpdate(m) \/ ReceiveUtilization(m) \/ ReceiveDepartDone(m)
        PROVE  msgs' = msgs \ {m}
    BY <2>1 DEF ReceiveUpdate, ReceiveUtilization, ReceiveDepartDone
  <2> QED
    BY <1>4, <1>12, <2>1, ExecutorSends
<1>13. ASSUME \/ \E f \in Func : replicate_function(f) \/ dereplicate_function(f)
              \/ \E e \in Exec : check_executor_utilization(IpOf[e])
       PROVE  OnlyOld
  <2>1. \/ msgs' = msgs \/ \E e : msgs' = msgs \cup {UnpinRequest(e)}
        \/ \E S : msgs' = msgs \cup {DepartRequest(e) : e \in S}
    BY <1>13 DEF replicate_function, dereplicate_function, check_executor_utilization
  <2> QED
    BY <1>u, <2>1
<1>14. \A m \in msgs' : m.kind = "update" => OK(m)
  <2>1. ASSUME OnlyOld PROVE \A m \in msgs' : m.kind = "update" => OK(m)
    BY <1>0, <2>1
  <2> HIDE DEF OnlyOld
  <2>2. ASSUME UNCHANGED msgs PROVE OnlyOld
    BY <2>2 DEF OnlyOld
  <2> QED
    BY <1>1, <1>3, <1>p, <1>11, <1>12, <1>13, <2>1, <2>2 DEF Next, SchedulerStep, vars
<1> QED
  BY <1>14 DEF OK

LEMMA MgmtStep ==
  ASSUME PinTypes, [Next]_vars
  PROVE  mgmt' = [a \in MgmtFields |-> mgmt'[a]] /\ mgmt'.schedulers = mgmt.schedulers
<1> DEFINE Kept == mgmt' = [a \in MgmtFields |-> mgmt'[a]] /\ mgmt'.schedulers = mgmt.schedulers
<1>0. mgmt = [a \in MgmtFields |-> mgmt[a]]
  BY DEF PinTypes
<1>1. ASSUME NEW m \in msgs, ReceiveUtilization(m) \/ ReceiveDepartDone(m)
      PROVE  Kept
  BY <1>0, <1>1 DEF ReceiveUtilization, ReceiveDepartDone, MgmtFields
<1>2. ASSUME NEW e \in Exec, check_executor_utilization(IpOf[e])
      PROVE  Kept
  BY <1>0, <1>2 DEF check_executor_utilization, MgmtFields
<1>3. ASSUME UNCHANGED mgmt
      PROVE  Kept
  BY <1>0, <1>3
<1>4. ASSUME NEW e, pin(e) \/ Report(e) PROVE UNCHANGED mgmt
  BY <1>4 DEF pin, Report
<1>5. ASSUME NEW m, \/ unpin(m) \/ exec_function(m) \/ ReceiveSchedule(m) \/ ReceiveTrigger(m)
                    \/ ReceiveDepart(m) \/ ReceiveUpdate(m)
      PROVE  UNCHANGED mgmt
  BY <1>5 DEF unpin, exec_function, ReceiveSchedule, ReceiveTrigger, ReceiveDepart, ReceiveUpdate
<1>6. ASSUME NEW s \in Sched, SchedulerStep(s) PROVE UNCHANGED mgmt
  BY <1>6, SchedulerLeaves
<1> HIDE DEF Kept
<1>7. Kept
  BY <1>1, <1>2, <1>3, <1>4, <1>5, <1>6, ManagementLeaves DEF Next, SchedulerStep, vars
<1> QED
  BY <1>7 DEF Kept

------------------------------------------------------------------------------
(* The requests: one is sent, taken, or lost with the process it was for.  *)
Requests(q) == q \in [Exec -> Seq(Request)]

LEMMA SendAsks ==
  ASSUME NEW q, Requests(q), NEW s \in Sched \cup {"management"}, NEW e \in Exec, NEW f \in Func
  PROVE  LET p == Send(q, s, e, f)
         IN /\ Requests(p)
            /\ NotAsked(q, s) => AskedOnce(p, s, e, f)
            /\ \A t : t # s /\ NotAsked(q, t) => NotAsked(p, t)
            /\ \A t : \A d \in Exec : \A g :
                 t # s /\ AskedOnce(q, t, d, g) => AskedOnce(p, t, d, g)
<1> DEFINE x == [from |-> s, func |-> f]
           p == Send(q, s, e, f)
           n == Len(q[e]) + 1
<1>1. x \in Request /\ x.from = s /\ x.func = f
  BY SMTT(60) DEF Request
<1>2. p = [q EXCEPT ![e] = Append(q[e], x)]
  BY DEF Send
<1> HIDE DEF x
<1>3. q = [d \in Exec |-> q[d]] /\ \A d \in Exec : q[d] \in Seq(Request)
  BY DEF Requests
<1>4. p = [d \in Exec |-> IF d = e THEN Append(q[e], x) ELSE q[d]]
  BY <1>2, <1>3
<1>5. /\ Append(q[e], x) \in Seq(Request)
      /\ n \in DOMAIN Append(q[e], x) /\ Append(q[e], x)[n] = x
      /\ \A i \in DOMAIN Append(q[e], x) : i # n => i \in DOMAIN q[e]
      /\ \A i \in DOMAIN q[e] : /\ i # n /\ i \in DOMAIN Append(q[e], x)
                                 /\ Append(q[e], x)[i] = q[e][i]
  <2>1. q[e] \in Seq(Request)
    BY <1>3
  <2> QED
    BY <1>1, <2>1, Added
<1> HIDE DEF p, n
<1>6. Requests(p)
  BY <1>3, <1>4, <1>5 DEF Requests
<1>7. /\ n \in DOMAIN p[e] /\ p[e][n] = x
      /\ \A d \in Exec : \A i \in DOMAIN p[d] : (d # e \/ i # n) => i \in DOMAIN q[d] /\ p[d][i] = q[d][i]
      /\ \A d \in Exec : \A i \in DOMAIN q[d] : i \in DOMAIN p[d] /\ p[d][i] = q[d][i]
  BY <1>4, <1>5
<1>8. NotAsked(q, s) => AskedOnce(p, s, e, f)
  BY <1>1, <1>7, SMTT(60) DEF NotAsked, AskedOnce
<1>9. ASSUME NEW t, t # s, NotAsked(q, t) PROVE NotAsked(p, t)
  <2>1. ASSUME NEW d \in Exec, NEW i \in DOMAIN p[d], p[d][i].from = t PROVE FALSE
    <3>1. d # e \/ i # n
      BY <1>1, <1>7, <1>9, <2>1
    <3>2. i \in DOMAIN q[d] /\ p[d][i] = q[d][i]
      BY <1>7, <3>1
    <3> QED
      BY <1>9, <2>1, <3>2 DEF NotAsked
  <2> QED
    BY <2>1 DEF NotAsked
<1>10. ASSUME NEW t, NEW d \in Exec, NEW g, t # s, AskedOnce(q, t, d, g) PROVE AskedOnce(p, t, d, g)
  <2>1. PICK k \in DOMAIN q[d] :
          /\ q[d][k].from = t /\ q[d][k].func = g
          /\ \A b \in Exec : \A i \in DOMAIN q[b] : q[b][i].from = t => b = d /\ i = k
    BY <1>10 DEF AskedOnce
  <2>2. k \in DOMAIN p[d] /\ p[d][k].from = t /\ p[d][k].func = g
    BY <1>7, <2>1
  <2>3. ASSUME NEW b \in Exec, NEW i \in DOMAIN p[b], p[b][i].from = t PROVE b = d /\ i = k
    <3>1. b # e \/ i # n
      BY <1>1, <1>7, <1>10, <2>3
    <3>2. i \in DOMAIN q[b] /\ p[b][i] = q[b][i]
      BY <1>7, <3>1
    <3> QED
      BY <2>1, <2>3, <3>2
  <2> QED
    BY <2>2, <2>3 DEF AskedOnce
<1> QED
  BY <1>6, <1>8, <1>9, <1>10 DEF p

LEMMA TakeAsks ==
  ASSUME NEW q, Requests(q), NEW e \in Exec, q[e] # <<>>
  PROVE  LET p == [q EXCEPT ![e] = Tail(@)]
             m == Head(q[e])
         IN /\ Requests(p)
            /\ \A t : NotAsked(q, t) => NotAsked(p, t) /\ t # m.from
            /\ \A t : \A d \in Exec : \A g : AskedOnce(q, t, d, g) =>
                 IF t = m.from THEN NotAsked(p, t) /\ d = e /\ g = m.func
                 ELSE AskedOnce(p, t, d, g)
<1> DEFINE p == [q EXCEPT ![e] = Tail(@)]
           m == Head(q[e])
<1>1. q = [d \in Exec |-> q[d]] /\ \A d \in Exec : q[d] \in Seq(Request)
  BY DEF Requests
<1>2. p = [d \in Exec |-> IF d = e THEN Tail(q[e]) ELSE q[d]]
  BY <1>1
<1>3. /\ Tail(q[e]) \in Seq(Request)
      /\ 1 \in DOMAIN q[e] /\ m = q[e][1]
      /\ \A i \in DOMAIN Tail(q[e]) : i + 1 \in DOMAIN q[e] /\ Tail(q[e])[i] = q[e][i + 1]
      /\ \A i \in DOMAIN q[e] : i # 1 => i - 1 \in DOMAIN Tail(q[e]) /\ Tail(q[e])[i - 1] = q[e][i]
  BY <1>1, Taken
<1> HIDE DEF p, m
<1>4. Requests(p)
  BY <1>1, <1>2, <1>3 DEF Requests
<1>5. p[e] = Tail(q[e]) /\ \A d \in Exec : d # e => p[d] = q[d]
  BY <1>2
<1> DEFINE Was(d, i) == IF d = e THEN i + 1 ELSE i
<1>6. /\ \A i \in DOMAIN p[e] : /\ Was(e, i) \in DOMAIN q[e] /\ Was(e, i) # 1
                                /\ p[e][i] = q[e][Was(e, i)]
                                /\ \A k \in DOMAIN p[e] : Was(e, i) = Was(e, k) => i = k
      /\ \A k \in DOMAIN q[e] : k = 1 \/ \E i \in DOMAIN p[e] : Was(e, i) = k
  BY <1>1, <1>3, <1>5, Shifted
<1>7. \A d \in Exec : \A i \in DOMAIN p[d] :
        /\ Was(d, i) \in DOMAIN q[d] /\ (d = e => Was(d, i) # 1) /\ p[d][i] = q[d][Was(d, i)]
        /\ \A k \in DOMAIN p[d] : Was(d, i) = Was(d, k) => i = k
  BY <1>5, <1>6
<1>8. \A d \in Exec : \A k \in DOMAIN q[d] :
        (d = e /\ k = 1) \/ \E i \in DOMAIN p[d] : Was(d, i) = k
  BY <1>5, <1>6
<1> HIDE DEF Was
<1>9. ASSUME NEW t, NotAsked(q, t) PROVE NotAsked(p, t) /\ t # m.from
  BY <1>3, <1>7, <1>9, SMTT(60) DEF NotAsked
<1>10. ASSUME NEW t, NEW d \in Exec, NEW g, AskedOnce(q, t, d, g)
       PROVE  IF t = m.from THEN NotAsked(p, t) /\ d = e /\ g = m.func ELSE AskedOnce(p, t, d, g)
  <2>1. PICK k \in DOMAIN q[d] :
          /\ q[d][k].from = t /\ q[d][k].func = g
          /\ \A b \in Exec : \A i \in DOMAIN q[b] : q[b][i].from = t => b = d /\ i = k
    BY <1>10 DEF AskedOnce
  <2>2. \A b \in Exec : \A i \in DOMAIN p[b] : p[b][i].from = t => b = d /\ Was(b, i) = k
    <3>1. \A b \in Exec : \A i \in DOMAIN p[b] :
            Was(b, i) \in DOMAIN q[b] /\ p[b][i] = q[b][Was(b, i)]
      BY <1>7
    <3> QED
      BY <2>1, <3>1
  <2>3. CASE t = m.from
    <3>1. d = e /\ k = 1 /\ g = m.func
      BY <1>3, <2>1, <2>3
    <3>2. NotAsked(p, t)
      BY <1>7, <2>2, <3>1 DEF NotAsked
    <3> QED
      BY <2>3, <3>1, <3>2
  <2>4. CASE t # m.from
    <3>1. d # e \/ k # 1
      BY <1>3, <2>1, <2>4
    <3>2. PICK j \in DOMAIN p[d] : Was(d, j) = k
      BY <1>8, <3>1
    <3>3. p[d][j] = q[d][k]
      BY <1>7, <3>2
    <3>4. \A b \in Exec : \A i \in DOMAIN p[b] : p[b][i].from = t => b = d /\ i = j
      BY <1>7, <2>2, <3>2, SMTT(60)
    <3> QED
      BY <2>1, <2>4, <3>3, <3>4 DEF AskedOnce
  <2> QED
    BY <2>3, <2>4
<1> QED
  BY <1>4, <1>9, <1>10 DEF p, m

LEMMA LoseAsks ==
  ASSUME NEW q, Requests(q), NEW e
  PROVE  LET p == [q EXCEPT ![e] = <<>>]
         IN /\ Requests(p)
            /\ \A t : NotAsked(q, t) => NotAsked(p, t)
            /\ \A t : \A d \in Exec : \A g :
                 AskedOnce(q, t, d, g) => AskedOnce(p, t, d, g) \/ NotAsked(p, t)
<1> DEFINE p == [q EXCEPT ![e] = <<>>]
<1>1. q = [d \in Exec |-> q[d]] /\ \A d \in Exec : q[d] \in Seq(Request)
  BY DEF Requests
<1>2. p = [d \in Exec |-> IF d = e THEN <<>> ELSE q[d]]
  BY <1>1
<1>3. DOMAIN <<>> = {} /\ <<>> \in Seq(Request)
  BY SMTT(60)
<1> HIDE DEF p
<1>4. Requests(p)
  BY <1>1, <1>2, <1>3 DEF Requests
<1>5. \A d \in Exec : (d = e /\ DOMAIN p[d] = {}) \/ (d # e /\ p[d] = q[d])
  BY <1>2, <1>3
<1>6. \A t : NotAsked(q, t) => NotAsked(p, t)
  BY <1>5 DEF NotAsked
<1>7. ASSUME NEW t, NEW d \in Exec, NEW g, AskedOnce(q, t, d, g)
      PROVE  AskedOnce(p, t, d, g) \/ NotAsked(p, t)
  BY <1>5, <1>7, SMTT(60) DEF AskedOnce, NotAsked
<1> QED
  BY <1>4, <1>6, <1>7 DEF p

------------------------------------------------------------------------------
(* The handshake of a scheduler and the executor that it asks.             *)
LEMMA Asks ==
  ASSUME NEW r, Known(r), r.creating # Idle
  PROVE  /\ r.creating.node \in Exec /\ Wanted(r.creating) \in Func
BY WantedTyped DEF Known, Informed, Scheduler

LEMMA AskingBusy ==
  ASSUME NEW c, Asking(c)
  PROVE  c # Idle
<1>1. Functions[c.dag] \in Seq(Func) /\ c.i \in DOMAIN Functions[c.dag]
  BY DagAssumption DEF Asking
<1>2. c.i # 0
  BY <1>1, SMTT(60)
<1> QED
  BY <1>2, IdleTyped

LEMMA Framed ==
  ASSUME RuntimeInv, PinInv, [Next]_vars, NEW t \in Sched, Handshake(t),
         sched'[t].creating = sched[t].creating, pin_accept'[t] = pin_accept[t],
         NotAsked(pins, t) => NotAsked(pins', t),
         \A d \in Exec : \A g :
           AskedOnce(pins, t, d, g) => AskedOnce(pins', t, d, g) \/ NotAsked(pins', t)
  PROVE  Handshake(t)'
<1> DEFINE c == sched[t].creating
<1>1. PICK n, f : n = c.node /\ f = Wanted(c)
  OBVIOUS
<1>2. c # Idle => n \in Exec
  BY <1>1, KnownBefore, Asks
<1>3. Free(t)' <=> Free(t)
  BY DEF Free
<1>4. n = sched'[t].creating.node /\ f = Wanted(sched'[t].creating)
  BY <1>1
<1>5. CASE NotAsked(pins, t) /\ pin_accept[t] = <<>>
  BY <1>5 DEF Handshake
<1>6. CASE ~ Free(t) /\ AskedOnce(pins, t, n, f) /\ pin_accept[t] = <<>>
  <2>1. AskedOnce(pins', t, n, f) \/ NotAsked(pins', t)
    BY <1>2, <1>6 DEF Free
  <2> QED
    BY <1>3, <1>4, <1>6, <2>1 DEF Handshake
<1>7. ASSUME ~ Free(t), NotAsked(pins, t), NEW a, pin_accept[t] = <<a>>,
             a.success => Pinned(f, n)
      PROVE  Handshake(t)'
  <2>1. a.success => Pinned(f, n)'
    BY <1>2, <1>7, PinnedKept DEF Free, PinInv
  <2>2. Pinned(f, n)' = Pinned(Wanted(sched[t].creating), sched[t].creating.node)'
    BY <1>4
  <2> QED
    BY <1>3, <1>7, <2>1, <2>2 DEF Handshake
<1> QED
  BY <1>1, <1>5, <1>6, <1>7 DEF Handshake

(* The requests and the answers, but for the executors' answers.           *)
LEMMA TurnHandshake ==
  ASSUME RuntimeInv, PinInv, [Next]_vars, NEW s \in Sched, Turn(s),
         pin_accept' = pin_accept \/ pin_accept' = [pin_accept EXCEPT ![s] = Tail(@)]
  PROVE  /\ Requests(pins')
         /\ pin_accept' = [t \in Sched |-> pin_accept'[t]]
         /\ /\ \A t \in Sched : Handshake(t)
            /\ NotAsked(pins, s) /\ pin_accept'[s] = <<>>
            => \A t \in Sched : Handshake(t)'
<1>0. Requests(pins) /\ pin_accept = [t \in Sched |-> pin_accept[t]]
      /\ sched = [t \in Sched |-> sched[t]]
  BY DEF PinInv, PinTypes, Requests
<1>1. PICK r : /\ sched' = [sched EXCEPT ![s] = r] /\ Known(r)
               /\ \/ r.creating = Idle /\ pins' = pins
                  \/ /\ Asking(r.creating)
                     /\ pins' = Send(pins, s, r.creating.node, Wanted(r.creating))
  BY DEF Turn
<1>2. PICK n, f : n = r.creating.node /\ f = Wanted(r.creating)
  OBVIOUS
<1>3. Asking(r.creating) => r.creating # Idle /\ n \in Exec /\ f \in Func
  BY <1>1, <1>2, AskingBusy, Asks
<1>4. sched'[s] = r /\ \A t \in Sched : t # s => sched'[t] = sched[t] /\ pin_accept'[t] = pin_accept[t]
  BY <1>0, <1>1
<1>5. Asking(r.creating) => pins' = Send(pins, s, n, f)
  BY <1>1, <1>2, <1>3
<1>6. Requests(pins')
  BY <1>0, <1>1, <1>3, <1>5, SendAsks, SMTT(60)
<1>7. ASSUME \A t \in Sched : Handshake(t), NotAsked(pins, s), pin_accept'[s] = <<>>,
             NEW t \in Sched
      PROVE  Handshake(t)'
  <2>1. CASE t # s
    <3>1. NotAsked(pins, t) => NotAsked(pins', t)
      BY <1>0, <1>1, <1>3, <1>5, <2>1, SendAsks, SMTT(60)
    <3>2. \A d \in Exec : \A g : AskedOnce(pins, t, d, g) => AskedOnce(pins', t, d, g)
      BY <1>0, <1>1, <1>3, <1>5, <2>1, SendAsks, SMTT(60)
    <3> QED
      BY <1>4, <1>7, <2>1, <3>1, <3>2, Framed
  <2>2. CASE t = s /\ Asking(r.creating)
    <3>1. AskedOnce(pins', s, n, f)
      BY <1>0, <1>3, <1>5, <1>7, <2>2, SendAsks, SMTT(60)
    <3>2. ~ Free(s)' /\ n = sched'[s].creating.node /\ f = Wanted(sched'[s].creating)
      BY <1>2, <1>3, <1>4, <2>2 DEF Free
    <3> QED
      BY <1>7, <2>2, <3>1, <3>2 DEF Handshake
  <2>3. CASE t = s /\ pins' = pins
    BY <1>7, <2>3 DEF Handshake
  <2> QED
    BY <1>1, <2>1, <2>2, <2>3
<1> QED
  BY <1>0, <1>6, <1>7

(* What a step does to the requests and the answers.                       *)
Asked ==
  /\ Requests(pins')
  /\ pin_accept' = [t \in Sched |-> pin_accept'[t]]
  /\ "late" \notin faults' => \A t \in Sched : Handshake(t)'

LEMMA Before ==
  ASSUME PinInv, [Next]_vars
  PROVE  /\ Requests(pins) /\ pin_accept = [t \in Sched |-> pin_accept[t]]
         /\ sched = [t \in Sched |-> sched[t]]
         /\ "late" \notin faults' => \A t \in Sched : Handshake(t)
BY ExitedGrow DEF PinInv, PinTypes, Requests

LEMMA PinAsked ==
  ASSUME RuntimeInv, PinInv, [Next]_vars, NEW e \in Exec, pin(e)
  PROVE  Asked
<1> DEFINE m == Head(pins[e])
           x == exec[e]
           ok == x.pinned_functions = {} /\ x.status.running
<1>1. PICK a : a = [success |-> ok, node |-> e, func |-> m.func]
  OBVIOUS
<1>2. a.success = ok
  BY <1>1, SMTT(60)
<1> DEFINE taken == [pins EXCEPT ![e] = Tail(@)]
<1>3. /\ pins[e] # <<>> /\ sched' = sched
      /\ pins' = taken \/ pins' = [taken EXCEPT ![e] = <<>>]
      /\ pin_accept' = IF m.from \in Sched
                       THEN [pin_accept EXCEPT ![m.from] = Append(@, a)] ELSE pin_accept
  BY <1>1 DEF pin, Exit
<1>4. PICK from, func : from = m.from /\ func = m.func
  OBVIOUS
<1>p. a.success => Pinned(func, e)'
  <2>1. ok => \/ exec' = [exec EXCEPT ![e] = [x EXCEPT !.pinned_functions = {func},
                                                      !.status.functions = @ \cup {func}]]
              \/ e \in exited'
    BY <1>4 DEF pin, Exit
  <2>2. Shaped(x) /\ exec = [d \in Exec |-> exec[d]]
    BY DEF RuntimeInv, Shapes
  <2>3. ok => exec'[e].pinned_functions = {func} \/ e \in exited'
    BY <2>1, <2>2 DEF Shaped, Fields
  <2> QED
    BY <1>2, <2>3 DEF Pinned
<1> HIDE DEF ok, x
<1>t. /\ Requests(taken)
      /\ \A t : NotAsked(pins, t) => NotAsked(taken, t) /\ t # from
      /\ \A t : \A d \in Exec : \A g : AskedOnce(pins, t, d, g) =>
           IF t = from THEN NotAsked(taken, t) /\ d = e /\ g = func
           ELSE AskedOnce(taken, t, d, g)
  BY <1>3, <1>4, TakeAsks, Before
<1> HIDE DEF taken
<1>l. /\ Requests(pins')
      /\ \A t : NotAsked(taken, t) => NotAsked(pins', t)
      /\ \A t : \A d \in Exec : \A g :
           AskedOnce(taken, t, d, g) => AskedOnce(pins', t, d, g) \/ NotAsked(pins', t)
  BY <1>3, <1>t, LoseAsks
<1>5. /\ Requests(pins')
      /\ \A t : NotAsked(pins, t) => NotAsked(pins', t) /\ t # from
      /\ \A t : \A d \in Exec : \A g : AskedOnce(pins, t, d, g) =>
           IF t = from THEN NotAsked(pins', t) /\ d = e /\ g = func
           ELSE AskedOnce(pins', t, d, g) \/ NotAsked(pins', t)
  BY <1>t, <1>l, SMTT(60)
<1>6. pin_accept' = [t \in Sched |-> IF t = from THEN Append(pin_accept[t], a) ELSE pin_accept[t]]
  BY <1>3, <1>4, Before
<1> HIDE DEF m
<1>7. ASSUME "late" \notin faults', NEW t \in Sched PROVE Handshake(t)'
  <2>1. Handshake(t)
    BY <1>7, Before
  <2>2. CASE t # from
    BY <1>3, <1>5, <1>6, <2>1, <2>2, Framed
  <2>3. CASE t = from
    <3>1. PICK n, f : n = sched[t].creating.node /\ f = Wanted(sched[t].creating)
      OBVIOUS
    <3>2. ~ Free(t) /\ AskedOnce(pins, t, n, f) /\ pin_accept[t] = <<>>
      BY <1>5, <2>1, <2>3, <3>1 DEF Handshake
    <3>3. n \in Exec
      BY <3>1, <3>2, KnownBefore, Asks DEF Free
    <3>4. NotAsked(pins', t) /\ n = e /\ f = func
      BY <1>5, <2>3, <3>2, <3>3, SMTT(60)
    <3>5. pin_accept'[t] = <<a>>
      <4>1. pin_accept'[t] = Append(<<>>, a)
        BY <1>6, <2>3, <3>2
      <4> QED
        BY <4>1, SMTT(60)
    <3>6. ~ Free(t)' /\ n = sched'[t].creating.node /\ f = Wanted(sched'[t].creating)
      BY <1>3, <3>1, <3>2 DEF Free
    <3>7. a.success => Pinned(f, n)'
      BY <1>p, <3>4
    <3>8. Pinned(f, n)' = Pinned(Wanted(sched[t].creating), sched[t].creating.node)'
      BY <3>6
    <3> QED
      BY <3>4, <3>5, <3>6, <3>7, <3>8 DEF Handshake
  <2> QED
    BY <2>2, <2>3
<1> QED
  BY <1>5, <1>6, <1>7 DEF Asked

LEMMA TimeoutAsked ==
  ASSUME RuntimeInv, PinInv, [Next]_vars, NEW s \in Sched, PinTimeout(s)
  PROVE  Asked
<1>1. PICK n, f : n = sched[s].creating.node /\ f = Wanted(sched[s].creating)
  OBVIOUS
<1>2. /\ pins' = Send(pins, s, n, f) /\ sched' = sched /\ pin_accept' = pin_accept
      /\ ~ Free(s) /\ ~ Free(s)'
  BY <1>1 DEF PinTimeout, Wanted, Free
<1>3. n \in Exec /\ f \in Func
  BY <1>1, <1>2, KnownBefore, Asks DEF Free
<1>4. \/ "late" \in faults'
      \/ pin_accept[s] = <<>> /\ \A i \in DOMAIN pins[n] : pins[n][i].from # s
  BY <1>1 DEF PinTimeout, Fault
<1>5. /\ Requests(pins')
      /\ NotAsked(pins, s) => AskedOnce(pins', s, n, f)
      /\ \A t : t # s /\ NotAsked(pins, t) => NotAsked(pins', t)
      /\ \A t : \A d \in Exec : \A g :
           t # s /\ AskedOnce(pins, t, d, g) => AskedOnce(pins', t, d, g)
  BY <1>2, <1>3, SendAsks, Before
<1>6. ASSUME "late" \notin faults', NEW t \in Sched PROVE Handshake(t)'
  <2>1. Handshake(t)
    BY <1>6, Before
  <2>2. CASE t # s
    BY <1>2, <1>5, <2>1, <2>2, Framed
  <2>3. CASE t = s
    <3>1. ~ AskedOnce(pins, s, n, f) /\ pin_accept[s] = <<>>
      BY <1>4, <1>6 DEF AskedOnce
    <3>2. NotAsked(pins, s)
      BY <1>1, <2>1, <2>3, <3>1 DEF Handshake
    <3>3. n = sched'[s].creating.node /\ f = Wanted(sched'[s].creating) /\ pin_accept'[s] = <<>>
      BY <1>1, <1>2, <3>1
    <3> QED
      BY <1>2, <1>5, <2>3, <3>2, <3>3 DEF Handshake
  <2> QED
    BY <2>2, <2>3
<1> QED
  BY <1>2, <1>5, <1>6, Before DEF Asked

(* A scheduler that creates no DAG waits for no answer.                    *)
LEMMA FreeAsked ==
  ASSUME RuntimeInv, PinInv, [Next]_vars, NEW s, Free(s), sched' = sched \/ Knows(s),
         pins' = pins,
         pin_accept' = pin_accept \/ pin_accept' = [pin_accept EXCEPT ![s] = <<>>]
  PROVE  Asked
<1>1. \A t \in Sched : sched'[t].creating = sched[t].creating
  BY Before DEF Knows, Free
<1>2. pin_accept' = [t \in Sched |-> pin_accept'[t]]
      /\ \A t \in Sched : pin_accept'[t] = pin_accept[t] \/ (t = s /\ pin_accept'[t] = <<>>)
  BY Before
<1>3. ASSUME "late" \notin faults', NEW t \in Sched PROVE Handshake(t)'
  <2>1. Handshake(t)
    BY <1>3, Before
  <2>2. t = s => pin_accept[t] = <<>>
    BY <2>1 DEF Handshake
  <2> QED
    BY <1>1, <1>2, <2>1, <2>2, Framed
<1> QED
  BY <1>2, <1>3, Before DEF Asked

LEMMA ExitAsked ==
  ASSUME RuntimeInv, PinInv, [Next]_vars, NEW e,
         pins' = pins \/ pins' = [pins EXCEPT ![e] = <<>>],
         sched' = sched, pin_accept' = pin_accept
  PROVE  Asked
<1>1. /\ Requests(pins')
      /\ \A t : NotAsked(pins, t) => NotAsked(pins', t)
      /\ \A t : \A d \in Exec : \A g :
           AskedOnce(pins, t, d, g) => AskedOnce(pins', t, d, g) \/ NotAsked(pins', t)
  BY LoseAsks, Before
<1>2. ASSUME "late" \notin faults', NEW t \in Sched PROVE Handshake(t)'
  BY <1>1, <1>2, Framed, Before
<1> QED
  BY <1>1, <1>2, Before DEF Asked

LEMMA ReplicateAsked ==
  ASSUME RuntimeInv, PinInv, [Next]_vars, NEW f \in Func, replicate_function(f)
  PROVE  Asked
<1>1. PICK e \in Exec : pins' = Send(pins, "management", e, f)
  BY DEF replicate_function, Send, Reported
<1>2. /\ Requests(pins')
      /\ \A t : t # "management" /\ NotAsked(pins, t) => NotAsked(pins', t)
      /\ \A t : \A d \in Exec : \A g :
           t # "management" /\ AskedOnce(pins, t, d, g) => AskedOnce(pins', t, d, g)
  BY <1>1, SendAsks, Before
<1>3. sched' = sched /\ pin_accept' = pin_accept
  BY DEF replicate_function
<1>4. ASSUME "late" \notin faults', NEW t \in Sched PROVE Handshake(t)'
  <2>1. t # "management"
    BY DagAssumption
  <2> QED
    BY <1>2, <1>3, <1>4, <2>1, Framed, Before
<1> QED
  BY <1>2, <1>3, <1>4, Before DEF Asked

LEMMA AskedStep ==
  ASSUME RuntimeInv, PinInv, [Next]_vars
  PROVE  Asked
<1>1. ASSUME NEW s \in Sched, ReceivePinAccept(s) PROVE Asked
  <2>1. /\ Turn(s) /\ pin_accept[s] # <<>>
        /\ pin_accept' = [pin_accept EXCEPT ![s] = Tail(@)]
    BY <1>1, AnswerTurns DEF ReceivePinAccept
  <2>2. Handshake(s) => NotAsked(pins, s) /\ \E a : pin_accept[s] = <<a>>
    BY <2>1 DEF Handshake
  <2>3. \A a : Tail(<<a>>) = <<>>
    BY SMTT(60)
  <2>4. Handshake(s) => NotAsked(pins, s) /\ pin_accept'[s] = <<>>
    BY <2>1, <2>2, <2>3, Before
  <2> QED
    BY <2>1, <2>4, TurnHandshake, Before DEF Asked
<1>2. ASSUME NEW s \in Sched, NEW d \in DagName, create_dag(s, d) PROVE Asked
  <2>1. Free(s) /\ pin_accept' = pin_accept
    BY <1>2 DEF create_dag
  <2>2. Handshake(s) => NotAsked(pins, s) /\ pin_accept'[s] = <<>>
    BY <2>1 DEF Handshake
  <2>3. ASSUME Turn(s) PROVE Asked
    BY <2>1, <2>2, <2>3, TurnHandshake, Before DEF Asked
  <2>4. ASSUME sched' = sched, pins' = pins PROVE Asked
    BY <2>1, <2>4, FreeAsked
  <2> QED
    BY <1>2, <2>3, <2>4, CreateDagTurns DEF create_dag
<1>3. ASSUME NEW s \in Sched, NEW d \in DagName, delete_dag(s, d) PROVE Asked
  BY <1>3, DeleteKnown, FreeAsked DEF delete_dag, Crash
<1>4. ASSUME NEW s \in Sched, NEW c, call_dag(s, c) PROVE Asked
  BY <1>4, NewKnown, FreeAsked DEF call_dag, Crash, Knows
<1>5. ASSUME NEW s \in Sched, NEW c, call_function(s, c) PROVE Asked
  BY <1>5, CallKnown, FreeAsked DEF call_function, Crash
<1>6. ASSUME NEW s \in Sched, NEW e \in Exec, ReceiveStatus(s, e) PROVE Asked
  BY <1>6, StatusKnown, FreeAsked DEF ReceiveStatus, Crash
<1>7. ASSUME NEW m \in msgs, ReceiveUpdate(m) PROVE Asked
  BY <1>7, UpdateKnown, FreeAsked DEF ReceiveUpdate
<1>8. ASSUME NEW e, NEW got, NEW sent, NEW st, Exit(e, got, sent, st, pins), sched' = sched,
             pin_accept' = pin_accept
      PROVE  Asked
  BY <1>8, ExitAsked DEF Exit
<1>9. ASSUME pins' = pins, sched' = sched, pin_accept' = pin_accept PROVE Asked
  BY <1>9, ExitAsked
<1>10. ASSUME NEW e \in Exec, Report(e) PROVE Asked
  BY <1>8, <1>9, <1>10 DEF Report
<1>11. ASSUME NEW m \in msgs, ReceiveSchedule(m) \/ ReceiveTrigger(m) PROVE Asked
  BY <1>8, <1>9, <1>11 DEF ReceiveSchedule, ReceiveTrigger, RunIfTriggered, exec_dag_function
<1>12. ASSUME NEW m \in msgs, unpin(m) \/ exec_function(m) PROVE Asked
  BY <1>8, <1>9, <1>12 DEF unpin, exec_function
<1>13. ASSUME \/ \E m \in msgs : \/ ReceiveDepart(m) \/ ReceiveUtilization(m)
                                 \/ ReceiveDepartDone(m)
              \/ \E s \in Sched : ReportSchedule(s)
              \/ \E f \in Func : dereplicate_function(f)
              \/ \E e \in Exec : check_executor_utilization(IpOf[e])
              \/ UNCHANGED vars
       PROVE  Asked
  BY <1>9, <1>13 DEF ReceiveDepart, ReceiveUtilization, ReceiveDepartDone,
       ReportSchedule, dereplicate_function, check_executor_utilization, vars
<1> QED
  BY <1>1, <1>2, <1>3, <1>4, <1>5, <1>6, <1>7, <1>10, <1>11, <1>12, <1>13, PinAsked, TimeoutAsked,
     ReplicateAsked DEF Next

------------------------------------------------------------------------------
LEMMA InitPins == Init => PinInv
<1> SUFFICES ASSUME Init PROVE PinInv
  OBVIOUS
<1> DEFINE r == [NewScheduler EXCEPT !.executors = Exec,
                   !.thread_statuses = [e \in Exec |-> NewStatus]]
<1>1. /\ sched = [s \in Sched |-> r] /\ exec = [e \in Exec |-> NewExecutor]
      /\ pins = [e \in Exec |-> <<>>] /\ pin_accept = [s \in Sched |-> <<>>]
      /\ statuses = [e \in Exec |-> [s \in Sched |-> <<>>]] /\ msgs = {}
  BY DEF Init
<1>2. PICK scenario \in Scenario : \E T :
        mgmt = [schedulers |-> scenario.schedulers, executor_statuses |-> T,
                departing_executors |-> [ip \in {IpOf[e] : e \in Exec} |-> 0], removed |-> {}]
  BY DEF Init
<1>3. DOMAIN mgmt = MgmtFields /\ mgmt = [a \in DOMAIN mgmt |-> mgmt[a]]
      /\ mgmt.schedulers = scenario.schedulers
  BY <1>2, SMTT(60) DEF MgmtFields
<1>4. mgmt = [a \in MgmtFields |-> mgmt[a]] /\ mgmt.schedulers \subseteq Sched
  BY <1>3, DagAssumption
<1>5. Knowing(r) /\ \A f \in Func : r.func_locations[f] = {}
  <2> DEFINE n == NewScheduler
  <2>1. DOMAIN n = SchedFields /\ n = [a \in DOMAIN n |-> n[a]]
    BY DEF NewScheduler, SchedFields
  <2>2. /\ n.creating = Idle /\ n.dags = {} /\ n.func_locations = [f \in Func |-> {}]
    BY SMTT(60) DEF NewScheduler
  <2> HIDE DEF n
  <2>3. n = [a \in SchedFields |-> n[a]]
    BY <2>1
  <2>4. /\ r = [a \in SchedFields |-> r[a]] /\ r.creating = Idle /\ r.dags = {}
        /\ r.executors = Exec /\ r.func_locations = [f \in Func |-> {}]
    BY <2>2, <2>3 DEF SchedFields, n
  <2> HIDE DEF r
  <2> QED
    BY <2>4, IdleTyped DEF Knowing, Scheduler
<1>6. DOMAIN <<>> = {} /\ \A S : <<>> \in Seq(S)
  BY SMTT(60)
<1> HIDE DEF r
<1>7. /\ \A e \in Exec : Holding(exec[e])
      /\ sched = [s \in Sched |-> sched[s]] /\ \A s \in Sched : Knowing(sched[s])
      /\ \A m \in msgs : m.kind = "update" => m \in Update
  BY <1>1, <1>5, NewHolding
<1>8. /\ pins \in [Exec -> Seq(Request)] /\ pin_accept = [s \in Sched |-> pin_accept[s]]
      /\ statuses = [e \in Exec |-> [s \in Sched |-> statuses[e][s]]]
      /\ \A e \in Exec, s \in Sched : statuses[e][s] \in Seq(StatusAt(e))
  BY <1>1, <1>6
<1>9. Located
  BY <1>1, <1>5 DEF Located
<1>10. \A s \in Sched : Handshake(s)
  BY <1>1, <1>6 DEF Handshake, NotAsked
<1>11. PinTypes
  BY <1>4, <1>7, <1>8 DEF PinTypes
<1> QED
  BY <1>9, <1>10, <1>11 DEF PinInv

LEMMA StepPins == RuntimeInv /\ PinInv /\ [Next]_vars => PinInv'
<1> SUFFICES ASSUME RuntimeInv, PinInv, [Next]_vars PROVE PinInv'
  OBVIOUS
<1>0. PinTypes
  BY DEF PinInv
<1>1. (\A e \in Exec : Holding(exec[e]))'
  BY <1>0, Grows DEF Evolves
<1>2. /\ (sched = [s \in Sched |-> sched[s]])' /\ (\A s \in Sched : Knowing(sched[s]))'
      /\ "late" \notin faults' =>
           \A s \in Sched, f \in Func : \A e \in sched'[s].func_locations[f] : Pinned(f, e)'
  BY SchedStep DEF Known, Informed, Knowing
<1>3. /\ \A m \in msgs' : m.kind = "update" => m \in Update
      /\ "late" \notin faults' => \A m \in msgs' : m.kind = "update" =>
           \A f \in Func : \A e \in m.func_locations[f] : Pinned(f, e)'
  BY UpdatesStep
<1>4. /\ (mgmt = [a \in MgmtFields |-> mgmt[a]])' /\ (mgmt.schedulers \subseteq Sched)'
  BY <1>0, MgmtStep DEF PinTypes
<1>5. /\ (statuses = [e \in Exec |-> [s \in Sched |-> statuses[e][s]]])'
      /\ (\A e \in Exec, s \in Sched : statuses[e][s] \in Seq(StatusAt(e)))'
  BY <1>0, StatusesStep DEF StatusesOK
<1>6. /\ (pins \in [Exec -> Seq(Request)])' /\ (pin_accept = [s \in Sched |-> pin_accept[s]])'
      /\ "late" \notin faults' => \A t \in Sched : Handshake(t)'
  BY AskedStep DEF Asked, Requests
<1>7. PinTypes'
  BY <1>1, <1>2, <1>3, <1>4, <1>5, <1>6 DEF PinTypes
<1>8. "late" \notin faults' => Located'
  BY <1>2, <1>3 DEF Located
<1> QED
  BY <1>6, <1>7, <1>8 DEF PinInv

(* Where a scheduler locates a function, because its pin was accepted      *)
(* (_pin_func), an executor's status names it (exec_status_socket) or      *)
(* another scheduler does, the function is pinned at that executor, or the *)
(* executor has exited since, or an answer to a pin came after its         *)
(* timeout.                                                                *)
THEOREM LocationsKept == Spec => []LocationsPinned
<1>1. Init => RuntimeInv /\ PinInv
  BY InitInv, InitPins
<1>2. RuntimeInv /\ PinInv /\ [Next]_vars => (RuntimeInv /\ PinInv)'
  BY StepInv, StepPins
<1>3. PinInv => LocationsPinned
  BY DEF PinInv, Located, Pinned, LocationsPinned
<1> QED
  BY <1>1, <1>2, <1>3, PTL DEF Spec

------------------------------------------------------------------------------
(* The executors of a node that is removed.  One that is told to depart    *)
(* has the request under way, departs, or has its answer under way: one of *)
(* the three, and once.                                                    *)
Leaving == {"depart", "done"}
Nodes == {IpOf[e] : e \in Exec}
RemoveEvent(ip) == [kind |-> "remove", ip |-> ip]
Departs(e) == DepartRequest(e) \in msgs \/ exec[e].departing \/ DepartDone(e) \in msgs
Departers(ip) == {e \in OnNode(ip) : Departs(e)}

DepartInv ==
  /\ mgmt.departing_executors \in [Nodes -> Nat]
  /\ \A m \in msgs : m.kind \in Leaving =>
       \E e \in Exec : m = DepartRequest(e) \/ m = DepartDone(e)
  /\ \A e \in Exec :
       /\ DepartRequest(e) \in msgs => ~ exec[e].departing /\ DepartDone(e) \notin msgs
       /\ exec[e].departing => DepartDone(e) \notin msgs
  /\ \A ip \in Nodes :
       /\ RemoveEvent(ip) \in todo => Departers(ip) = {}
       /\ Cardinality(Departers(ip)) <= mgmt.departing_executors[ip]

LEMMA LeavingKinds ==
  /\ \A e : DepartRequest(e).kind = "depart" /\ DepartDone(e).kind = "done"
  /\ \A d, e : /\ DepartRequest(d) # DepartDone(e)
               /\ DepartRequest(d) = DepartRequest(e) => d = e
               /\ DepartDone(d) = DepartDone(e) => d = e
BY SMTT(60) DEF DepartRequest, DepartDone

LEMMA FewerDepart ==
  ASSUME NEW S, NEW T, S \subseteq T, T \subseteq Exec
  PROVE  /\ Cardinality(S) \in Nat /\ Cardinality(T) \in Nat /\ Cardinality(S) <= Cardinality(T)
         /\ \A e \in T : e \notin S => Cardinality(S) <= Cardinality(T) - 1
<1>1. IsFiniteSet(T) /\ IsFiniteSet(S)
  BY DagAssumption, FS_Subset
<1>2. Cardinality(S) \in Nat /\ Cardinality(T) \in Nat /\ Cardinality(S) <= Cardinality(T)
  BY <1>1, FS_Subset, FS_CardinalityType
<1>3. ASSUME NEW e \in T, e \notin S PROVE Cardinality(S) <= Cardinality(T) - 1
  <2>1. IsFiniteSet(T \ {e}) /\ Cardinality(T \ {e}) = Cardinality(T) - 1
    BY <1>1, <1>3, FS_RemoveElement
  <2>2. S \subseteq T \ {e}
    BY <1>3
  <2>3. Cardinality(S) <= Cardinality(T \ {e})
    BY <2>1, <2>2, FS_Subset
  <2> QED
    BY <2>1, <2>3
<1> QED
  BY <1>2, <1>3

(* A step that tells nobody to depart, and in which nobody has departed.   *)
Slower ==
  /\ mgmt'.departing_executors = mgmt.departing_executors /\ todo' \subseteq todo
  /\ \A m \in msgs' : m.kind \in Leaving => m \in msgs
  /\ \A e \in Exec : exec'[e].departing => exec[e].departing

LEMMA SlowerKeeps ==
  ASSUME DepartInv, Slower
  PROVE  DepartInv'
<1>1. \A e \in Exec : /\ DepartRequest(e) \in msgs' => DepartRequest(e) \in msgs
                      /\ DepartDone(e) \in msgs' => DepartDone(e) \in msgs
                      /\ exec'[e].departing => exec[e].departing
  BY LeavingKinds DEF Slower, Leaving
<1>2. \A ip : Departers(ip)' \subseteq Departers(ip) /\ Departers(ip) \subseteq Exec
  BY <1>1 DEF Departers, Departs, OnNode
<1>3. ASSUME NEW ip \in Nodes
      PROVE  /\ RemoveEvent(ip) \in todo' => Departers(ip)' = {}
             /\ Cardinality(Departers(ip)') <= mgmt'.departing_executors[ip]
  <2>1. RemoveEvent(ip) \in todo' => Departers(ip)' = {}
    BY <1>2 DEF DepartInv, Slower
  <2>2. Cardinality(Departers(ip)') <= Cardinality(Departers(ip))
        /\ Cardinality(Departers(ip)') \in Nat /\ Cardinality(Departers(ip)) \in Nat
    BY <1>2, FewerDepart
  <2>3. /\ mgmt'.departing_executors[ip] \in Nat
        /\ Cardinality(Departers(ip)) <= mgmt'.departing_executors[ip]
    BY DEF DepartInv, Slower
  <2>4. Cardinality(Departers(ip)') <= mgmt'.departing_executors[ip]
    BY <2>2, <2>3, SMTT(60)
  <2> QED
    BY <2>1, <2>4
<1>4. (mgmt.departing_executors \in [Nodes -> Nat])'
  BY DEF DepartInv, Slower, Nodes
<1>5. \A m \in msgs' : m.kind \in Leaving =>
        \E e \in Exec : m = DepartRequest(e) \/ m = DepartDone(e)
  BY DEF DepartInv, Slower
<1>6. \A e \in Exec :
        /\ DepartRequest(e) \in msgs' => ~ exec'[e].departing /\ DepartDone(e) \notin msgs'
        /\ exec'[e].departing => DepartDone(e) \notin msgs'
  BY <1>1 DEF DepartInv
<1> QED
  BY <1>3, <1>4, <1>5, <1>6 DEF DepartInv, Nodes, RemoveEvent, DepartRequest, DepartDone

LEMMA NewNotDeparting == ~ NewExecutor.departing
BY DEF NewExecutor

LEMMA ExitSlower ==
  ASSUME RuntimeInv, NEW e, NEW got, NEW sent, NEW st, NEW ps, Exit(e, got, sent, st, ps),
         mgmt' = mgmt, todo' \subseteq todo, \A m \in sent : m.kind \notin Leaving
  PROVE  Slower
<1>1. \A d \in Exec : exec'[d] = exec[d] \/ exec'[d] = NewExecutor
  BY DEF Exit, RuntimeInv, Shapes
<1>2. \A d \in Exec : exec'[d].departing => exec[d].departing
  BY <1>1, NewNotDeparting
<1>3. \A m \in msgs' : m.kind \in Leaving => m \in msgs
  BY DEF Exit
<1> QED
  BY <1>2, <1>3 DEF Slower

LEMMA RunSlower ==
  ASSUME RuntimeInv, NEW e, NEW x, NEW m, RunIfTriggered(e, x, m.call, m.func, m), mgmt' = mgmt,
         e \in Exec => Shaped(x) /\ x.departing = exec[e].departing
  PROVE  Slower
<1>0. todo' \subseteq todo
  BY DEF RunIfTriggered, exec_dag_function, Fault, Do
<1>1. CASE exec' = [exec EXCEPT ![e] = x] /\ msgs' = msgs \ {m}
  BY <1>0, <1>1 DEF Slower, RuntimeInv, Shapes
<1>2. CASE exec_dag_function(e, x, m.call, m.func, m)
  <2> DEFINE y == [x EXCEPT !.queue = @ \ {<<m.call, m.func>>},
                            !.received_triggers = {t \in @ : t[1] # m.call \/ t[2] # m.func}]
  <2>1. exec' = [exec EXCEPT ![e] = y]
    BY <1>2 DEF exec_dag_function
  <2>2. e \in Exec => y.departing = x.departing
    BY DEF Shaped, Fields
  <2> HIDE DEF y
  <2>3. \A d \in Exec : exec'[d].departing => exec[d].departing
    BY <2>1, <2>2 DEF RuntimeInv, Shapes
  <2>4. \A n \in msgs' : n.kind \in Leaving => n \in msgs
    BY RunSends, WorkKinds DEF OnlyWork, Leaving
  <2> QED
    BY <1>0, <2>3, <2>4 DEF Slower
<1>3. CASE Exit(e, {m}, {}, statuses, pins)
  <2>1. PICK sent : sent = {}
    OBVIOUS
  <2>2. \A n \in sent : n.kind \notin Leaving
    BY <2>1
  <2>3. Exit(e, {m}, sent, statuses, pins)
    BY <1>3, <2>1
  <2> QED
    BY <1>0, <2>2, <2>3, ExitSlower
<1> QED
  BY <1>1, <1>2, <1>3 DEF RunIfTriggered

LEMMA ExecutorSlower ==
  ASSUME RuntimeInv, PinInv, [Next]_vars,
         \/ \E e \in Exec : pin(e)
         \/ \E m \in msgs : \/ unpin(m) \/ exec_function(m) \/ ReceiveSchedule(m)
                            \/ ReceiveTrigger(m)
  PROVE  Slower
<1>0. exec = [e \in Exec |-> exec[e]] /\ \A e \in Exec : Shaped(exec[e])
  BY DEF RuntimeInv, Shapes
<1>1. ASSUME NEW e \in Exec, pin(e) PROVE Slower
  <2> DEFINE x == exec[e]
             y == [x EXCEPT !.pinned_functions = {Head(pins[e]).func},
                            !.status.functions = @ \cup {Head(pins[e]).func}]
  <2>1. \/ exec' = [exec EXCEPT ![e] = x] \/ exec' = [exec EXCEPT ![e] = y]
        \/ \E ps : Exit(e, {}, {}, statuses, ps)
    BY <1>1 DEF pin
  <2>2. y.departing = x.departing
    BY <1>0 DEF Shaped, Fields
  <2>3. ASSUME exec' = [exec EXCEPT ![e] = x] \/ exec' = [exec EXCEPT ![e] = y]
        PROVE  \A d \in Exec : exec'[d].departing => exec[d].departing
    BY <1>0, <2>2, <2>3
  <2> HIDE DEF x, y
  <2>4. mgmt' = mgmt /\ todo' \subseteq todo
    BY <1>1 DEF pin, Fault, Do
  <2>5. CASE \E ps : Exit(e, {}, {}, statuses, ps)
    <3>1. PICK sent, ps : sent = {} /\ Exit(e, {}, sent, statuses, ps)
      BY <2>5
    <3>2. \A n \in sent : n.kind \notin Leaving
      BY <3>1
    <3> QED
      BY <2>4, <3>1, <3>2, ExitSlower
  <2>6. msgs' = msgs \/ \E ps : Exit(e, {}, {}, statuses, ps)
    BY <1>1 DEF pin
  <2> QED
    BY <2>1, <2>3, <2>4, <2>5, <2>6 DEF Slower
<1>2. ASSUME NEW m \in msgs, unpin(m) PROVE Slower
  <2>1. PICK sent : sent = {}
    OBVIOUS
  <2>2. \A n \in sent : n.kind \notin Leaving
    BY <2>1
  <2>3. Exit(m.to, {m}, sent, statuses, pins) /\ mgmt' = mgmt /\ todo' = todo
    BY <1>2, <2>1 DEF unpin
  <2> QED
    BY <2>2, <2>3, ExitSlower
<1>3. ASSUME NEW m \in msgs, exec_function(m) PROVE Slower
  <2>1. CASE msgs' = msgs \ {m} /\ UNCHANGED <<exec, todo>>
    BY <1>3, <2>1 DEF exec_function, Slower
  <2>2. CASE Fault("missing") /\ Exit(m.to, {m}, {}, statuses, pins)
    <3>1. PICK sent : sent = {} /\ Exit(m.to, {m}, sent, statuses, pins)
      BY <2>2
    <3>2. \A n \in sent : n.kind \notin Leaving
      BY <3>1
    <3>3. mgmt' = mgmt /\ todo' \subseteq todo
      BY <1>3, <2>2 DEF exec_function, Fault, Do
    <3> QED
      BY <3>1, <3>2, <3>3, ExitSlower
  <2> QED
    BY <1>3, <2>1, <2>2 DEF exec_function
<1>4. ASSUME NEW m \in msgs, ReceiveSchedule(m) PROVE Slower
  <2> DEFINE x == [exec[m.to] EXCEPT !.queue = @ \cup {<<m.call, m.func>>},
                                     !.queued = @ \cup {m.func}]
  <2>1. RunIfTriggered(m.to, x, m.call, m.func, m) /\ mgmt' = mgmt
    BY <1>4 DEF ReceiveSchedule
  <2>2. m.to \in Exec => Shaped(x) /\ x.departing = exec[m.to].departing
    BY <1>0 DEF Shaped, Fields
  <2> HIDE DEF x
  <2> QED
    BY <2>1, <2>2, RunSlower
<1>5. ASSUME NEW m \in msgs, ReceiveTrigger(m) PROVE Slower
  <2> DEFINE x == [exec[m.to] EXCEPT !.received_triggers = @ \cup {<<m.call, m.func, m.source>>}]
  <2>1. RunIfTriggered(m.to, x, m.call, m.func, m) /\ mgmt' = mgmt
    BY <1>5 DEF ReceiveTrigger
  <2>2. m.to \in Exec => Shaped(x) /\ x.departing = exec[m.to].departing
    BY <1>0 DEF Shaped, Fields
  <2> HIDE DEF x
  <2> QED
    BY <2>1, <2>2, RunSlower
<1> QED
  BY <1>1, <1>2, <1>3, <1>4, <1>5

LEMMA SchedulerSlower ==
  ASSUME NEW s \in Sched, SchedulerStep(s)
  PROVE  Slower
<1>0. exec' = exec /\ mgmt' = mgmt
  BY SchedulerLeaves
<1>1. todo' \subseteq todo
  BY DEF SchedulerStep, create_dag, delete_dag, call_dag, call_function, ReceiveStatus,
         ReceivePinAccept, PinTimeout, ReportSchedule, Fault, Do
<1>2. CASE ReportSchedule(s)
  <2>1. \A t, r : SchedulerStatus(t, r).kind \notin Leaving
    BY DEF SchedulerStatus, Leaving
  <2> QED
    BY <1>0, <1>1, <1>2, <2>1 DEF ReportSchedule, Slower
<1>3. CASE ~ ReportSchedule(s)
  BY <1>0, <1>1, <1>3, SchedulerSends, WorkKinds DEF OnlyWork, Leaving, Slower
<1> QED
  BY <1>2, <1>3

LEMMA ReportDeparts ==
  ASSUME RuntimeInv, DepartInv, NEW e \in Exec, Report(e)
  PROVE  DepartInv'
<1>1. \A d : Utilization(d).kind \notin Leaving
  BY SMTT(60) DEF Utilization, Leaving
<1>2. mgmt' = mgmt /\ todo' \subseteq todo
  BY DEF Report, Do
<1>3. ASSUME msgs' = msgs \cup {Utilization(e)}, exec' = exec PROVE DepartInv'
  BY <1>1, <1>2, <1>3, SlowerKeeps DEF Slower
<1>4. ASSUME NEW st, Exit(e, {}, {Utilization(e)}, st, pins) PROVE DepartInv'
  <2>1. PICK sent : sent = {Utilization(e)}
    OBVIOUS
  <2>2. \A m \in sent : m.kind \notin Leaving
    BY <1>1, <2>1
  <2>3. Exit(e, {}, sent, st, pins)
    BY <1>4, <2>1
  <2>4. Slower
    BY <1>2, <2>2, <2>3, ExitSlower
  <2> QED
    BY <2>4, SlowerKeeps
<1>5. ASSUME NEW st, Exit(e, {}, {Utilization(e), DepartDone(e)}, st, pins), exec[e].departing
      PROVE  DepartInv'
  <2>1. /\ ~ exec'[e].departing
        /\ \A d \in Exec : d # e => exec'[d] = exec[d]
    BY <1>5, NewNotDeparting DEF Exit, RuntimeInv, Shapes
  <2>2. \A m \in msgs' : m.kind \in Leaving => m \in msgs \/ m = DepartDone(e)
    <3>1. msgs' \subseteq msgs \cup {Utilization(e), DepartDone(e)}
      BY <1>5 DEF Exit
    <3> QED
      BY <1>1, <3>1
  <2>3. DepartRequest(e) \notin msgs
    BY <1>5 DEF DepartInv
  <2>4. \A d \in Exec : /\ DepartRequest(d) \in msgs' => DepartRequest(d) \in msgs /\ d # e
                        /\ DepartDone(d) \in msgs' => DepartDone(d) \in msgs \/ d = e
    BY <2>2, <2>3, LeavingKinds DEF Leaving
  <2>5. \A d \in Exec : Departs(d)' => Departs(d)
    BY <1>5, <2>1, <2>4 DEF Departs
  <2>6. \A ip : Departers(ip)' \subseteq Departers(ip) /\ Departers(ip) \subseteq Exec
    BY <2>5 DEF Departers, OnNode
  <2>7. ASSUME NEW ip \in Nodes
        PROVE  /\ RemoveEvent(ip) \in todo' => Departers(ip)' = {}
               /\ Cardinality(Departers(ip)') <= mgmt'.departing_executors[ip]
    <3>1. RemoveEvent(ip) \in todo' => Departers(ip)' = {}
      BY <1>2, <2>6 DEF DepartInv
    <3>2. Cardinality(Departers(ip)') <= Cardinality(Departers(ip))
          /\ Cardinality(Departers(ip)') \in Nat /\ Cardinality(Departers(ip)) \in Nat
      BY <2>6, FewerDepart
    <3>3. /\ mgmt'.departing_executors[ip] \in Nat
          /\ Cardinality(Departers(ip)) <= mgmt'.departing_executors[ip]
      BY <1>2 DEF DepartInv
    <3>4. Cardinality(Departers(ip)') <= mgmt'.departing_executors[ip]
      BY <3>2, <3>3, SMTT(60)
    <3> QED
      BY <3>1, <3>4
  <2>8. \A m \in msgs' : m.kind \in Leaving =>
          \E d \in Exec : m = DepartRequest(d) \/ m = DepartDone(d)
    BY <2>2 DEF DepartInv
  <2>9. \A d \in Exec :
          /\ DepartRequest(d) \in msgs' => ~ exec'[d].departing /\ DepartDone(d) \notin msgs'
          /\ exec'[d].departing => DepartDone(d) \notin msgs'
    BY <2>1, <2>4 DEF DepartInv
  <2> QED
    BY <1>2, <2>7, <2>8, <2>9 DEF DepartInv, Nodes, RemoveEvent, DepartRequest, DepartDone
<1> QED
  BY <1>3, <1>4, <1>5 DEF Report

LEMMA ToldDeparts ==
  ASSUME RuntimeInv, DepartInv, NEW m \in msgs, ReceiveDepart(m)
  PROVE  DepartInv'
<1>1. PICK e \in Exec : m = DepartRequest(e) /\ m.to = e
  <2>1. m.kind = "depart" /\ m.kind \in Leaving
    BY DEF ReceiveDepart, Leaving
  <2>2. PICK e \in Exec : m = DepartRequest(e) \/ m = DepartDone(e)
    BY <2>1 DEF DepartInv
  <2>3. DepartRequest(e).to = e
    BY DEF DepartRequest
  <2> QED
    BY <2>1, <2>2, <2>3, LeavingKinds, SMTT(60)
<1>2. /\ mgmt' = mgmt /\ todo' = todo /\ msgs' = msgs \ {m}
      /\ exec' = [exec EXCEPT ![e].status = [running |-> FALSE, functions |-> {}],
                              ![e].departing = TRUE]
  BY <1>1 DEF ReceiveDepart
<1>3. exec'[e].departing /\ \A d \in Exec : d # e => exec'[d] = exec[d]
  <2> DEFINE y == [exec[e] EXCEPT !.status = [running |-> FALSE, functions |-> {}],
                                  !.departing = TRUE]
  <2>1. exec = [d \in Exec |-> exec[d]] /\ Shaped(exec[e])
    BY DEF RuntimeInv, Shapes
  <2>2. y.departing
    BY <2>1 DEF Shaped, Fields
  <2>3. exec' = [exec EXCEPT ![e] = y]
    BY <1>2, <2>1
  <2> HIDE DEF y
  <2> QED
    BY <2>1, <2>2, <2>3
<1>4. \A d \in Exec : /\ DepartRequest(d) \in msgs' => DepartRequest(d) \in msgs /\ d # e
                      /\ DepartDone(d) \in msgs' => DepartDone(d) \in msgs
  BY <1>1, <1>2
<1>5. DepartDone(e) \notin msgs /\ Departs(e)
  BY <1>1 DEF DepartInv, Departs
<1>6. \A ip : Departers(ip)' \subseteq Departers(ip) /\ Departers(ip) \subseteq Exec
  BY <1>3, <1>4, <1>5 DEF Departers, Departs, OnNode
<1>7. ASSUME NEW ip \in Nodes
      PROVE  /\ RemoveEvent(ip) \in todo' => Departers(ip)' = {}
             /\ Cardinality(Departers(ip)') <= mgmt'.departing_executors[ip]
  <2>1. RemoveEvent(ip) \in todo' => Departers(ip)' = {}
    BY <1>2, <1>6 DEF DepartInv
  <2>2. Cardinality(Departers(ip)') <= Cardinality(Departers(ip))
        /\ Cardinality(Departers(ip)') \in Nat /\ Cardinality(Departers(ip)) \in Nat
    BY <1>6, FewerDepart
  <2>3. /\ mgmt'.departing_executors[ip] \in Nat
        /\ Cardinality(Departers(ip)) <= mgmt'.departing_executors[ip]
    BY <1>2 DEF DepartInv
  <2>4. Cardinality(Departers(ip)') <= mgmt'.departing_executors[ip]
    BY <2>2, <2>3, SMTT(60)
  <2> QED
    BY <2>1, <2>4
<1>8. \A n \in msgs' : n.kind \in Leaving =>
        \E d \in Exec : n = DepartRequest(d) \/ n = DepartDone(d)
  BY <1>2 DEF DepartInv
<1>9. \A d \in Exec :
        /\ DepartRequest(d) \in msgs' => ~ exec'[d].departing /\ DepartDone(d) \notin msgs'
        /\ exec'[d].departing => DepartDone(d) \notin msgs'
  BY <1>3, <1>4, <1>5 DEF DepartInv
<1> QED
  BY <1>2, <1>7, <1>8, <1>9 DEF DepartInv, Nodes, RemoveEvent, DepartRequest, DepartDone

LEMMA RemoveDeparts ==
  ASSUME RuntimeInv, PinInv, DepartInv, NEW ip \in Nodes, check_executor_utilization(ip)
  PROVE  DepartInv'
<1>1. /\ RemoveEvent(ip) \in todo /\ todo' = todo \ {RemoveEvent(ip)} /\ exec' = exec
      /\ msgs' = msgs \cup {DepartRequest(e) : e \in OnNode(ip)}
  BY DEF check_executor_utilization, Do, RemoveEvent
<1>2. mgmt'.departing_executors =
        [mgmt.departing_executors EXCEPT ![ip] = Cardinality(OnNode(ip))]
  <2>1. mgmt = [a \in MgmtFields |-> mgmt[a]]
    BY DEF PinInv, PinTypes
  <2> QED
    BY <2>1 DEF check_executor_utilization, MgmtFields
<1>3. \A e \in OnNode(ip) : ~ Departs(e)
  BY <1>1 DEF DepartInv, Departers
<1>4. \A e \in Exec : /\ DepartRequest(e) \in msgs' => DepartRequest(e) \in msgs \/ e \in OnNode(ip)
                      /\ DepartDone(e) \in msgs' => DepartDone(e) \in msgs
  BY <1>1, LeavingKinds
<1>5. ASSUME NEW jp \in Nodes
      PROVE  /\ RemoveEvent(jp) \in todo' => Departers(jp)' = {}
             /\ Cardinality(Departers(jp)') <= mgmt'.departing_executors[jp]
  <2>1. CASE jp = ip
    <3>1. Departers(jp)' \subseteq OnNode(ip) /\ OnNode(ip) \subseteq Exec
      BY <2>1 DEF Departers, OnNode
    <3>2. Cardinality(Departers(jp)') <= Cardinality(OnNode(ip))
      BY <3>1, FewerDepart
    <3>3. mgmt'.departing_executors[jp] = Cardinality(OnNode(ip))
      BY <1>2, <2>1 DEF DepartInv
    <3> QED
      BY <1>1, <2>1, <3>2, <3>3
  <2>2. CASE jp # ip
    <3>1. \A e \in OnNode(jp) : e \notin OnNode(ip) /\ e \in Exec
      BY <2>2 DEF OnNode
    <3>2. Departers(jp)' \subseteq Departers(jp) /\ Departers(jp) \subseteq Exec
      BY <1>1, <1>4, <3>1 DEF Departers, Departs, OnNode
    <3>3. RemoveEvent(jp) \in todo' => Departers(jp)' = {}
      BY <1>1, <3>2 DEF DepartInv
    <3>4. Cardinality(Departers(jp)') <= Cardinality(Departers(jp))
          /\ Cardinality(Departers(jp)') \in Nat /\ Cardinality(Departers(jp)) \in Nat
      BY <3>2, FewerDepart
    <3>5. /\ mgmt'.departing_executors[jp] \in Nat
          /\ Cardinality(Departers(jp)) <= mgmt'.departing_executors[jp]
      BY <1>2, <2>2 DEF DepartInv
    <3>6. Cardinality(Departers(jp)') <= mgmt'.departing_executors[jp]
      BY <3>4, <3>5, SMTT(60)
    <3> QED
      BY <3>3, <3>6
  <2> QED
    BY <2>1, <2>2
<1>6. (mgmt.departing_executors \in [Nodes -> Nat])'
  <2>1. OnNode(ip) \subseteq Exec
    BY DEF OnNode
  <2>2. Cardinality(OnNode(ip)) \in Nat
    BY <2>1, FewerDepart
  <2> QED
    BY <1>2, <2>2 DEF DepartInv, Nodes
<1>7. \A m \in msgs' : m.kind \in Leaving =>
        \E e \in Exec : m = DepartRequest(e) \/ m = DepartDone(e)
  BY <1>1 DEF DepartInv, OnNode
<1>8. \A e \in Exec :
        /\ DepartRequest(e) \in msgs' => ~ exec'[e].departing /\ DepartDone(e) \notin msgs'
        /\ exec'[e].departing => DepartDone(e) \notin msgs'
  BY <1>1, <1>3, <1>4 DEF DepartInv, Departs
<1> QED
  BY <1>5, <1>6, <1>7, <1>8 DEF DepartInv, Nodes, RemoveEvent, DepartRequest, DepartDone

LEMMA DoneDeparts ==
  ASSUME RuntimeInv, PinInv, DepartInv, NEW m \in msgs, ReceiveDepartDone(m)
  PROVE  DepartInv'
<1>1. PICK e \in Exec : m = DepartDone(e) /\ m.from = e
  <2>1. m.kind = "done" /\ m.kind \in Leaving
    BY DEF ReceiveDepartDone, Leaving
  <2>2. PICK e \in Exec : m = DepartRequest(e) \/ m = DepartDone(e)
    BY <2>1 DEF DepartInv
  <2>3. DepartDone(e).from = e
    BY DEF DepartDone
  <2> QED
    BY <2>1, <2>2, <2>3, LeavingKinds, SMTT(60)
<1>2. PICK ip \in Nodes : ip = IpOf[e]
  BY DEF Nodes
<1>3. todo' = todo /\ exec' = exec /\ msgs' = msgs \ {m}
  BY DEF ReceiveDepartDone
<1>4. mgmt'.departing_executors = [mgmt.departing_executors EXCEPT ![ip] = @ - 1]
  <2>1. mgmt = [a \in MgmtFields |-> mgmt[a]]
    BY DEF PinInv, PinTypes
  <2> QED
    BY <1>1, <1>2, <2>1 DEF ReceiveDepartDone, MgmtFields
<1>5. e \in Departers(ip) /\ ~ Departs(e)'
  BY <1>1, <1>2, <1>3 DEF DepartInv, Departers, Departs, OnNode, DepartRequest, DepartDone
<1>6. \A jp : Departers(jp)' \subseteq Departers(jp) /\ Departers(jp) \subseteq Exec
  BY <1>3 DEF Departers, Departs, OnNode, DepartRequest, DepartDone
<1>7. e \notin Departers(ip)'
  BY <1>5 DEF Departers
<1>8. ASSUME NEW jp \in Nodes
      PROVE  /\ RemoveEvent(jp) \in todo' => Departers(jp)' = {}
             /\ mgmt'.departing_executors[jp] \in Nat
             /\ Cardinality(Departers(jp)') <= mgmt'.departing_executors[jp]
  <2>1. RemoveEvent(jp) \in todo' => Departers(jp)' = {}
    BY <1>3, <1>6 DEF DepartInv
  <2>2. /\ Cardinality(Departers(jp)') <= Cardinality(Departers(jp))
        /\ Cardinality(Departers(jp)') \in Nat /\ Cardinality(Departers(jp)) \in Nat
        /\ jp = ip => Cardinality(Departers(jp)') <= Cardinality(Departers(jp)) - 1
    BY <1>5, <1>6, <1>7, FewerDepart
  <2>3. /\ mgmt.departing_executors[jp] \in Nat
        /\ Cardinality(Departers(jp)) <= mgmt.departing_executors[jp]
        /\ mgmt'.departing_executors[jp] = IF jp = ip THEN mgmt.departing_executors[jp] - 1
                                           ELSE mgmt.departing_executors[jp]
    BY <1>4 DEF DepartInv
  <2>4. /\ mgmt'.departing_executors[jp] \in Nat
        /\ Cardinality(Departers(jp)') <= mgmt'.departing_executors[jp]
    BY <2>2, <2>3, SMTT(60)
  <2> QED
    BY <2>1, <2>4
<1>9. (mgmt.departing_executors \in [Nodes -> Nat])'
  <2>1. mgmt'.departing_executors = [jp \in Nodes |-> mgmt'.departing_executors[jp]]
    BY <1>4 DEF DepartInv
  <2> QED
    BY <1>8, <2>1 DEF Nodes
<1>10. \A n \in msgs' : n.kind \in Leaving =>
         \E d \in Exec : n = DepartRequest(d) \/ n = DepartDone(d)
  BY <1>3 DEF DepartInv
<1>11. \A d \in Exec :
         /\ DepartRequest(d) \in msgs' => ~ exec'[d].departing /\ DepartDone(d) \notin msgs'
         /\ exec'[d].departing => DepartDone(d) \notin msgs'
  BY <1>3 DEF DepartInv
<1> QED
  BY <1>8, <1>9, <1>10, <1>11 DEF DepartInv, Nodes, RemoveEvent, DepartRequest, DepartDone

LEMMA InitDeparts == Init => DepartInv
<1> SUFFICES ASSUME Init PROVE DepartInv
  OBVIOUS
<1>1. exec = [e \in Exec |-> NewExecutor] /\ msgs = {}
  BY DEF Init
<1>2. mgmt.departing_executors = [ip \in Nodes |-> 0]
  <2>1. PICK S, T : mgmt = [schedulers |-> S, executor_statuses |-> T,
                           departing_executors |-> [ip \in {IpOf[e] : e \in Exec} |-> 0],
                           removed |-> {}]
    BY DEF Init
  <2> QED
    BY <2>1, SMTT(60) DEF Nodes
<1>3. \A e \in Exec : ~ Departs(e) /\ ~ exec[e].departing
  BY <1>1, NewNotDeparting DEF Departs
<1>4. \A ip : Departers(ip) = {}
  BY <1>3 DEF Departers, OnNode
<1>5. Cardinality({}) = 0 /\ 0 \in Nat /\ 0 <= 0
  BY FS_EmptySet, SMTT(60)
<1>6. mgmt.departing_executors \in [Nodes -> Nat]
      /\ \A ip \in Nodes : Cardinality(Departers(ip)) <= mgmt.departing_executors[ip]
  BY <1>2, <1>4, <1>5
<1> QED
  BY <1>1, <1>3, <1>4, <1>6 DEF DepartInv

LEMMA StepDeparts == RuntimeInv /\ PinInv /\ DepartInv /\ [Next]_vars => DepartInv'
<1> SUFFICES ASSUME RuntimeInv, PinInv, DepartInv, [Next]_vars PROVE DepartInv'
  OBVIOUS
<1>1. ASSUME NEW m \in msgs, ReceiveUpdate(m) PROVE Slower
  BY <1>1 DEF ReceiveUpdate, Slower
<1>2. ASSUME NEW m \in msgs, ReceiveUtilization(m) PROVE Slower
  <2>1. mgmt = [a \in MgmtFields |-> mgmt[a]]
    BY DEF PinInv, PinTypes
  <2>2. mgmt'.departing_executors = mgmt.departing_executors
    BY <1>2, <2>1 DEF ReceiveUtilization, MgmtFields
  <2> QED
    BY <1>2, <2>2 DEF ReceiveUtilization, Slower
<1>3. ASSUME NEW f \in Func, replicate_function(f) PROVE Slower
  BY <1>3 DEF replicate_function, Slower, Do
<1>4. ASSUME NEW f \in Func, dereplicate_function(f) PROVE Slower
  <2>1. \A e : UnpinRequest(e).kind \notin Leaving
    BY WorkKinds DEF Leaving
  <2> QED
    BY <1>4, <2>1 DEF dereplicate_function, Slower, Do
<1>5. ASSUME UNCHANGED vars PROVE Slower
  BY <1>5 DEF vars, Slower
<1>6. ASSUME NEW e \in Exec, check_executor_utilization(IpOf[e]) PROVE DepartInv'
  BY <1>6, RemoveDeparts DEF Nodes
<1>7. ASSUME NEW e \in Exec, pin(e) \/ Report(e) PROVE DepartInv'
  BY <1>7, ExecutorSlower, SlowerKeeps, ReportDeparts
<1>8. ASSUME NEW m \in msgs,
             \/ unpin(m) \/ exec_function(m) \/ ReceiveSchedule(m) \/ ReceiveTrigger(m)
             \/ ReceiveDepart(m) \/ ReceiveUpdate(m) \/ ReceiveUtilization(m)
             \/ ReceiveDepartDone(m)
      PROVE  DepartInv'
  BY <1>1, <1>2, <1>8, ExecutorSlower, SlowerKeeps, ToldDeparts, DoneDeparts
<1>9. ASSUME NEW s \in Sched, SchedulerStep(s) PROVE DepartInv'
  BY <1>9, SchedulerSlower, SlowerKeeps
<1> QED
  BY <1>3, <1>4, <1>5, <1>6, <1>7, <1>8, <1>9, SlowerKeeps DEF Next, SchedulerStep

(* What a scheduler, an executor and the management server know holds      *)
(* together: a scheduler waits only for an executor it may choose, and has *)
(* locations only of functions it knows; an executor holds at most one     *)
(* function, reports no other (pin), and queues calls only of functions    *)
(* that queue has as keys; and the management server never counts a        *)
(* departed executor twice (executor_depart_socket).                       *)
THEOREM RuntimeTypes == Spec => []RuntimeTypeOK
<1>1. Init => RuntimeInv /\ PinInv /\ DepartInv
  BY InitInv, InitPins, InitDeparts
<1>2. RuntimeInv /\ PinInv /\ DepartInv /\ [Next]_vars => (RuntimeInv /\ PinInv /\ DepartInv)'
  BY StepInv, StepPins, StepDeparts
<1>3. ASSUME PinInv, DepartInv PROVE RuntimeTypeOK
  <2>1. ASSUME NEW s \in Sched
        PROVE  LET r == sched[s]
               IN /\ r.dags \subseteq DagName /\ r.executors \subseteq Exec
                  /\ \A f \in Func : f \notin r.located => r.func_locations[f] = {}
                  /\ r.creating # Idle => r.creating.node \in r.creating.candidates
    BY <1>3 DEF PinInv, PinTypes, Knowing, Scheduler, Asking
  <2>2. ASSUME NEW e \in Exec
        PROVE  /\ Cardinality(exec[e].pinned_functions) <= 1
               /\ exec[e].status.functions \subseteq exec[e].pinned_functions
               /\ \A q \in exec[e].queue : q[2] \in exec[e].queued
    <3>1. Holding(exec[e])
      BY <1>3 DEF PinInv, PinTypes
    <3>2. /\ Cardinality({}) = 0 /\ \A f : Cardinality({f}) = 1
          /\ 0 <= 1 /\ 1 <= 1
      BY FS_EmptySet, FS_Singleton, SMTT(60)
    <3> QED
      BY <3>1, <3>2 DEF Holding
  <2>3. \A ip \in DOMAIN mgmt.departing_executors : mgmt.departing_executors[ip] \in Nat
    BY <1>3 DEF DepartInv
  <2> QED
    BY <2>1, <2>2, <2>3 DEF RuntimeTypeOK
<1> QED
  BY <1>1, <1>2, <1>3, PTL DEF Spec

=============================================================================
