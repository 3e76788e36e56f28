----------------------- MODULE FunctionRuntime_proofs ------------------------
(* A DAG call runs each function at most once and after all of its         *)
(* predecessors, and no schedule or trigger is lost, for every set of      *)
(* DAGs, executors, schedulers and scenarios.                              *)
EXTENDS FunctionRuntime, FiniteSetTheorems, TLAPS

(* The provers tried on a leaf that names none, with the seconds they get. *)
USE ZenonT(60), SMTT(60)

------------------------------------------------------------------------------
(* The inductive invariant, and that the steps that neither call a DAG nor *)
(* note or run one of its functions keep it.                               *)

Tokens == {"schedule", "trigger"}
CallEvent(s, c) == [kind |-> "call", at |-> s, call |-> c]
Uncalled(c) == \E s \in Sched : CallEvent(s, c) \in todo
Source == Func \cup {"BEGIN"}

(* An executor is a record of this shape.                                  *)
Fields == {"status", "departing", "pinned_functions", "queued", "queue", "received_triggers"}
Shaped(x) == x = [a \in Fields |-> x[a]]

Shapes ==
  /\ exec = [e \in Exec |-> exec[e]]
  /\ \A e \in Exec : Shaped(exec[e])
  /\ runs \in [Call -> [Func -> Nat]]
  /\ schedule = [c \in Call |-> schedule[c]]
  /\ \A c \in Call : schedule[c] = <<>> \/ schedule[c] \in [FuncsOf(CalledDag[c]) -> Exec]
  /\ \A m \in msgs :
       /\ m.kind = "schedule" => \E c \in Call : \E f \in FuncsOf(CalledDag[c]), e \in Exec :
            m = DagSchedule(c, f, e)
       /\ m.kind = "trigger" => \E c \in Call : \E f \in FuncsOf(CalledDag[c]), e \in Exec :
            \E t \in Source : m = DagTrigger(c, t, f, e)
  /\ \A e \in Exec : /\ exec[e].queue \subseteq Call \X Func
                     /\ exec[e].received_triggers \subseteq Call \X Func \X Source

(* A call that is not made yet has left no trace, and no call is made      *)
(* twice.                                                                  *)
CalledOnce ==
  \A c \in Call :
    /\ \A s, t \in Sched : CallEvent(s, c) \in todo /\ CallEvent(t, c) \in todo => s = t
    /\ Uncalled(c) =>
         /\ schedule[c] = <<>>
         /\ \A f \in Func : runs[c][f] = 0
         /\ \A m \in msgs : m.kind \in Tokens => m.call # c
         /\ \A e \in Exec : /\ \A q \in exec[e].queue : q[1] # c
                            /\ \A t \in exec[e].received_triggers : t[1] # c

(* The schedule of a function is in one place, until the function runs.    *)
ScheduledOnce ==
  \A c \in Call : \A f \in FuncsOf(CalledDag[c]) :
    /\ runs[c][f] <= 1
    /\ \A e \in Exec : DagSchedule(c, f, e) \in msgs =>
         /\ runs[c][f] = 0
         /\ schedule[c] \in [FuncsOf(CalledDag[c]) -> Exec]
         /\ \A d \in Exec : /\ <<c, f>> \notin exec[d].queue
                            /\ DagSchedule(c, f, d) \in msgs => d = e
    /\ \A e \in Exec : <<c, f>> \in exec[e].queue =>
         /\ runs[c][f] = 0
         /\ schedule[c] \in [FuncsOf(CalledDag[c]) -> Exec]
         /\ \A d \in Exec : <<c, f>> \in exec[d].queue => d = e

(* A trigger comes from a predecessor that has run.                        *)
Sent(c, t, f) ==
  t \in Triggers(CalledDag[c], f) /\ (t = "BEGIN" \/ runs[c][t] = 1)
TriggersSent ==
  \A c \in Call, f \in Func, t \in Source, e \in Exec :
    DagTrigger(c, t, f, e) \in msgs \/ <<c, f, t>> \in exec[e].received_triggers
      => Sent(c, t, f)

RuntimeInv ==
  Shapes /\ CalledOnce /\ ScheduledOnce /\ TriggersSent /\ TriggeredByAll /\ NoTriggerLost

------------------------------------------------------------------------------
(* A step that runs nothing and sends no schedule or trigger; executors    *)
(* lose theirs only when they exit.                                        *)
Quiet ==
  /\ runs' = runs /\ schedule' = schedule
  /\ todo' \subseteq todo /\ exited \subseteq exited'
  /\ exec' = [e \in Exec |-> exec'[e]]
  /\ \A e \in Exec :
       /\ Shaped(exec'[e])
       /\ \/ /\ exec'[e].queue = exec[e].queue
             /\ exec'[e].received_triggers = exec[e].received_triggers
          \/ e \in exited' /\ exec'[e].queue = {} /\ exec'[e].received_triggers = {}
  /\ \A m \in msgs' : m.kind \in Tokens => m \in msgs
  /\ \A m \in msgs : m.kind \in Tokens /\ m.to \notin exited' => m \in msgs'

LEMMA QuietKeeps ==
  ASSUME RuntimeInv, Quiet
  PROVE  RuntimeInv'
<1> USE DEF RuntimeInv, Quiet, Tokens
<1>1. Shapes'
  <2>1. /\ (exec = [e \in Exec |-> exec[e]])'
        /\ (schedule = [c \in Call |-> schedule[c]])'
        /\ (\A c \in Call : schedule[c] = <<>> \/ schedule[c] \in [FuncsOf(CalledDag[c]) -> Exec])'
        /\ (\A e \in Exec : Shaped(exec[e]))'
        /\ (runs \in [Call -> [Func -> Nat]])'
    BY DEF Shapes, Shaped
  <2>2. \A m \in msgs' :
         /\ m.kind = "schedule" => \E c \in Call : \E f \in FuncsOf(CalledDag[c]), e \in Exec :
              m = DagSchedule(c, f, e)
         /\ m.kind = "trigger" => \E c \in Call : \E f \in FuncsOf(CalledDag[c]), e \in Exec :
              \E t \in Source : m = DagTrigger(c, t, f, e)
    BY DEF Shapes
  <2>3. (\A e \in Exec : /\ exec[e].queue \subseteq Call \X Func
                         /\ exec[e].received_triggers \subseteq Call \X Func \X Source)'
    BY DEF Shapes
  <2> QED
    BY <2>1, <2>2, <2>3 DEF Shapes
<1>2. CalledOnce'
  BY SMTT(60) DEF CalledOnce, Uncalled
<1>3. ScheduledOnce'
  BY SMTT(60) DEF ScheduledOnce, DagSchedule
<1>4. TriggersSent'
  BY SMTT(60) DEF TriggersSent, DagTrigger, Sent
<1>5. TriggeredByAll'
  BY DEF TriggeredByAll
<1>6. NoTriggerLost'
  <2> SUFFICES ASSUME NEW c \in Call, schedule[c] # <<>>, NEW f \in DOMAIN schedule[c],
                      runs[c][f] = 0, schedule[c][f] \notin exited'
               PROVE  LET e == schedule[c][f]
                      IN /\ DagSchedule(c, f, e) \in msgs' \/ <<c, f>> \in exec'[e].queue
                         /\ \A t \in Triggers(CalledDag[c], f) :
                              t = "BEGIN" \/ runs[c][t] = 1 =>
                                \/ DagTrigger(c, t, f, e) \in msgs'
                                \/ <<c, f, t>> \in exec'[e].received_triggers
    BY DEF NoTriggerLost
  <2> DEFINE e == schedule[c][f]
  <2>1. e \in Exec
    BY SMTT(60) DEF Shapes
  <2>2. /\ exec'[e].queue = exec[e].queue
        /\ exec'[e].received_triggers = exec[e].received_triggers
    BY <2>1
  <2>3. /\ DagSchedule(c, f, e) \in msgs \/ <<c, f>> \in exec[e].queue
        /\ \A t \in Triggers(CalledDag[c], f) :
             t = "BEGIN" \/ runs[c][t] = 1 =>
               DagTrigger(c, t, f, e) \in msgs \/ <<c, f, t>> \in exec[e].received_triggers
    BY DEF NoTriggerLost
  <2>4. DagSchedule(c, f, e) \in msgs => DagSchedule(c, f, e) \in msgs'
    BY DEF DagSchedule
  <2>5. \A t : DagTrigger(c, t, f, e) \in msgs => DagTrigger(c, t, f, e) \in msgs'
    BY DEF DagTrigger
  <2> QED
    BY <2>2, <2>3, <2>4, <2>5
<1> QED
  BY <1>1, <1>2, <1>3, <1>4, <1>5, <1>6

(* What stays of the state of an executor in a step that changes others,   *)
(* or only its status.                                                     *)
SameExec ==
  /\ exec' = [e \in Exec |-> exec'[e]]
  /\ \A e \in Exec : /\ Shaped(exec'[e])
                     /\ exec'[e].queue = exec[e].queue
                     /\ exec'[e].received_triggers = exec[e].received_triggers
SameTokens ==
  /\ \A m \in msgs' : m.kind \in Tokens => m \in msgs
  /\ \A m \in msgs : m.kind \in Tokens => m \in msgs'

LEMMA QuietStep ==
  ASSUME RuntimeInv, SameExec, SameTokens, runs' = runs, schedule' = schedule,
         todo' \subseteq todo, exited \subseteq exited'
  PROVE  RuntimeInv'
BY QuietKeeps DEF Quiet, SameExec, SameTokens

LEMMA ExecUnchanged ==
  ASSUME RuntimeInv, exec' = exec
  PROVE  SameExec
BY DEF RuntimeInv, Shapes, SameExec, Shaped

LEMMA ExecUpdated ==
  ASSUME RuntimeInv, NEW e, NEW y, exec' = [exec EXCEPT ![e] = y],
         e \in Exec => /\ Shaped(y)
                       /\ y.queue = exec[e].queue
                       /\ y.received_triggers = exec[e].received_triggers
  PROVE  SameExec
BY DEF RuntimeInv, Shapes, SameExec

LEMMA NewShaped == Shaped(NewExecutor)
<1> DEFINE x == NewExecutor
<1>1. DOMAIN x = Fields /\ x = [a \in DOMAIN x |-> x[a]]
  BY DEF NewExecutor, Fields
<1> QED
  BY <1>1 DEF Shaped

(* The exit of an executor, from whatever it was doing.                    *)
LEMMA ExitKeeps ==
  ASSUME RuntimeInv, NEW e, NEW got, NEW sent, NEW st, NEW ps,
         Exit(e, got, sent, st, ps),
         \A m \in got : m.to = e,
         \A m \in sent : m.kind \notin Tokens,
         runs' = runs, schedule' = schedule, todo' \subseteq todo
  PROVE  RuntimeInv'
<1>1. exec' = [d \in Exec |-> exec'[d]]
  BY DEF RuntimeInv, Shapes, Exit
<1>2. ASSUME NEW d \in Exec
      PROVE  /\ Shaped(exec'[d])
             /\ \/ /\ exec'[d].queue = exec[d].queue
                   /\ exec'[d].received_triggers = exec[d].received_triggers
                \/ d \in exited' /\ exec'[d].queue = {} /\ exec'[d].received_triggers = {}
  <2>1. CASE d = e
    <3>1. exec'[d] = NewExecutor
      BY <2>1 DEF RuntimeInv, Shapes, Exit
    <3>2. d \in exited'
      BY <2>1 DEF Exit
    <3> QED
      BY <3>1, <3>2, NewShaped, SMTT(60) DEF NewExecutor
  <2>2. CASE d # e
    BY <2>2 DEF RuntimeInv, Shapes, Exit
  <2> QED
    BY <2>1, <2>2
<1>3. /\ \A m \in msgs' : m.kind \in Tokens => m \in msgs
      /\ \A m \in msgs : m.kind \in Tokens /\ m.to \notin exited' => m \in msgs'
      /\ exited \subseteq exited'
  BY DEF Exit
<1> QED
  BY <1>1, <1>2, <1>3, QuietKeeps DEF Quiet

------------------------------------------------------------------------------
(* The steps of the executors that neither note nor run anything.          *)
LEMMA ExecutorQuiet ==
  ASSUME RuntimeInv, NEW e \in Exec, pin(e) \/ Report(e)
  PROVE  RuntimeInv'
<1>1. CASE pin(e)
  <2>1. /\ \/ \E y : exec' = [exec EXCEPT ![e] = y] /\ UNCHANGED <<msgs, exited, todo>>
           \/ Fault("missing") /\ \E ps : Exit(e, {}, {}, statuses, ps)
        /\ UNCHANGED <<runs, schedule>>
    BY <1>1 DEF pin
  <2>2. Fault("missing") => todo' \subseteq todo
    BY DEF Fault, Do
  <2>3. CASE \E ps : Exit(e, {}, {}, statuses, ps)
    <3>1. PICK ps : Exit(e, {}, {}, statuses, ps)
      BY <2>3
    <3>2. todo' \subseteq todo /\ runs' = runs /\ schedule' = schedule
      BY <2>1, <2>2
    <3> QED
      BY <3>1, <3>2, ExitKeeps, SMTT(60)
  <2>4. SameExec \/ \E ps : Exit(e, {}, {}, statuses, ps)
    <3> DEFINE x == exec[e]
               m == Head(pins[e])
               y == [x EXCEPT !.pinned_functions = {m.func}, !.status.functions = @ \cup {m.func}]
    <3>1. Shaped(x)
      BY DEF RuntimeInv, Shapes
    <3>2. Shaped(y) /\ y.queue = x.queue /\ y.received_triggers = x.received_triggers
      BY <3>1 DEF Shaped, Fields
    <3>3. \/ exec' = [exec EXCEPT ![e] = x] \/ exec' = [exec EXCEPT ![e] = y]
          \/ \E ps : Exit(e, {}, {}, statuses, ps)
      BY <1>1 DEF pin
    <3> HIDE DEF x, y
    <3>4. x = exec[e]
      BY DEF x
    <3> QED
      BY <3>1, <3>2, <3>3, <3>4, ExecUpdated
  <2>5. CASE SameExec /\ UNCHANGED <<msgs, exited, todo>>
    BY <2>1, <2>5, QuietStep DEF SameTokens
  <2> QED
    BY <2>1, <2>3, <2>4, <2>5
<1>2. CASE Report(e)
  <2>1. Utilization(e).kind \notin Tokens /\ DepartDone(e).kind \notin Tokens
    BY DEF Utilization, DepartDone, Tokens
  <2>2. todo' \subseteq todo /\ runs' = runs /\ schedule' = schedule
    BY <1>2 DEF Report, Do
  <2>3. CASE /\ msgs' = msgs \cup {Utilization(e)}
             /\ UNCHANGED <<exec, pins, exited>>
    BY <2>1, <2>2, <2>3, ExecUnchanged, QuietStep DEF SameTokens
  <2>4. ASSUME NEW sent \in SUBSET {Utilization(e), DepartDone(e)},
               Exit(e, {}, sent, Push(statuses, e, exec[e].status), pins)
        PROVE  RuntimeInv'
    BY <2>1, <2>2, <2>4, ExitKeeps, SMTT(60)
  <2> QED
    BY <1>2, <2>3, <2>4 DEF Report
<1> QED
  BY <1>1, <1>2

LEMMA MessageQuiet ==
  ASSUME RuntimeInv, NEW m \in msgs,
         \/ unpin(m) \/ exec_function(m) \/ ReceiveDepart(m) \/ ReceiveUpdate(m)
         \/ ReceiveUtilization(m) \/ ReceiveDepartDone(m)
  PROVE  RuntimeInv'
<1>1. CASE unpin(m)
  BY <1>1, ExitKeeps, SMTT(60) DEF unpin
<1>2. CASE exec_function(m)
  <2>1. CASE msgs' = msgs \ {m} /\ UNCHANGED <<exec, exited, todo>>
    BY <1>2, <2>1, ExecUnchanged, QuietStep DEF exec_function, SameTokens, Tokens
  <2>2. CASE Fault("missing") /\ Exit(m.to, {m}, {}, statuses, pins)
    <3>1. todo' \subseteq todo /\ runs' = runs /\ schedule' = schedule
      BY <1>2, <2>2 DEF exec_function, Fault, Do
    <3> QED
      BY <2>2, <3>1, ExitKeeps, SMTT(60)
  <2> QED
    BY <1>2, <2>1, <2>2 DEF exec_function
<1>3. CASE ReceiveDepart(m)
  <2>1. SameExec
    <3> DEFINE e == m.to
               gone == [running |-> FALSE, functions |-> {}]
               y == [exec[e] EXCEPT !.status = gone, !.departing = TRUE]
    <3>1. exec' = [exec EXCEPT ![e] = y]
      BY <1>3 DEF ReceiveDepart, RuntimeInv, Shapes
    <3>2. ASSUME e \in Exec
          PROVE  /\ Shaped(y) /\ y.queue = exec[e].queue
                 /\ y.received_triggers = exec[e].received_triggers
      <4>1. Shaped(exec[e])
        BY <3>2 DEF RuntimeInv, Shapes
      <4> QED
        BY <4>1 DEF Shaped, Fields
    <3> HIDE DEF e, y
    <3> QED
      BY <3>1, <3>2, ExecUpdated
  <2> QED
    BY <1>3, <2>1, QuietStep DEF ReceiveDepart, SameTokens, Tokens
<1>4. CASE ReceiveUpdate(m)
  BY <1>4, ExecUnchanged, QuietStep DEF ReceiveUpdate, SameTokens, Tokens
<1>5. CASE ReceiveUtilization(m)
  BY <1>5, ExecUnchanged, QuietStep DEF ReceiveUtilization, SameTokens, Tokens
<1>6. CASE ReceiveDepartDone(m)
  BY <1>6, ExecUnchanged, QuietStep DEF ReceiveDepartDone, SameTokens, Tokens
<1> QED
  BY <1>1, <1>2, <1>3, <1>4, <1>5, <1>6

LEMMA SchedulerQuiet ==
  ASSUME RuntimeInv, NEW s \in Sched,
         \/ \E d \in DagName : create_dag(s, d) \/ delete_dag(s, d)
         \/ \E c \in Single : call_function(s, c)
         \/ \E e \in Exec : ReceiveStatus(s, e)
         \/ ReceivePinAccept(s) \/ PinTimeout(s) \/ ReportSchedule(s)
  PROVE  RuntimeInv'
<1> USE DEF SameTokens
<1>0. \A e, c, x : UnpinRequest(e).kind \notin Tokens /\ ExecRequest(c, e).kind \notin Tokens
                   /\ SchedulerStatus(e, x).kind \notin Tokens
  BY DEF UnpinRequest, ExecRequest, SchedulerStatus, Tokens
<1>1. ASSUME NEW r, pin_func(s, r) PROVE SameTokens
  BY <1>0, <1>1 DEF pin_func, CreateFails
<1>2. ASSUME NEW d \in DagName, create_dag(s, d) PROVE RuntimeInv'
  <2>1. SameTokens
    BY <1>1, <1>2 DEF create_dag, CreateFrom, PinFrom
  <2> QED
    BY <1>2, <2>1, ExecUnchanged, QuietStep DEF create_dag, Do
<1>3. ASSUME NEW d \in DagName, delete_dag(s, d) PROVE RuntimeInv'
  <2> DEFINE r == sched[s]
             known == r.located \cap r.call_frequency
             reached == {i \in DOMAIN Functions[d] :
                           \A j \in 1 .. i - 1 : Functions[d][j] \in known}
             unpins == UNION {{UnpinRequest(e) : e \in r.func_locations[Functions[d][i]]}
                                : i \in reached}
  <2>2. \A m \in unpins : m.kind \notin Tokens
    BY <1>0
  <2>3. /\ msgs' = msgs \/ msgs' = msgs \cup unpins
        /\ schedule' = schedule /\ exited \subseteq exited'
    BY <1>3 DEF delete_dag, Crash
  <2> HIDE DEF unpins
  <2>1. SameTokens
    BY <2>2, <2>3
  <2> QED
    BY <1>3, <2>1, <2>3, ExecUnchanged, QuietStep DEF delete_dag, Do
<1>4. ASSUME NEW c \in Single, call_function(s, c) PROVE RuntimeInv'
  <2>1. SameTokens /\ schedule' = schedule /\ exited \subseteq exited'
    BY <1>0, <1>4 DEF call_function, Crash
  <2> QED
    BY <1>4, <2>1, ExecUnchanged, QuietStep DEF call_function, Do
<1>5. ASSUME NEW e \in Exec, ReceiveStatus(s, e) PROVE RuntimeInv'
  <2>1. SameTokens /\ schedule' = schedule /\ exited \subseteq exited'
    BY <1>5 DEF ReceiveStatus, Crash
  <2> QED
    BY <1>5, <2>1, ExecUnchanged, QuietStep DEF ReceiveStatus
<1>6. CASE ReceivePinAccept(s)
  <2>1. SameTokens
    BY <1>1, <1>6 DEF ReceivePinAccept, CreateFrom, PinFrom
  <2> QED
    BY <1>6, <2>1, ExecUnchanged, QuietStep DEF ReceivePinAccept
<1>7. CASE PinTimeout(s)
  <2>1. todo' \subseteq todo
    BY <1>7 DEF PinTimeout, Fault, Do
  <2> QED
    BY <1>7, <2>1, ExecUnchanged, QuietStep DEF PinTimeout
<1>8. CASE ReportSchedule(s)
  BY <1>0, <1>8, ExecUnchanged, QuietStep DEF ReportSchedule, Do
<1> QED
  BY <1>2, <1>3, <1>4, <1>5, <1>6, <1>7, <1>8

LEMMA ManagementQuiet ==
  ASSUME RuntimeInv,
         \/ \E f \in Func : replicate_function(f) \/ dereplicate_function(f)
         \/ \E e \in Exec : check_executor_utilization(IpOf[e])
  PROVE  RuntimeInv'
<1>0. \A e : UnpinRequest(e).kind \notin Tokens /\ DepartRequest(e).kind \notin Tokens
  BY DEF UnpinRequest, DepartRequest, Tokens
<1>1. ASSUME NEW f \in Func, replicate_function(f) PROVE RuntimeInv'
  BY <1>1, ExecUnchanged, QuietStep DEF replicate_function, Do, SameTokens
<1>2. ASSUME NEW f \in Func, dereplicate_function(f) PROVE RuntimeInv'
  BY <1>0, <1>2, ExecUnchanged, QuietStep DEF dereplicate_function, Do, SameTokens
<1>3. ASSUME NEW e \in Exec, check_executor_utilization(IpOf[e]) PROVE RuntimeInv'
  BY <1>0, <1>3, ExecUnchanged, QuietStep DEF check_executor_utilization, Do, SameTokens
<1> QED
  BY <1>1, <1>2, <1>3

------------------------------------------------------------------------------
(* What an executor does with a schedule or a trigger of a DAG call keeps  *)
(* the invariant.                                                          *)

(* The functions of a called DAG and their triggers.                       *)
LEMMA DagFacts ==
  ASSUME NEW c \in Call, NEW f \in FuncsOf(CalledDag[c])
  PROVE  /\ f \in Func /\ CalledDag[c] \in DagName
         /\ Predecessors(CalledDag[c], f) \subseteq Func
         /\ Triggers(CalledDag[c], f) \subseteq Source
         /\ IsFiniteSet(Triggers(CalledDag[c], f))
         /\ \A g \in Successors(CalledDag[c], f) :
              g \in FuncsOf(CalledDag[c]) /\ f \in Triggers(CalledDag[c], g)
<1> DEFINE d == CalledDag[c]
<1>1. d \in DagName
  BY DagAssumption
<1>2. FuncsOf(d) \subseteq Func /\ Connections[d] \subseteq FuncsOf(d) \X FuncsOf(d)
  BY <1>1, DagAssumption, SMTT(60) DEF FuncsOf
<1> HIDE DEF d
<1>3. Predecessors(d, f) \subseteq Func
  BY <1>2 DEF Predecessors
<1>4. Triggers(d, f) \subseteq Source
  BY <1>3 DEF Triggers, Source
<1>5. IsFiniteSet(Source)
  BY DagAssumption, FS_AddElement DEF Source
<1>6. IsFiniteSet(Triggers(d, f))
  BY <1>4, <1>5, FS_Subset
<1>7. ASSUME NEW g \in Successors(d, f)
      PROVE  g \in FuncsOf(d) /\ f \in Triggers(d, g)
  <2>1. PICK x \in Connections[d] : x[1] = f /\ x[2] = g
    BY DEF Successors
  <2>2. f \in Predecessors(d, g)
    BY <2>1 DEF Predecessors
  <2> QED
    BY <1>2, <2>1, <2>2 DEF Triggers
<1> QED
  BY <1>1, <1>2, <1>3, <1>4, <1>6, <1>7 DEF d

(* The schedule of a function and the triggers that it can have so far are *)
(* on their way or have arrived.                                           *)
Noted(c, f, e) ==
  /\ DagSchedule(c, f, e) \in msgs \/ <<c, f>> \in exec[e].queue
  /\ \A t \in Triggers(CalledDag[c], f) :
       t = "BEGIN" \/ runs[c][t] = 1 =>
         DagTrigger(c, t, f, e) \in msgs \/ <<c, f, t>> \in exec[e].received_triggers

LEMMA NotedKept ==
  ASSUME NoTriggerLost, Shapes, schedule' = schedule, exited' = exited, 
         \A c \in Call : \A f \in FuncsOf(CalledDag[c]) : runs'[c][f] = 0 => runs[c][f] = 0,
         \A c \in Call : \A f \in FuncsOf(CalledDag[c]), e \in Exec :
           Noted(c, f, e) /\ runs'[c][f] = 0 /\ e = schedule[c][f] => Noted(c, f, e)'
  PROVE  NoTriggerLost'
<1> SUFFICES ASSUME NEW c \in Call, schedule[c] # <<>>, NEW f \in DOMAIN schedule[c],
                    runs'[c][f] = 0, schedule[c][f] \notin exited
             PROVE  Noted(c, f, schedule[c][f])'
  BY DEF NoTriggerLost, Noted
<1>1. f \in FuncsOf(CalledDag[c]) /\ schedule[c][f] \in Exec
  BY DEF Shapes
<1>2. Noted(c, f, schedule[c][f])
  BY <1>1 DEF NoTriggerLost, Noted
<1> QED
  BY <1>1, <1>2

(* An executor notes a schedule.                                           *)
LEMMA ScheduleNoted ==
  ASSUME RuntimeInv, NEW c \in Call, NEW f \in FuncsOf(CalledDag[c]), NEW e \in Exec,
         DagSchedule(c, f, e) \in msgs, NEW x, Shaped(x),
         x.queue = exec[e].queue \cup {<<c, f>>},
         x.received_triggers = exec[e].received_triggers,
         exec' = [exec EXCEPT ![e] = x], msgs' = msgs \ {DagSchedule(c, f, e)},
         runs' = runs, schedule' = schedule, todo' = todo, exited' = exited
  PROVE  RuntimeInv'
<1>0. f \in Func
  BY DagFacts
<1>a. /\ exec' = [d \in Exec |-> exec'[d]]
      /\ exec'[e] = x
      /\ \A d \in Exec : d # e => exec'[d] = exec[d]
  BY DEF RuntimeInv, Shapes
<1>b. \A d \in Exec : /\ Shaped(exec'[d])
                      /\ exec'[d].received_triggers = exec[d].received_triggers
                      /\ exec[d].queue \subseteq exec'[d].queue
                      /\ exec'[d].queue \subseteq exec[d].queue \cup {<<c, f>>}
                      /\ d # e => exec'[d].queue = exec[d].queue
  BY <1>a DEF RuntimeInv, Shapes
<1>c. <<c, f>> \in exec'[e].queue
  BY <1>a
<1>1. Shapes'
  BY <1>0, <1>a, <1>b, SMTT(60) DEF RuntimeInv, Shapes
<1>2. CalledOnce'
  <2>1. ~ Uncalled(c)
    BY DEF RuntimeInv, CalledOnce, Tokens, DagSchedule
  <2> QED
    BY <1>b, <2>1, SMTT(60) DEF RuntimeInv, CalledOnce, Uncalled
<1>3. ScheduledOnce'
  <2>1. /\ runs[c][f] = 0 /\ schedule[c] \in [FuncsOf(CalledDag[c]) -> Exec]
        /\ \A d \in Exec : /\ <<c, f>> \notin exec[d].queue
                           /\ DagSchedule(c, f, d) \in msgs => d = e
    BY DEF RuntimeInv, ScheduledOnce
  <2>2. \A d \in Exec : DagSchedule(c, f, d) \notin msgs'
    BY <2>1
  <2>3. \A d \in Exec : <<c, f>> \in exec'[d].queue => d = e
    BY <1>b, <2>1
  <2>4. \A b, g : <<b, g>> # <<c, f>> =>
          \A d \in Exec : /\ DagSchedule(b, g, d) \in msgs' => DagSchedule(b, g, d) \in msgs
                          /\ <<b, g>> \in exec'[d].queue => <<b, g>> \in exec[d].queue
    BY <1>b
  <2> QED
    BY <2>1, <2>2, <2>3, <2>4, SMTT(60) DEF RuntimeInv, ScheduledOnce
<1>4. TriggersSent'
  BY <1>b, SMTT(60) DEF RuntimeInv, TriggersSent, Sent
<1>5. TriggeredByAll'
  BY DEF RuntimeInv, TriggeredByAll
<1>6. NoTriggerLost'
  <2>1. ASSUME NEW b \in Call, NEW g \in FuncsOf(CalledDag[b]), NEW d \in Exec, Noted(b, g, d)
        PROVE  Noted(b, g, d)'
    BY <1>b, <1>c, <2>1 DEF Noted, DagSchedule, DagTrigger
  <2> QED
    BY <2>1, NotedKept DEF RuntimeInv
<1> QED
  BY <1>1, <1>2, <1>3, <1>4, <1>5, <1>6 DEF RuntimeInv

(* An executor notes a trigger.                                            *)
LEMMA TriggerNoted ==
  ASSUME RuntimeInv, NEW c \in Call, NEW f \in FuncsOf(CalledDag[c]), NEW e \in Exec,
         NEW t \in Source, DagTrigger(c, t, f, e) \in msgs, NEW x, Shaped(x),
         x.queue = exec[e].queue,
         x.received_triggers = exec[e].received_triggers \cup {<<c, f, t>>},
         exec' = [exec EXCEPT ![e] = x], msgs' = msgs \ {DagTrigger(c, t, f, e)},
         runs' = runs, schedule' = schedule, todo' = todo, exited' = exited
  PROVE  RuntimeInv'
<1>0. f \in Func
  BY DagFacts
<1>a. /\ exec' = [d \in Exec |-> exec'[d]]
      /\ exec'[e] = x
      /\ \A d \in Exec : d # e => exec'[d] = exec[d]
  BY DEF RuntimeInv, Shapes
<1>b. \A d \in Exec :
        /\ Shaped(exec'[d])
        /\ exec'[d].queue = exec[d].queue
        /\ exec[d].received_triggers \subseteq exec'[d].received_triggers
        /\ exec'[d].received_triggers \subseteq exec[d].received_triggers \cup {<<c, f, t>>}
        /\ d # e => exec'[d].received_triggers = exec[d].received_triggers
  BY <1>a DEF RuntimeInv, Shapes
<1>c. <<c, f, t>> \in exec'[e].received_triggers
  BY <1>a
<1>1. Shapes'
  BY <1>0, <1>a, <1>b, SMTT(60) DEF RuntimeInv, Shapes
<1>2. CalledOnce'
  <2>1. ~ Uncalled(c)
    BY DEF RuntimeInv, CalledOnce, Tokens, DagTrigger
  <2> QED
    BY <1>b, <2>1, SMTT(60) DEF RuntimeInv, CalledOnce, Uncalled
<1>3. ScheduledOnce'
  BY <1>b, SMTT(60) DEF RuntimeInv, ScheduledOnce
<1>4. TriggersSent'
  BY <1>0, <1>b, SMTT(60) DEF RuntimeInv, TriggersSent, Sent
<1>5. TriggeredByAll'
  BY DEF RuntimeInv, TriggeredByAll
<1>6. NoTriggerLost'
  <2>1. ASSUME NEW b \in Call, NEW g \in FuncsOf(CalledDag[b]), NEW d \in Exec, Noted(b, g, d)
        PROVE  Noted(b, g, d)'
    BY <1>b, <1>c, <2>1 DEF Noted, DagSchedule, DagTrigger
  <2> QED
    BY <2>1, NotedKept DEF RuntimeInv
<1> QED
  BY <1>1, <1>2, <1>3, <1>4, <1>5, <1>6 DEF RuntimeInv

(* An executor runs a function: its schedule is used up, its predecessors  *)
(* have run, and its successors are triggered.                             *)
LEMMA FunctionRun ==
  ASSUME RuntimeInv, NEW c \in Call, NEW f \in FuncsOf(CalledDag[c]), NEW e \in Exec,
         NEW m \in msgs,
         \/ m = DagSchedule(c, f, e)
         \/ <<c, f>> \in exec[e].queue /\ \E t \in Source : m = DagTrigger(c, t, f, e),
         \A p \in Predecessors(CalledDag[c], f) : runs[c][p] = 1,
         NEW y, Shaped(y),
         y.queue = exec[e].queue \ {<<c, f>>},
         y.received_triggers = {t \in exec[e].received_triggers : t[1] # c \/ t[2] # f},
         exec' = [exec EXCEPT ![e] = y],
         runs' = [runs EXCEPT ![c][f] = @ + 1],
         msgs' = (msgs \ {m}) \cup
                   {DagTrigger(c, f, g, schedule[c][g]) : g \in Successors(CalledDag[c], f)},
         schedule' = schedule, todo' = todo, exited' = exited
  PROVE  RuntimeInv'
<1> DEFINE d0 == CalledDag[c]
           new == {DagTrigger(c, f, g, schedule[c][g]) : g \in Successors(d0, f)}
<1>0. f \in Func /\ "BEGIN" \notin Func
  BY DagFacts, DagAssumption
<1>t. /\ runs[c][f] = 0
      /\ schedule[c] \in [FuncsOf(d0) -> Exec]
      /\ \A d \in Exec : <<c, f>> \in exec[d].queue => d = e
      /\ \A d \in Exec : DagSchedule(c, f, d) \in msgs => DagSchedule(c, f, d) = m
  <2>1. CASE m = DagSchedule(c, f, e)
    BY <2>1 DEF RuntimeInv, ScheduledOnce
  <2>2. CASE <<c, f>> \in exec[e].queue
    BY <2>2 DEF RuntimeInv, ScheduledOnce
  <2> QED
    BY <2>1, <2>2
<1>r. /\ runs' \in [Call -> [Func -> Nat]]
      /\ runs'[c][f] = 1
      /\ \A b \in Call, g \in Func : <<b, g>> # <<c, f>> => runs'[b][g] = runs[b][g]
  BY <1>0, <1>t, SMTT(60) DEF RuntimeInv, Shapes
<1>a. /\ exec' = [d \in Exec |-> exec'[d]]
      /\ exec'[e] = y
      /\ \A d \in Exec : d # e => exec'[d] = exec[d]
  BY DEF RuntimeInv, Shapes
<1>b. \A d \in Exec :
        /\ Shaped(exec'[d])
        /\ exec'[d].queue \subseteq exec[d].queue
        /\ exec'[d].received_triggers \subseteq exec[d].received_triggers
        /\ \A q \in exec[d].queue : q # <<c, f>> => q \in exec'[d].queue
        /\ \A u \in exec[d].received_triggers :
             u[1] # c \/ u[2] # f => u \in exec'[d].received_triggers
        /\ <<c, f>> \notin exec'[d].queue
  BY <1>a, <1>t DEF RuntimeInv, Shapes
<1>n. \A n \in new : \E g \in FuncsOf(d0) : /\ n = DagTrigger(c, f, g, schedule[c][g])
                                            /\ schedule[c][g] \in Exec
                                            /\ f \in Triggers(d0, g)
  BY <1>t, DagFacts
<1>m. msgs' = (msgs \ {m}) \cup new
  OBVIOUS
<1> HIDE DEF new
<1>k. \A n \in new : n.kind = "trigger" /\ n.call = c /\ n.source = f
  BY <1>n, SMTT(60) DEF DagTrigger
<1>1. Shapes'
  <2>1. \A n \in msgs' :
         /\ n.kind = "schedule" => \E b \in Call : \E g \in FuncsOf(CalledDag[b]), d \in Exec :
              n = DagSchedule(b, g, d)
         /\ n.kind = "trigger" => \E b \in Call : \E g \in FuncsOf(CalledDag[b]), d \in Exec :
              \E t \in Source : n = DagTrigger(b, t, g, d)
    <3>1. f \in Source
      BY <1>0 DEF Source
    <3> QED
      BY <1>m, <1>n, <1>k, <3>1, SMTT(60) DEF RuntimeInv, Shapes
  <2>2. /\ schedule = [b \in Call |-> schedule[b]]
        /\ \A b \in Call : schedule[b] = <<>> \/ schedule[b] \in [FuncsOf(CalledDag[b]) -> Exec]
    BY DEF RuntimeInv, Shapes
  <2>3. \A d \in Exec : /\ exec'[d].queue \subseteq Call \X Func
                        /\ exec'[d].received_triggers \subseteq Call \X Func \X Source
    BY <1>b DEF RuntimeInv, Shapes
  <2> QED
    BY <1>a, <1>b, <1>r, <2>1, <2>2, <2>3 DEF Shapes
<1>2. CalledOnce'
  <2>1. ~ Uncalled(c)
    BY SMTT(60) DEF RuntimeInv, CalledOnce, Tokens, DagTrigger, DagSchedule
  <2>2. \A b \in Call : b # c => \A g \in Func : runs'[b][g] = runs[b][g]
    BY <1>r
  <2>3. \A b \in Call : Uncalled(b)' => Uncalled(b) /\ b # c
    BY <2>1 DEF Uncalled
  <2> QED
    BY <1>b, <1>m, <1>k, <2>2, <2>3, SMTT(60) DEF RuntimeInv, CalledOnce
<1>3. ScheduledOnce'
  <2>1. \A d \in Exec : DagSchedule(c, f, d) \notin msgs'
    BY <1>m, <1>k, <1>t DEF DagSchedule
  <2>2. \A b, g, d : DagSchedule(b, g, d) \in msgs' => DagSchedule(b, g, d) \in msgs
    BY <1>m, <1>k DEF DagSchedule
  <2>3. \A b \in Call : \A g \in FuncsOf(CalledDag[b]) : g \in Func
    BY DagFacts
  <2>4. \A d \in Exec : exec'[d].queue \subseteq exec[d].queue /\ <<c, f>> \notin exec'[d].queue
    BY <1>b
  <2>5. \A b \in Call : \A g \in FuncsOf(CalledDag[b]) :
          <<b, g>> # <<c, f>> => runs'[b][g] = runs[b][g]
    BY <1>r, <2>3
  <2> SUFFICES ASSUME NEW b \in Call, NEW g \in FuncsOf(CalledDag[b])
               PROVE  /\ runs'[b][g] <= 1
                      /\ \A d \in Exec : DagSchedule(b, g, d) \in msgs' =>
                           /\ runs'[b][g] = 0
                           /\ schedule[b] \in [FuncsOf(CalledDag[b]) -> Exec]
                           /\ \A d2 \in Exec : /\ <<b, g>> \notin exec'[d2].queue
                                               /\ DagSchedule(b, g, d2) \in msgs' => d2 = d
                      /\ \A d \in Exec : <<b, g>> \in exec'[d].queue =>
                           /\ runs'[b][g] = 0
                           /\ schedule[b] \in [FuncsOf(CalledDag[b]) -> Exec]
                           /\ \A d2 \in Exec : <<b, g>> \in exec'[d2].queue => d2 = d
    BY SMTT(60) DEF ScheduledOnce
  <2>6. CASE <<b, g>> = <<c, f>>
    BY <1>r, <2>1, <2>4, <2>6, SMTT(60)
  <2>7. CASE <<b, g>> # <<c, f>>
    BY <2>2, <2>4, <2>5, <2>7, SMTT(60) DEF RuntimeInv, ScheduledOnce
  <2> QED
    BY <2>6, <2>7
<1>4. TriggersSent'
  <2> SUFFICES ASSUME NEW b \in Call, NEW g \in Func, NEW t \in Source, NEW d \in Exec,
                      \/ DagTrigger(b, t, g, d) \in msgs'
                      \/ <<b, g, t>> \in exec'[d].received_triggers
               PROVE  Sent(b, t, g)'
    BY DEF TriggersSent
  <2>1. Sent(b, t, g) => Sent(b, t, g)'
    BY <1>r, <1>t, <1>0 DEF Sent, Source
  <2>2. CASE DagTrigger(b, t, g, d) \in new
    <3>1. b = c /\ t = f /\ f \in Triggers(d0, g)
      BY <1>n, <2>2 DEF DagTrigger
    <3> QED
      BY <3>1, <1>r DEF Sent
  <2>3. CASE DagTrigger(b, t, g, d) \notin new
    BY <1>b, <1>m, <2>1, <2>3 DEF RuntimeInv, TriggersSent
  <2> QED
    BY <2>2, <2>3
<1>5. TriggeredByAll'
  <2>1. \A b \in Call : \A g \in FuncsOf(CalledDag[b]) :
          g \in Func /\ Predecessors(CalledDag[b], g) \subseteq Func
    BY DagFacts
  <2>2. \A b \in Call, g \in Func : runs[b][g] = 1 => runs'[b][g] = 1
    BY <1>r, <1>t
  <2> QED
    BY <1>r, <1>t, <2>1, <2>2, SMTT(60) DEF RuntimeInv, TriggeredByAll
<1>6. NoTriggerLost'
  <2>1. ASSUME NEW b \in Call, NEW g \in FuncsOf(CalledDag[b]), NEW d \in Exec,
               Noted(b, g, d), runs'[b][g] = 0, d = schedule[b][g]
        PROVE  Noted(b, g, d)'
    <3>1. <<b, g>> # <<c, f>>
      BY <1>r, <2>1, SMTT(60)
    <3>2. DagSchedule(b, g, d) \in msgs => DagSchedule(b, g, d) \in msgs'
      BY <1>m, <3>1, SMTT(60) DEF DagSchedule, DagTrigger
    <3>3. \A t : DagTrigger(b, t, g, d) \in msgs => DagTrigger(b, t, g, d) \in msgs'
      BY <1>m, <3>1, SMTT(60) DEF DagSchedule, DagTrigger
    <3>4. ASSUME NEW t \in Triggers(CalledDag[b], g), t = "BEGIN" \/ runs'[b][t] = 1
          PROVE  \/ DagTrigger(b, t, g, d) \in msgs'
                 \/ <<b, g, t>> \in exec'[d].received_triggers
      <4>1. CASE b = c /\ t = f
        <5>1. g \in Successors(d0, f)
          <6>1. f \in Predecessors(d0, g)
            BY <1>0, <4>1 DEF Triggers
          <6> QED
            BY <6>1 DEF Predecessors, Successors
        <5> QED
          BY <4>1, <5>1, <2>1 DEF new
      <4>2. CASE ~ (b = c /\ t = f)
        <5>1. t = "BEGIN" \/ runs[b][t] = 1
          BY <1>r, <3>4, <4>2, DagFacts, SMTT(60) DEF Source
        <5>2. DagTrigger(b, t, g, d) \in msgs \/ <<b, g, t>> \in exec[d].received_triggers
          BY <2>1, <5>1 DEF Noted
        <5> QED
          BY <1>b, <3>1, <3>3, <5>2
      <4> QED
        BY <4>1, <4>2
    <3> QED
      BY <1>b, <2>1, <3>1, <3>2, <3>4 DEF Noted
  <2>2. \A b \in Call : \A g \in FuncsOf(CalledDag[b]) : runs'[b][g] = 0 => runs[b][g] = 0
    BY <1>r, DagFacts, SMTT(60)
  <2> QED
    BY <2>1, <2>2, NotedKept DEF RuntimeInv
<1> QED
  BY <1>1, <1>2, <1>3, <1>4, <1>5, <1>6 DEF RuntimeInv

------------------------------------------------------------------------------
(* RunIfTriggered for the executor x, which has noted the message m.  The  *)
(* count of the sources tells that all are there, as the sources are all   *)
(* among the triggers.                                                     *)
LEMMA AllTriggered ==
  ASSUME NEW c \in Call, NEW f \in FuncsOf(CalledDag[c]), NEW R,
         \A u \in R : u \in Call \X Func \X Source,
         \A t \in Source : <<c, f, t>> \in R => Sent(c, t, f),
         Cardinality({t[3] : t \in {u \in R : u[1] = c /\ u[2] = f}})
           = Cardinality(Triggers(CalledDag[c], f))
  PROVE  \A p \in Predecessors(CalledDag[c], f) : runs[c][p] = 1
<1> DEFINE sources == {t[3] : t \in {u \in R : u[1] = c /\ u[2] = f}}
           T == Triggers(CalledDag[c], f)
<1>1. \A t \in sources : t \in Source /\ Sent(c, t, f)
  BY SMTT(60)
<1>2. sources \subseteq T
  BY <1>1 DEF Sent
<1>3. IsFiniteSet(T)
  BY DagFacts
<1> HIDE DEF sources, T
<1>4. sources = T
  <2>1. Cardinality(sources) = Cardinality(T)
    BY DEF sources, T
  <2> QED
    BY <1>2, <1>3, <2>1, FS_Subset
<1> SUFFICES ASSUME NEW p \in Predecessors(CalledDag[c], f) PROVE runs[c][p] = 1
  OBVIOUS
<1>5. p \in T /\ p # "BEGIN"
  BY DagFacts, DagAssumption DEF T, Triggers
<1> QED
  BY <1>1, <1>4, <1>5 DEF Sent

LEMMA ReceiveKeeps ==
  ASSUME RuntimeInv, NEW m \in msgs, ReceiveSchedule(m) \/ ReceiveTrigger(m)
  PROVE  RuntimeInv'
<1> DEFINE e == m.to
           c == m.call
           f == m.func
           x == IF m.kind = "schedule"
                THEN [exec[e] EXCEPT !.queue = @ \cup {<<c, f>>}, !.queued = @ \cup {f}]
                ELSE [exec[e] EXCEPT !.received_triggers = @ \cup {<<c, f, m.source>>}]
           y == [x EXCEPT !.queue = @ \ {<<c, f>>},
                          !.received_triggers = {t \in @ : t[1] # c \/ t[2] # f}]
<1>1. /\ m.kind \in Tokens /\ RunIfTriggered(e, x, c, f, m) /\ schedule' = schedule
  BY DEF ReceiveSchedule, ReceiveTrigger, Tokens
<1>2. /\ c \in Call /\ f \in FuncsOf(CalledDag[c]) /\ e \in Exec
      /\ \/ m.kind = "schedule" /\ m = DagSchedule(c, f, e)
         \/ /\ m.kind = "trigger" /\ m.source \in Source
            /\ m = DagTrigger(c, m.source, f, e)
  BY <1>1, SMTT(60) DEF RuntimeInv, Shapes, Tokens, DagSchedule, DagTrigger
<1>3. Shaped(exec[e]) /\ exec[e].queue \subseteq Call \X Func
      /\ exec[e].received_triggers \subseteq Call \X Func \X Source
  BY <1>2 DEF RuntimeInv, Shapes
<1>4. /\ Shaped(x)
      /\ x.queue = exec[e].queue \cup (IF m.kind = "schedule" THEN {<<c, f>>} ELSE {})
      /\ x.received_triggers = exec[e].received_triggers
           \cup (IF m.kind = "schedule" THEN {} ELSE {<<c, f, m.source>>})
  BY <1>3 DEF Shaped, Fields
<1>5. /\ Shaped(y) /\ y.queue = x.queue \ {<<c, f>>}
      /\ y.received_triggers = {t \in x.received_triggers : t[1] # c \/ t[2] # f}
  <2> HIDE DEF x
  <2> QED
    BY <1>4 DEF Shaped, Fields
<1>6. f \in Func
  BY <1>2, DagFacts
<1>7. CASE /\ exec' = [exec EXCEPT ![e] = x] /\ msgs' = msgs \ {m}
           /\ runs' = runs /\ todo' = todo /\ exited' = exited
  <2> HIDE DEF x
  <2>1. CASE m.kind = "schedule"
    BY <1>1, <1>2, <1>4, <1>7, <2>1, ScheduleNoted
  <2>2. CASE m.kind = "trigger"
    <3> DEFINE t == m.source
    <3>1. /\ t \in Source /\ m = DagTrigger(c, t, f, e)
          /\ x.queue = exec[e].queue
          /\ x.received_triggers = exec[e].received_triggers \cup {<<c, f, t>>}
      BY <1>2, <1>4, <2>2
    <3> HIDE DEF c, f, e, t
    <3> QED
      BY <1>1, <1>2, <1>4, <1>7, <3>1, TriggerNoted
  <2> QED
    BY <1>2, <2>1, <2>2
<1>8. CASE /\ <<c, f>> \in x.queue
           /\ Cardinality({t[3] : t \in {u \in x.received_triggers : u[1] = c /\ u[2] = f}})
                = Cardinality(Triggers(CalledDag[c], f))
           /\ exec_dag_function(e, x, c, f, m)
  <2>1. /\ exec' = [exec EXCEPT ![e] = y]
        /\ runs' = [runs EXCEPT ![c][f] = @ + 1]
        /\ msgs' = (msgs \ {m}) \cup
                     {DagTrigger(c, f, g, schedule[c][g]) : g \in Successors(CalledDag[c], f)}
        /\ todo' = todo /\ exited' = exited
    BY <1>8 DEF exec_dag_function
  <2> HIDE DEF x, y
  <2>2. \A u \in x.received_triggers : u \in Call \X Func \X Source
    BY <1>2, <1>3, <1>4, <1>6, SMTT(60)
  <2>3. \A t \in Source : <<c, f, t>> \in x.received_triggers => Sent(c, t, f)
    BY <1>2, <1>4, <1>6, SMTT(60) DEF RuntimeInv, TriggersSent
  <2>4. \A p \in Predecessors(CalledDag[c], f) : runs[c][p] = 1
    BY <1>2, <1>8, <2>2, <2>3, AllTriggered
  <2>5. /\ y.queue = exec[e].queue \ {<<c, f>>}
        /\ y.received_triggers = {t \in exec[e].received_triggers : t[1] # c \/ t[2] # f}
    BY <1>4, <1>5, SMTT(60)
  <2>6. \/ m = DagSchedule(c, f, e)
        \/ <<c, f>> \in exec[e].queue /\ \E t \in Source : m = DagTrigger(c, t, f, e)
    BY <1>2, <1>4, <1>8 DEF DagTrigger
  <2> HIDE DEF c, f, e
  <2> QED
    BY <1>1, <1>2, <1>5, <2>1, <2>4, <2>5, <2>6, FunctionRun
<1>9. CASE Exit(e, {m}, {}, statuses, pins) /\ runs' = runs /\ todo' \subseteq todo
  <2> HIDE DEF x, y
  <2> QED
    BY <1>1, <1>9, ExitKeeps, SMTT(60)
<1> QED
  <2> HIDE DEF x, y
  <2> HIDE DEF e, c, f
  <2> DEFINE sources == {t[3] : t \in {u \in x.received_triggers : u[1] = c /\ u[2] = f}}
             ready == /\ <<c, f>> \in x.queue /\ sources # {}
                      /\ Cardinality(sources) = Cardinality(Triggers(CalledDag[c], f))
  <2>1. \/ /\ ~ ready
           /\ exec' = [exec EXCEPT ![e] = x]
           /\ msgs' = msgs \ {m}
           /\ UNCHANGED <<pins, statuses, runs, results, exited, todo, faults>>
        \/ ready /\ f \in x.pinned_functions /\ exec_dag_function(e, x, c, f, m)
        \/ /\ ready
           /\ \/ f \in x.pinned_functions /\ Fault("raise")
              \/ f \notin x.pinned_functions /\ UNCHANGED <<todo, faults>>
           /\ Exit(e, {m}, {}, statuses, pins)
           /\ UNCHANGED <<runs, results>>
    BY <1>1 DEF RunIfTriggered
  <2>2. CASE ready /\ exec_dag_function(e, x, c, f, m)
    BY <1>8, <2>2
  <2>3. Fault("raise") \/ UNCHANGED <<todo, faults>> => todo' \subseteq todo
    BY DEF Fault, Do
  <2> HIDE DEF ready
  <2> QED
    BY <1>7, <1>9, <2>1, <2>2, <2>3

(* A scheduler calls a DAG: the call has left no trace before.             *)
LEMMA DagCalled ==
  ASSUME RuntimeInv, NEW s \in Sched, NEW c \in Call, CallEvent(s, c) \in todo,
         todo' = todo \ {CallEvent(s, c)}, NEW loc \in [FuncsOf(CalledDag[c]) -> Exec],
         schedule' = [schedule EXCEPT ![c] = loc],
         msgs' = msgs \cup {DagSchedule(c, f, loc[f]) : f \in FuncsOf(CalledDag[c])}
                   \cup {DagTrigger(c, "BEGIN", f, loc[f]) : f \in find_dag_source(CalledDag[c])},
         exec' = exec, runs' = runs, exited' = exited
  PROVE  RuntimeInv'
<1> DEFINE F == FuncsOf(CalledDag[c])
           S == {DagSchedule(c, f, loc[f]) : f \in F}
           B == {DagTrigger(c, "BEGIN", f, loc[f]) : f \in find_dag_source(CalledDag[c])}
<1>1. /\ \A f \in Func : runs[c][f] = 0
      /\ \A m \in msgs : m.kind \in Tokens => m.call # c
      /\ \A e \in Exec : /\ \A q \in exec[e].queue : q[1] # c
                         /\ \A t \in exec[e].received_triggers : t[1] # c
  BY DEF RuntimeInv, CalledOnce, Uncalled
<1>2. /\ ~ Uncalled(c)' /\ \A b \in Call : Uncalled(b)' => Uncalled(b) /\ b # c
      /\ \A b \in Call, t \in Sched : CallEvent(t, b) \in todo' => CallEvent(t, b) \in todo
  BY DEF RuntimeInv, CalledOnce, Uncalled
<1>3. /\ schedule' = [b \in Call |-> schedule'[b]] /\ schedule'[c] = loc
      /\ \A b \in Call : b # c => schedule'[b] = schedule[b]
  BY DEF RuntimeInv, Shapes
<1>4. /\ \A m \in S : m.kind = "schedule" /\ m.call = c
      /\ \A m \in B : m.kind = "trigger" /\ m.call = c
  BY SMTT(60) DEF DagSchedule, DagTrigger
<1>5. msgs' = msgs \cup S \cup B
  OBVIOUS
<1>6. /\ \A m \in S : \E f \in F : m = DagSchedule(c, f, loc[f]) /\ loc[f] \in Exec
      /\ \A m \in B : \E f \in F : /\ m = DagTrigger(c, "BEGIN", f, loc[f]) /\ loc[f] \in Exec
                                   /\ Predecessors(CalledDag[c], f) = {}
  BY DEF find_dag_source
<1>7. /\ \A f \in F : DagSchedule(c, f, loc[f]) \in S
      /\ \A f \in F : Predecessors(CalledDag[c], f) = {} => DagTrigger(c, "BEGIN", f, loc[f]) \in B
  BY DEF find_dag_source
<1> HIDE DEF S, B
<1>a. Shapes'
  <2>1. ASSUME NEW n \in msgs'
        PROVE
         /\ n.kind = "schedule" => \E b \in Call : \E g \in FuncsOf(CalledDag[b]), d \in Exec :
              n = DagSchedule(b, g, d)
         /\ n.kind = "trigger" => \E b \in Call : \E g \in FuncsOf(CalledDag[b]), d \in Exec :
              \E t \in Source : n = DagTrigger(b, t, g, d)
    <3>1. "BEGIN" \in Source
      BY DEF Source
    <3>2. CASE n \in msgs
      BY <3>2 DEF RuntimeInv, Shapes
    <3>3. CASE n \in S
      BY <1>4, <1>6, <3>3
    <3>4. CASE n \in B
      BY <1>4, <1>6, <3>1, <3>4, SMTT(60)
    <3> QED
      BY <1>5, <3>2, <3>3, <3>4
  <2> QED
    BY <1>3, <2>1 DEF RuntimeInv, Shapes
<1>b. CalledOnce'
  BY <1>2, <1>3, <1>4, <1>5, SMTT(60) DEF RuntimeInv, CalledOnce
<1>c. ScheduledOnce'
  <2> SUFFICES ASSUME NEW b \in Call, NEW g \in FuncsOf(CalledDag[b])
               PROVE  /\ runs[b][g] <= 1
                      /\ \A d \in Exec : DagSchedule(b, g, d) \in msgs' =>
                           /\ runs[b][g] = 0
                           /\ schedule'[b] \in [FuncsOf(CalledDag[b]) -> Exec]
                           /\ \A d2 \in Exec : /\ <<b, g>> \notin exec[d2].queue
                                               /\ DagSchedule(b, g, d2) \in msgs' => d2 = d
                      /\ \A d \in Exec : <<b, g>> \in exec[d].queue =>
                           /\ runs[b][g] = 0
                           /\ schedule'[b] \in [FuncsOf(CalledDag[b]) -> Exec]
                           /\ \A d2 \in Exec : <<b, g>> \in exec[d2].queue => d2 = d
    BY SMTT(60) DEF ScheduledOnce
  <2>1. CASE b = c
    <3>1. g \in Func
      BY DagFacts
    <3>2. \A d : DagSchedule(c, g, d) \in msgs' => d = loc[g]
      BY <1>1, <1>4, <1>5, <1>6 DEF DagSchedule, Tokens
    <3>3. \A d \in Exec : <<c, g>> \notin exec[d].queue
      BY <1>1
    <3> QED
      BY <1>1, <1>3, <2>1, <3>1, <3>2, <3>3, SMTT(60)
  <2>2. CASE b # c
    <3>1. \A d : DagSchedule(b, g, d) \in msgs' => DagSchedule(b, g, d) \in msgs
      BY <1>4, <1>5, <2>2 DEF DagSchedule
    <3> QED
      BY <1>3, <2>2, <3>1 DEF RuntimeInv, ScheduledOnce
  <2> QED
    BY <2>1, <2>2
<1>d. TriggersSent'
  <2> SUFFICES ASSUME NEW b \in Call, NEW g \in Func, NEW t \in Source, NEW d \in Exec,
                      \/ DagTrigger(b, t, g, d) \in msgs'
                      \/ <<b, g, t>> \in exec[d].received_triggers
               PROVE  Sent(b, t, g)
    BY DEF TriggersSent, Sent
  <2>1. CASE DagTrigger(b, t, g, d) \in B
    <3>1. b = c /\ t = "BEGIN" /\ Predecessors(CalledDag[c], g) = {}
      BY <1>6, <2>1 DEF DagTrigger
    <3> QED
      BY <3>1 DEF Sent, Triggers
  <2>2. DagTrigger(b, t, g, d) \notin S
    BY <1>4 DEF DagTrigger
  <2> QED
    BY <1>5, <2>1, <2>2 DEF RuntimeInv, TriggersSent
<1>e. TriggeredByAll'
  BY DEF RuntimeInv, TriggeredByAll
<1>f. NoTriggerLost'
  <2> SUFFICES ASSUME NEW b \in Call, schedule'[b] # <<>>, NEW g \in DOMAIN schedule'[b],
                      runs[b][g] = 0, NEW e, e = schedule'[b][g], e \notin exited
               PROVE  Noted(b, g, e)'
    BY SMTT(60) DEF NoTriggerLost, Noted
  <2>1. CASE b = c
    <3>1. g \in F
      BY <1>3, <2>1
    <3>2. ASSUME NEW t \in Triggers(CalledDag[c], g), t = "BEGIN" \/ runs[c][t] = 1
          PROVE  DagTrigger(c, t, g, loc[g]) \in msgs'
      <4>0. t \in Source
        BY <3>1, DagFacts
      <4>1. t = "BEGIN"
        BY <1>1, <3>2, <4>0, SMTT(60) DEF Source
      <4>2. Predecessors(CalledDag[c], g) = {}
        BY <3>1, <4>1, DagFacts, DagAssumption DEF Triggers
      <4> QED
        BY <1>5, <1>7, <3>1, <4>1, <4>2
    <3>3. DagSchedule(c, g, loc[g]) \in msgs'
      BY <1>5, <1>7, <3>1
    <3> QED
      BY <1>3, <2>1, <3>2, <3>3 DEF Noted
  <2>2. CASE b # c
    <3>1. Noted(b, g, e)
      BY <1>3, <2>2 DEF RuntimeInv, NoTriggerLost, Noted
    <3> QED
      BY <1>3, <1>5, <2>2, <3>1 DEF Noted
  <2> QED
    BY <2>1, <2>2
<1> QED
  BY <1>a, <1>b, <1>c, <1>d, <1>e, <1>f DEF RuntimeInv

------------------------------------------------------------------------------
LEMMA InitInv == Init => RuntimeInv
<1> SUFFICES ASSUME Init PROVE RuntimeInv
  OBVIOUS
<1> USE DEF Init
<1>1. Shapes
  BY NewShaped, SMTT(60) DEF Shapes, NewExecutor
<1>2. CalledOnce
  <2>1. PICK scenario \in Scenario : todo = scenario.events
    OBVIOUS
  <2>2. \A s, t \in Sched, c \in Call :
          CallEvent(s, c) \in todo /\ CallEvent(t, c) \in todo => s = t
    BY <2>1, DagAssumption, SMTT(60) DEF CallEvent
  <2> QED
    BY <2>2, SMTT(60) DEF CalledOnce, NewExecutor
<1>3. ScheduledOnce /\ TriggeredByAll
  BY DagFacts, SMTT(60) DEF ScheduledOnce, TriggeredByAll, NewExecutor
<1>4. TriggersSent
  BY SMTT(60) DEF TriggersSent, NewExecutor
<1>5. NoTriggerLost
  BY DEF NoTriggerLost
<1> QED
  BY <1>1, <1>2, <1>3, <1>4, <1>5 DEF RuntimeInv

LEMMA StepInv == RuntimeInv /\ [Next]_vars => RuntimeInv'
<1> SUFFICES ASSUME RuntimeInv, [Next]_vars PROVE RuntimeInv'
  OBVIOUS
<1>1. ASSUME NEW s \in Sched, NEW c \in Call, call_dag(s, c) PROVE RuntimeInv'
  <2>1. CallEvent(s, c) \in todo /\ todo' = todo \ {CallEvent(s, c)}
        /\ exec' = exec /\ runs' = runs
    BY <1>1 DEF call_dag, Do, CallEvent
  <2>2. CASE msgs' = msgs /\ schedule' = schedule /\ exited \subseteq exited'
    BY <2>1, <2>2, ExecUnchanged, QuietStep DEF SameTokens
  <2>3. CASE \E loc \in [FuncsOf(CalledDag[c]) -> Exec] :
          /\ schedule' = [schedule EXCEPT ![c] = loc]
          /\ msgs' = msgs \cup {DagSchedule(c, f, loc[f]) : f \in FuncsOf(CalledDag[c])} \cup
                {DagTrigger(c, "BEGIN", f, loc[f]) : f \in find_dag_source(CalledDag[c])}
          /\ exited' = exited
    BY <2>1, <2>3, DagCalled
  <2> QED
    BY <1>1, <2>2, <2>3 DEF call_dag, Crash
<1>2. CASE UNCHANGED vars
  BY <1>2, ExecUnchanged, QuietStep DEF vars, SameTokens
<1> QED
  BY <1>1, <1>2, ExecutorQuiet, MessageQuiet, SchedulerQuiet, ManagementQuiet, ReceiveKeeps DEF Next

(* For every set of DAGs, executors, schedulers and scenarios: a call runs *)
(* a function at most once, and only after all its predecessors, although  *)
(* exec_dag_function only counts the triggers (executor/server.py).        *)
THEOREM EveryCallTriggered == Spec => []TriggeredByAll
<1>1. RuntimeInv => TriggeredByAll
  BY DEF RuntimeInv
<1> QED
  BY <1>1, InitInv, StepInv, PTL DEF Spec

(* For every set of DAGs, executors, schedulers and scenarios: whatever    *)
(* the order of schedules and triggers, an executor that has not exited    *)
(* still gets, or has noted, those of every function that is to run there. *)
THEOREM TriggersKept == Spec => []NoTriggerLost
<1>1. RuntimeInv => NoTriggerLost
  BY DEF RuntimeInv
<1> QED
  BY <1>1, InitInv, StepInv, PTL DEF Spec
==============================================================================
