------------------------ MODULE LifecycleOutcomeProofs ------------------------
(***************************************************************************)
(* What an attempt's end may do to its worker, to its Task and to the      *)
(* attempts that follow: stops, completion, dependents, the breaker; and   *)
(* with it that the database implements TaskLease.                         *)
(***************************************************************************)
EXTENDS LifecycleSafetyProofs

USE DEF ActiveDispatch, SettledDispatch, DispatchStatuses, UnprovenWorker, LiveWorker,
        SettledWorker, WorkerStates, TaskStatuses

-----------------------------------------------------------------------------
(* Stops *)

(* Inside the attempt only the stop's own outcomes and startup recovery apply. *)
LEMMA OwnStopInAttempt ==
  ASSUME TypeOK, NEW d \in Dispatches, d \notin federated, StopInFlight(d), InAttempt(d)
  PROVE  worker'[d] \in {"stopping", "stopped", "stop_unknown"}
<1> USE DEF TypeOK, SetWorker, StopInFlight
<1>1. ASSUME \/ \E h \in Terminals : PrepareAuthority(d, h)
             \/ MarkReady(d) \/ MarkStartUnknown(d)
             \/ \E why \in {"stalled", "other"} : FailWorkerStart(d, why)
      PROVE  FALSE
  BY <1>1 DEF PrepareAuthority, MarkReady, MarkStartUnknown, FailWorkerStart, StartInFlight,
              Starting
<1>2. ASSUME \/ \E s \in {"ready", "start_unknown", "failed", "stopped"},
                   why \in {"stalled", "other"} : ReconcileFederatedStart(d, s, why)
             \/ ReconcileFederatedStop(d) \/ ResumeFederated(d) \/ ImportQuestion(d)
      PROVE  FALSE
  BY <1>2 DEF ReconcileFederatedStart, ReconcileFederatedStop, ResumeFederated, ImportQuestion,
              Federated
<1>3. ASSUME \/ BeginWorkerStop(d) \/ AbandonWorker(d) \/ ReleaseContextOnly(d)
             \/ WorkerExit(d) \/ FailContextOnly(d)
             \/ \E outcome \in {"succeeded", "failed"} :
                  WorkerReport(d, outcome) \/ CorrectingReport(d, outcome)
      PROVE  FALSE
  BY <1>3 DEF BeginWorkerStop, AbandonWorker, ReleaseContextOnly, WorkerExit, FailContextOnly,
              WorkerReport, CorrectingReport, SettlesWorker, Starting
<1>4. ASSUME SettleWorkerStop(d) \/ MarkStopUnknown(d) \/ RecoverMissingTerminal(d)
      PROVE  worker'[d] \in {"stopped", "stop_unknown"}
  BY <1>4 DEF SettleWorkerStop, MarkStopUnknown, RecoverMissingTerminal
<1>5. ASSUME Ask(d) \/ Answer(d) PROVE worker'[d] = "stopping"
  BY <1>5 DEF Ask, Answer
<1> HIDE DEF TypeOK, SetWorker, StopInFlight
<1> QED BY <1>1, <1>2, <1>3, <1>4, <1>5 DEF InAttempt

(* An owned Task refuses every update that would settle its attempt. *)
LEMMA OwnedTaskKeepsWorker ==
  ASSUME TypeOK, Coherent, NEW d \in Dispatches, Supervised(d), NEW t \in Tasks,
         \/ \E s \in TaskStatuses : UpdateTaskStatus(t, s)
         \/ \E g \in Gates : CreateGate(g, t)
  PROVE  worker'[d] = worker[d]
<1>1. taskOf[d] = t => WorkerOwns(t)
  BY LiveWorkerFacts DEF WorkerOwns, ActiveOn
<1>2. d \notin ActiveOn(t) => taskOf[d] # t
  BY LiveWorkerFacts DEF ActiveOn
<1>3. ASSUME NEW s \in TaskStatuses, UpdateTaskStatus(t, s) PROVE worker'[d] = worker[d]
  <2>1. s \in {"completed", "failed"} => d \notin ActiveOn(t)
    BY <1>1, <1>3 DEF UpdateTaskStatus, MayUpdateTask, ActiveOn
  <2> QED BY <1>3, <2>1 DEF UpdateTaskStatus, SettleDispatches
<1>4. ASSUME NEW g \in Gates, CreateGate(g, t) PROVE worker'[d] = worker[d]
  <2>1. d \notin ActiveOn(t)
    BY <1>1, <1>4 DEF CreateGate, ActiveOn
  <2> QED BY <1>4, <2>1 DEF CreateGate, SettleDispatches
<1> QED BY <1>3, <1>4

(* The rows that exist keep their Task, worker and count when a new one is inserted. *)
LEMMA CreationKeepsRows ==
  ASSUME TypeOK, NEW d \in Dispatches, d <= nd,
         \/ \E t \in Tasks, h \in Terminals : CreateDispatchContext(t, h)
         \/ \E t \in Tasks, place \in Placements : StartWorker(t, place)
         \/ \E p \in Dispatches, place \in Placements : RetryWorker(p, place)
  PROVE  /\ taskOf'[d] = taskOf[d] /\ dispatch'[d] = dispatch[d]
         /\ worker'[d] = worker[d] /\ failures'[d] = failures[d]
<1>1. PICK t, status, state, m : NewAttempt(t, status, state, m)
  BY DEF CreateDispatchContext, StartWorker, RetryWorker, NewWorker
<1>2. d # nd + 1
  BY DispatchesAreNat DEF TypeOK
<1> QED BY <1>1, <1>2 DEF NewAttempt, TypeOK

LEMMA OwnStopStep ==
  ASSUME TypeOK, Coherent, Next, NEW d \in Dispatches, d \notin federated, StopInFlight(d)
  PROVE  worker'[d] \in {"stopping", "stopped", "stop_unknown"}
<1>1. Supervised(d) /\ worker[d] = "stopping"
  BY DEF StopInFlight, Supervised
<1>2. Active(d) /\ d <= nd
  BY <1>1, LiveWorkerFacts
<1>3. ASSUME NEW e \in Dispatches, InAttempt(e)
      PROVE  worker'[d] \in {"stopping", "stopped", "stop_unknown"}
  BY <1>1, <1>3, OwnStopInAttempt, OthersUntouched
<1>4. ASSUME NEW t \in Tasks, \/ \E s \in TaskStatuses : UpdateTaskStatus(t, s)
                              \/ \E g \in Gates : CreateGate(g, t)
      PROVE  worker'[d] = "stopping"
  BY <1>1, <1>4, OwnedTaskKeepsWorker
<1>5. ASSUME NEW e \in Dispatches, LateEscalation(e) PROVE worker'[d] = "stopping"
  BY <1>4, <1>5, LateEscalationUpdates
<1>6. ASSUME (\E t \in Tasks : CreateTask(t)) \/ (\E g \in Gates : ResolveGate(g))
             \/ ReblockGatedTasks
      PROVE  worker'[d] = "stopping"
  BY <1>1, <1>6 DEF CreateTask, ResolveGate, ReblockGatedTasks
<1>7. CASE Restart
  BY <1>1, <1>2, <1>7 DEF Restart, Active
<1>8. ASSUME \/ \E t \in Tasks, h \in Terminals : CreateDispatchContext(t, h)
             \/ \E t \in Tasks, place \in Placements : StartWorker(t, place)
             \/ \E p \in Dispatches, place \in Placements : RetryWorker(p, place)
      PROVE  worker'[d] = "stopping"
  BY <1>1, <1>2, <1>8, CreationKeepsRows
<1> QED BY <1>3, <1>4, <1>5, <1>6, <1>7, <1>8, NextCases

(* The operator's stop of a local worker is never overtaken: whatever else happens while
   it is in flight, the worker leaves "stopping" only as stopped or stop_unknown. *)
THEOREM OwnStopsEnd == Spec => OwnStopEndsHonestly
<1>1. Inv /\ [Next]_vars =>
        [\A d \in Dispatches \ federated :
           StopInFlight(d) => worker'[d] \in {"stopping", "stopped", "stop_unknown"}]_vars
  BY OwnStopStep DEF Inv
<1> QED BY <1>1, InvIsInvariant, PTL DEF Spec, OwnStopEndsHonestly

-----------------------------------------------------------------------------
(* Tasks *)

Reports(d) ==
  \E outcome \in {"succeeded", "failed"} : WorkerReport(d, outcome) \/ CorrectingReport(d, outcome)

(* A step inside an attempt that is no report touches its own Task only, and only while
   the Task is dispatched or blocked under it. *)
LEMMA AttemptTask ==
  ASSUME TypeOK, Coherent, NEW d \in Dispatches, InAttempt(d), ~Reports(d)
  PROVE  \/ task' = task
         \/ /\ taskOf[d] \in Tasks /\ task[taskOf[d]] \in {"dispatched", "blocked"}
            /\ \E s \in {"ready", "dispatched", "failed", "blocked"} :
                 task' = [task EXCEPT ![taskOf[d]] = s]
<1> DEFINE Moved == /\ taskOf[d] \in Tasks /\ task[taskOf[d]] \in {"dispatched", "blocked"}
                    /\ \E s \in {"ready", "dispatched", "failed", "blocked"} :
                         task' = [task EXCEPT ![taskOf[d]] = s]
<1> USE DEF TypeOK
<1>1. Active(d) => /\ taskOf[d] \in Tasks /\ task[taskOf[d]] \in {"dispatched", "blocked"}
                   /\ ~OthersActive(d)
  BY ActiveIsAlone, ActiveTask
<1>2. Supervised(d) => Active(d)
  BY LiveWorkerFacts
<1>3. ASSUME NEW why \in {"stalled", "other"}, FailWorkerStart(d, why) PROVE Moved
  <2>1. Active(d)
    BY <1>2, <1>3 DEF FailWorkerStart, StartInFlight, Starting, Supervised
  <2>2. task' = [task EXCEPT ![taskOf[d]] = "failed"]
    BY <1>1, <1>3, <2>1 DEF FailWorkerStart
  <2> QED BY <1>1, <2>1, <2>2
<1>4. CASE MarkStartUnknown(d)
  <2>1. Active(d)
    BY <1>2, <1>4 DEF MarkStartUnknown, Starting, Supervised
  <2> QED BY <1>1, <1>4, <2>1 DEF MarkStartUnknown
<1>5. ASSUME NEW s \in {"ready", "start_unknown", "failed", "stopped"},
             NEW why \in {"stalled", "other"}, ReconcileFederatedStart(d, s, why)
      PROVE  task' = task \/ Moved
  <2>1. Active(d)
    BY <1>2, <1>5 DEF ReconcileFederatedStart, Supervised
  <2>2. PICK x \in {"dispatched", "failed", "blocked"} : task' = [task EXCEPT ![taskOf[d]] = x]
    BY <1>1, <1>5, <2>1 DEF ReconcileFederatedStart
  <2> QED BY <1>1, <2>1, <2>2
<1>6. ASSUME BeginWorkerStop(d) \/ SettleWorkerStop(d) \/ ReconcileFederatedStop(d)
             \/ AbandonWorker(d)
      PROVE  Moved
  <2>1. Active(d)
    BY <1>2, <1>6 DEF BeginWorkerStop, SettleWorkerStop, ReconcileFederatedStop, AbandonWorker,
                      StopInFlight, Supervised
  <2>2. task' = [task EXCEPT ![taskOf[d]] = "blocked"]
    BY <1>1, <1>6, <2>1 DEF BeginWorkerStop, SettleWorkerStop, ReconcileFederatedStop,
                            AbandonWorker, ReconcileInterrupted
  <2> QED BY <1>1, <2>1, <2>2
<1>7. CASE ResumeFederated(d)
  <2>1. Active(d)
    BY <1>2, <1>7 DEF ResumeFederated, StopInFlight, Supervised
  <2>2. PICK x \in {"dispatched", "blocked"} : task' = [task EXCEPT ![taskOf[d]] = x]
    BY <1>1, <1>7, <2>1 DEF ResumeFederated
  <2> QED BY <1>1, <2>1, <2>2
<1>8. ASSUME ReleaseContextOnly(d) \/ WorkerExit(d) \/ FailContextOnly(d) PROVE Moved
  <2>1. Active(d)
    BY <1>8 DEF ReleaseContextOnly, WorkerExit, FailContextOnly
  <2>2. PICK x \in {"ready", "dispatched", "failed", "blocked"} :
               task' = [task EXCEPT ![taskOf[d]] = x]
    BY <1>1, <1>8, <2>1 DEF ReleaseContextOnly, WorkerExit, FailContextOnly, FailActive
  <2> QED BY <1>1, <2>1, <2>2
<1>9. CASE RecoverMissingTerminal(d)
  <2>1. Active(d)
    BY <1>9 DEF RecoverMissingTerminal
  <2>2. task' = task \/ \E x \in {"ready", "failed"} : task' = [task EXCEPT ![taskOf[d]] = x]
    BY <1>1, <1>9, <2>1 DEF RecoverMissingTerminal
  <2> QED BY <1>1, <2>1, <2>2
<1>10. ASSUME (\E h \in Terminals : PrepareAuthority(d, h)) \/ MarkReady(d) \/ MarkStopUnknown(d)
              \/ Ask(d) \/ ImportQuestion(d) \/ Answer(d)
       PROVE  task' = task
  BY <1>10 DEF PrepareAuthority, MarkReady, MarkStopUnknown, Ask, ImportQuestion, Answer
<1> HIDE DEF Moved, TypeOK
<1>11. task' = task \/ Moved
  BY <1>3, <1>4, <1>5, <1>6, <1>7, <1>8, <1>9, <1>10 DEF InAttempt, Reports, Moved
<1> QED BY <1>11 DEF Moved

(* Where a completion can come from: the operator and the coordinator, or the worker. *)
CompletedBy(t) ==
  \/ UpdateTaskStatus(t, "completed")
  \/ \E d \in Dispatches :
       taskOf[d] = t /\ (WorkerReport(d, "succeeded") \/ CorrectingReport(d, "succeeded"))

LEMMA ReportCompletes ==
  ASSUME TypeOK, NEW d \in Dispatches, Reports(d), NEW t \in Tasks,
         task[t] # "completed", task'[t] = "completed"
  PROVE  CompletedBy(t)
<1>1. PICK outcome \in {"succeeded", "failed"} :
             WorkerReport(d, outcome) \/ CorrectingReport(d, outcome)
  BY DEF Reports
<1>2. task' = TaskReported(taskOf[d], outcome)
  BY <1>1 DEF WorkerReport, CorrectingReport
<1>3. outcome = "succeeded" /\ taskOf[d] = t
  BY <1>2 DEF TaskReported, PromoteReadyTasks, TypeOK
<1> QED BY <1>1, <1>3 DEF CompletedBy

LEMMA CompletionSources ==
  ASSUME TypeOK, Coherent, Next, NEW t \in Tasks, task[t] # "completed", task'[t] = "completed"
  PROVE  CompletedBy(t)
<1> USE DEF TypeOK
<1>1. ASSUME NEW d \in Dispatches, InAttempt(d) PROVE CompletedBy(t)
  <2>1. CASE Reports(d)
    BY <2>1, ReportCompletes
  <2>2. CASE ~Reports(d)
    BY <1>1, <2>2, AttemptTask
  <2> QED BY <2>1, <2>2
<1>2. ASSUME NEW u \in Tasks, NEW s \in TaskStatuses, UpdateTaskStatus(u, s)
      PROVE  s = "completed" /\ u = t
  BY <1>2 DEF UpdateTaskStatus, PromoteReadyTasks
<1>3. ASSUME NEW d \in Dispatches, LateEscalation(d) PROVE FALSE
  <2>1. taskOf[d] \in Tasks /\ UpdateTaskStatus(taskOf[d], "failed")
    BY <1>3, LateEscalationUpdates
  <2> QED BY <2>1, <1>2
<1>4. ASSUME NEW u \in Tasks, CreateTask(u) \/ \E g \in Gates : CreateGate(g, u) PROVE FALSE
  BY <1>4 DEF CreateTask, InitialStatus, CreateGate
<1>5. ASSUME (\E g \in Gates : ResolveGate(g)) \/ ReblockGatedTasks \/ Restart PROVE FALSE
  BY <1>5 DEF ResolveGate, ReblockGatedTasks, Restart
<1>6. ASSUME \/ \E u \in Tasks, h \in Terminals : CreateDispatchContext(u, h)
             \/ \E u \in Tasks, place \in Placements : StartWorker(u, place)
             \/ \E p \in Dispatches, place \in Placements : RetryWorker(p, place)
      PROVE  FALSE
  <2>1. PICK u, status, state, m : NewAttempt(u, status, state, m)
    BY <1>6 DEF CreateDispatchContext, StartWorker, RetryWorker, NewWorker
  <2> QED BY <2>1 DEF NewAttempt
<1> HIDE DEF TypeOK
<1> QED BY <1>1, <1>2, <1>3, <1>4, <1>5, <1>6, NextCases DEF CompletedBy

LEMMA CompletionStep ==
  ASSUME TypeOK, Coherent, Next, NEW t \in Tasks, NEW d \in Dispatches, d \in ActiveOn(t),
         Supervised(d), task[t] # "completed", task'[t] = "completed"
  PROVE  worker'[d] = "succeeded"
<1>1. Active(d) /\ taskOf[d] = t
  BY DEF ActiveOn
<1>2. ~UpdateTaskStatus(t, "completed")
  BY DEF UpdateTaskStatus, MayUpdateTask, WorkerOwns
<1>3. PICK e \in Dispatches :
             taskOf[e] = t /\ (WorkerReport(e, "succeeded") \/ CorrectingReport(e, "succeeded"))
  BY <1>2, CompletionSources DEF CompletedBy
<1>4. ~CorrectingReport(e, "succeeded")
  <2>1. task[t] # "failed"
    BY <1>1, ActiveTask
  <2> QED BY <1>3, <2>1 DEF CorrectingReport, UnobservedPrompt
<1>5. WorkerReport(e, "succeeded") /\ Active(e)
  BY <1>3, <1>4 DEF WorkerReport, Reportable, Reconnecting, ReportingStart, Active
<1>6. e = d
  BY <1>1, <1>3, <1>5, ActiveIsAlone
<1> QED BY <1>5, <1>6 DEF WorkerReport, Supervised, TypeOK

(* While a worker is live its Task is completed by that worker's success and by nothing
   else: no status update, gate or report of an earlier attempt completes it. *)
THEOREM CompletionIsTheWorkers == Spec => CompletionNeedsItsWorker
<1>1. Inv /\ [Next]_vars =>
        [\A t \in Tasks, d \in Dispatches :
           /\ d \in ActiveOn(t) /\ Supervised(d)
           /\ task[t] # "completed" /\ task'[t] = "completed"
           => worker'[d] = "succeeded"]_vars
  BY CompletionStep DEF Inv
<1> QED BY <1>1, InvIsInvariant, PTL DEF Spec, CompletionNeedsItsWorker

-----------------------------------------------------------------------------
(* Dependents *)

(* A Task is created after its dependencies, hence never waits for itself; and a gate
   blocks a Task that was created, so re-blocking creates none. *)
CreatedInOrder ==
  /\ \A t \in Tasks : task[t] # "none" => t \notin Deps[t]
  /\ \A g \in Gates : gate[g] = "pending" => gateTask[g] \in Tasks /\ task[gateTask[g]] # "none"

LEMMA CreatedOnce ==
  ASSUME TypeOK, Coherent, CreatedInOrder, Next, NEW t \in Tasks
  PROVE  /\ task[t] # "none" => task'[t] # "none"
         /\ task[t] = "none" => task'[t] = "none" \/ Creatable(t)
<1> DEFINE Goal == /\ task[t] # "none" => task'[t] # "none"
                   /\ task[t] = "none" => task'[t] = "none" \/ Creatable(t)
<1> USE DEF TypeOK
<1>1. ASSUME NEW d \in Dispatches, InAttempt(d) PROVE Goal
  <2>1. CASE ~Reports(d)
    BY <1>1, <2>1, AttemptTask
  <2>2. CASE Reports(d)
    <3>1. PICK outcome \in {"succeeded", "failed"} :
                 WorkerReport(d, outcome) \/ CorrectingReport(d, outcome)
      BY <2>2 DEF Reports
    <3>2. task' = TaskReported(taskOf[d], outcome)
      BY <3>1 DEF WorkerReport, CorrectingReport
    <3>3. task[taskOf[d]] # "none"
      BY <3>1 DEF WorkerReport, CorrectingReport, UnobservedPrompt, Reportable, Reconnecting,
                  ReportingStart
    <3> QED BY <3>2, <3>3 DEF TaskReported, PromoteReadyTasks
  <2> QED BY <2>1, <2>2
<1>2. ASSUME NEW u \in Tasks, NEW s \in TaskStatuses, UpdateTaskStatus(u, s) PROVE Goal
  BY <1>2 DEF UpdateTaskStatus, MayUpdateTask, PromoteReadyTasks
<1>3. ASSUME NEW d \in Dispatches, LateEscalation(d) PROVE Goal
  BY <1>2, <1>3, LateEscalationUpdates
<1>4. ASSUME NEW u \in Tasks, CreateTask(u) \/ \E g \in Gates : CreateGate(g, u) PROVE Goal
  BY <1>4 DEF CreateTask, InitialStatus, CreateGate
<1>5. ASSUME NEW g \in Gates, ResolveGate(g) PROVE Goal
  BY <1>5 DEF ResolveGate, MayUpdateTask
<1>6. CASE ReblockGatedTasks
  BY <1>6 DEF ReblockGatedTasks, Unblocked, CreatedInOrder
<1>7. CASE Restart
  BY <1>7 DEF Restart
<1>8. ASSUME NEW u \in Tasks, NEW h \in Terminals, CreateDispatchContext(u, h) PROVE Goal
  BY <1>8 DEF CreateDispatchContext, NewAttempt
<1>9. ASSUME NEW u \in Tasks, NEW place \in Placements, StartWorker(u, place) PROVE Goal
  BY <1>9 DEF StartWorker, NewWorker, NewAttempt
<1>10. ASSUME NEW p \in Dispatches, NEW place \in Placements, RetryWorker(p, place) PROVE Goal
  BY <1>10 DEF RetryWorker, NewWorker, NewAttempt
<1> HIDE DEF TypeOK
<1> QED BY <1>1, <1>2, <1>3, <1>4, <1>5, <1>6, <1>7, <1>8, <1>9, <1>10, NextCases

LEMMA GatesKept ==
  ASSUME Next
  PROVE  \/ UNCHANGED gates
         \/ \E t \in Tasks, g \in Gates : CreateGate(g, t)
         \/ \E g \in Gates : ResolveGate(g)
<1>1. ASSUME NEW d \in Dispatches, InAttempt(d) PROVE UNCHANGED gates
  BY <1>1, ZenonT(60)
  DEF InAttempt, PrepareAuthority, MarkReady, FailWorkerStart, MarkStartUnknown,
      ReconcileFederatedStart, BeginWorkerStop, SettleWorkerStop, MarkStopUnknown,
      ReconcileFederatedStop, ResumeFederated, AbandonWorker, ReleaseContextOnly, WorkerExit,
      FailContextOnly, RecoverMissingTerminal, WorkerReport, CorrectingReport, Ask,
      ImportQuestion, Answer
<1>2. ASSUME \/ \E t \in Tasks : CreateTask(t) \/ \E s \in TaskStatuses : UpdateTaskStatus(t, s)
             \/ \E d \in Dispatches : LateEscalation(d)
             \/ ReblockGatedTasks
             \/ Restart
      PROVE  UNCHANGED gates
  BY <1>2 DEF CreateTask, UpdateTaskStatus, LateEscalation, ReblockGatedTasks, Restart
<1>3. ASSUME \/ \E t \in Tasks, h \in Terminals : CreateDispatchContext(t, h)
             \/ \E t \in Tasks, place \in Placements : StartWorker(t, place)
             \/ \E p \in Dispatches, place \in Placements : RetryWorker(p, place)
      PROVE  UNCHANGED gates
  <2>1. PICK t, status, state, m : NewAttempt(t, status, state, m)
    BY <1>3 DEF CreateDispatchContext, StartWorker, RetryWorker, NewWorker
  <2> QED BY <2>1 DEF NewAttempt
<1> QED BY <1>1, <1>2, <1>3, NextCases

LEMMA CreatedInOrderStep ==
  ASSUME TypeOK, Coherent, CreatedInOrder, Next
  PROVE  CreatedInOrder'
<1>1. \A t \in Tasks : task'[t] # "none" => t \notin Deps[t]
  BY CreatedOnce DEF CreatedInOrder, Creatable
<1>2. ASSUME NEW g \in Gates, gate'[g] = "pending"
      PROVE  gateTask'[g] \in Tasks /\ task[gateTask'[g]] # "none"
  <2>1. CASE UNCHANGED gates
    BY <1>2, <2>1 DEF CreatedInOrder, gates
  <2>2. ASSUME NEW t \in Tasks, NEW h \in Gates, CreateGate(h, t)
        PROVE  gateTask'[g] \in Tasks /\ task[gateTask'[g]] # "none"
    BY <1>2, <2>2 DEF CreateGate, CreatedInOrder, TypeOK
  <2>3. ASSUME NEW h \in Gates, ResolveGate(h)
        PROVE  gateTask'[g] \in Tasks /\ task[gateTask'[g]] # "none"
    BY <1>2, <2>3 DEF ResolveGate, CreatedInOrder, TypeOK
  <2> QED BY <2>1, <2>2, <2>3, GatesKept
<1>3. \A g \in Gates : gate'[g] = "pending" =>
        gateTask'[g] \in Tasks /\ task'[gateTask'[g]] # "none"
  BY <1>2, CreatedOnce
<1> QED BY <1>1, <1>3 DEF CreatedInOrder

LEMMA DependentStep ==
  ASSUME TypeOK, Coherent, CreatedInOrder, Next, NEW t \in Tasks, task[t] = "pending",
         ~DepsCompleted(t), DepsCompleted(t)'
  PROVE  task'[t] = "ready"
<1>1. PICK u \in Deps[t] : task[u] # "completed" /\ task'[u] = "completed"
  BY DEF DepsCompleted
<1>2. u \in Tasks /\ u # t
  BY <1>1, DepsAssumption DEF CreatedInOrder
<1>3. task' = PromoteReadyTasks([task EXCEPT ![u] = "completed"], u)
  <2>1. CompletedBy(u)
    BY <1>1, <1>2, CompletionSources
  <2>2. UpdateTaskStatus(u, "completed") \/ task' = TaskReported(u, "succeeded")
    BY <2>1 DEF CompletedBy, WorkerReport, CorrectingReport
  <2> QED BY <2>2 DEF UpdateTaskStatus, TaskReported
<1> DEFINE updated == [task EXCEPT ![u] = "completed"]
<1>4. \A v \in Tasks : task'[v] = "completed" => updated[v] = "completed"
  BY <1>3 DEF PromoteReadyTasks
<1>5. \A v \in Deps[t] : updated[v] = "completed"
  BY <1>4, DepsAssumption DEF DepsCompleted
<1>6. updated[t] = "pending"
  BY <1>2 DEF TypeOK
<1> QED BY <1>1, <1>3, <1>5, <1>6 DEF PromoteReadyTasks

(* No Task waits for itself, and a pending gate names a Task that was created. *)
THEOREM TasksCreatedInOrder == Spec => []CreatedInOrder
<1>1. Init => CreatedInOrder
  BY DEF Init, CreatedInOrder
<1>2. Inv /\ CreatedInOrder /\ [Next]_vars => CreatedInOrder'
  <2> SUFFICES ASSUME Inv, CreatedInOrder, [Next]_vars PROVE CreatedInOrder'
    OBVIOUS
  <2>1. CASE Next
    BY <2>1, CreatedInOrderStep DEF Inv
  <2>2. CASE UNCHANGED vars
    BY <2>2 DEF vars, CreatedInOrder
  <2> QED BY <2>1, <2>2
<1> QED BY <1>1, <1>2, InvIsInvariant, PTL DEF Spec

(* Whichever step completes a pending Task's last dependency releases the Task with it. *)
THEOREM DependentsAreReleased == Spec => DependentsReleased
<1>1. Inv /\ CreatedInOrder /\ [Next]_vars =>
        [\A t \in Tasks : task[t] = "pending" /\ ~DepsCompleted(t) /\ DepsCompleted(t)'
                           => task'[t] = "ready"]_vars
  BY DependentStep DEF Inv
<1> QED BY <1>1, InvIsInvariant, TasksCreatedInOrder, PTL DEF Spec, DependentsReleased

-----------------------------------------------------------------------------
(* The breaker *)

ChainSupervised(d) == \A e \in Dispatches : taskOf[e] = taskOf[d] => worker[e] # "none"

(* A chain of supervised attempts that reached the limit is broken, or has succeeded: the
   strengthening that also bounds the attempts a retry may continue. *)
BreakerHeld ==
  \A d \in Dispatches :
    d <= nd /\ ChainSupervised(d) /\ failures[d] >= BreakAt
    => dispatch[d] = "circuit_broken" \/ worker[d] = "succeeded"

Counted(d) ==
  /\ Active(d)
  /\ failures'[d] = failures[d] + 1 /\ dispatch'[d] = BrokenOrFailed(d)

LEMMA FailuresInAttempt ==
  ASSUME TypeOK, Coherent, NEW d \in Dispatches, InAttempt(d)
  PROVE  /\ taskOf' = taskOf /\ nd' = nd
         /\ \A e \in Dispatches \ {d} : failures'[e] = failures[e]
         /\ failures'[d] = failures[d] \/ Counted(d)
<1> USE DEF TypeOK, identity
<1>1. ASSUME \/ \E why \in {"stalled", "other"} : FailWorkerStart(d, why)
             \/ WorkerExit(d) \/ FailContextOnly(d) \/ RecoverMissingTerminal(d)
      PROVE  /\ taskOf' = taskOf /\ nd' = nd /\ Counted(d)
             /\ \A e \in Dispatches \ {d} : failures'[e] = failures[e]
  <2>1. Active(d)
    BY <1>1, LiveWorkerFacts DEF FailWorkerStart, WorkerExit, FailContextOnly,
       RecoverMissingTerminal, StartInFlight, Starting, Supervised
  <2>2. UNCHANGED <<taskOf, nd>> /\ \E why \in {"stalled", "other"} : CountFailure(d, why)
    BY <1>1 DEF FailWorkerStart, WorkerExit, FailContextOnly, RecoverMissingTerminal, FailActive
  <2> QED BY <2>1, <2>2 DEF CountFailure, Counted
<1>2. ASSUME \/ SettleWorkerStop(d) \/ ReconcileFederatedStop(d) \/ AbandonWorker(d)
             \/ ReleaseContextOnly(d)
             \/ \E s \in {"ready", "start_unknown", "failed", "stopped"},
                   why \in {"stalled", "other"} : ReconcileFederatedStart(d, s, why)
      PROVE  UNCHANGED <<taskOf, nd, failures>>
  BY <1>2 DEF SettleWorkerStop, ReconcileFederatedStop, AbandonWorker, ReleaseContextOnly,
              ReconcileFederatedStart, SettleUncounted
<1>3. ASSUME \/ \E h \in Terminals : PrepareAuthority(d, h)
             \/ MarkReady(d) \/ MarkStartUnknown(d)
             \/ BeginWorkerStop(d) \/ MarkStopUnknown(d) \/ ResumeFederated(d)
             \/ \E outcome \in {"succeeded", "failed"} :
                  WorkerReport(d, outcome) \/ CorrectingReport(d, outcome)
             \/ Ask(d) \/ ImportQuestion(d) \/ Answer(d)
      PROVE  UNCHANGED <<taskOf, nd, failures>>
  BY <1>3 DEF PrepareAuthority, MarkReady, MarkStartUnknown, BeginWorkerStop, MarkStopUnknown,
              ResumeFederated, WorkerReport, CorrectingReport, Ask, ImportQuestion, Answer
<1> HIDE DEF TypeOK, identity
<1> QED BY <1>1, <1>2, <1>3 DEF InAttempt

(* A row keeps its Task for ever, and its count changes only by a counted failure. *)
LEMMA FailuresStep ==
  ASSUME TypeOK, Coherent, Next, NEW d \in Dispatches, d <= nd
  PROVE  taskOf'[d] = taskOf[d] /\ (failures'[d] = failures[d] \/ Counted(d))
<1>1. ASSUME NEW e \in Dispatches, InAttempt(e)
      PROVE  taskOf'[d] = taskOf[d] /\ (failures'[d] = failures[d] \/ Counted(d))
  BY <1>1, FailuresInAttempt
<1>2. ASSUME \/ \E t \in Tasks : \/ CreateTask(t)
                                 \/ \E s \in TaskStatuses : UpdateTaskStatus(t, s)
                                 \/ \E g \in Gates : CreateGate(g, t)
             \/ \E e \in Dispatches : LateEscalation(e)
             \/ \E g \in Gates : ResolveGate(g)
             \/ ReblockGatedTasks
             \/ Restart
      PROVE  UNCHANGED <<taskOf, failures>>
  BY <1>2 DEF CreateTask, UpdateTaskStatus, CreateGate, LateEscalation, ResolveGate,
              ReblockGatedTasks, Restart, identity
<1> QED BY <1>1, <1>2, CreationKeepsRows, NextCases

(* An unsupervised row stays unsupervised, so a chain all supervised now always was. *)
LEMMA SupervisedBefore ==
  ASSUME TypeOK, Coherent, Next, NEW d \in Dispatches, d <= nd,
         \A e \in Dispatches : taskOf'[e] = taskOf'[d] => worker'[e] # "none"
  PROVE  ChainSupervised(d)
<1> SUFFICES ASSUME NEW e \in Dispatches, taskOf[e] = taskOf[d] PROVE worker[e] # "none"
  BY DEF ChainSupervised
<1>1. e <= nd
  BY DEF Coherent, Rows
<1>2. worker'[e] # "none"
  BY <1>1, FailuresStep
<1>3. LegalStep(e)
  BY <1>1, NextLegal
<1> QED BY <1>2, <1>3 DEF LegalStep, Corrects

LEMMA BreakerOldRow ==
  ASSUME TypeOK, Coherent, BreakerHeld, Next, NEW d \in Dispatches, d <= nd,
         ChainSupervised(d)', failures'[d] >= BreakAt
  PROVE  dispatch'[d] = "circuit_broken" \/ worker'[d] = "succeeded"
<1>1. taskOf'[d] = taskOf[d] /\ taskOf[d] \in Tasks
  BY FailuresStep DEF Coherent, Rows
<1>2. ChainSupervised(d)
  BY SupervisedBefore DEF ChainSupervised
<1>3. CASE Counted(d)
  BY <1>3 DEF Counted, BrokenOrFailed
<1>4. CASE failures'[d] = failures[d]
  <2>1. dispatch[d] = "circuit_broken" \/ worker[d] = "succeeded"
    BY <1>2, <1>4 DEF BreakerHeld
  <2>2. \A s : LegalWorkerEdge("succeeded", s) => s = "succeeded"
    BY DEF LegalWorkerEdge, LegalWorkerEdges
  <2>3. LegalStep(d)
    BY NextLegal
  <2> QED BY <2>1, <2>2, <2>3 DEF LegalStep, Corrects, LegalDispatchEdge
<1> QED BY <1>3, <1>4, FailuresStep

(* A new supervised attempt starts a chain, or continues one the breaker let through. *)
LEMMA BreakerNewRow ==
  ASSUME TypeOK, Coherent, BreakerHeld, Next, NEW d \in Dispatches, ~(d <= nd), d <= nd',
         ChainSupervised(d)'
  PROVE  failures'[d] < BreakAt
<1> USE DEF TypeOK
<1>1. /\ nd' # nd
      /\ \A t, status, state, m : NewAttempt(t, status, state, m) =>
           /\ d = nd + 1 /\ taskOf'[d] = t /\ worker'[d] = state /\ failures'[d] = m
  BY DispatchesAreNat DEF NewAttempt
<1>2. ASSUME NEW e \in Dispatches, InAttempt(e) PROVE FALSE
  BY <1>1, <1>2, FailuresInAttempt
<1>3. ASSUME \/ \E t \in Tasks : \/ CreateTask(t)
                                 \/ \E s \in TaskStatuses : UpdateTaskStatus(t, s)
                                 \/ \E g \in Gates : CreateGate(g, t)
             \/ \E e \in Dispatches : LateEscalation(e)
             \/ \E g \in Gates : ResolveGate(g)
             \/ ReblockGatedTasks
             \/ Restart
      PROVE  FALSE
  BY <1>1, <1>3 DEF CreateTask, UpdateTaskStatus, CreateGate, LateEscalation, ResolveGate,
                    ReblockGatedTasks, Restart, identity
<1>4. ASSUME NEW t \in Tasks, NEW h \in Terminals, CreateDispatchContext(t, h) PROVE FALSE
  BY <1>1, <1>4 DEF CreateDispatchContext, ChainSupervised
<1>5. ASSUME NEW t \in Tasks, NEW place \in Placements, StartWorker(t, place)
      PROVE  failures'[d] < BreakAt
  BY <1>1, <1>5, BreakAssumption DEF StartWorker, NewWorker
<1>6. ASSUME NEW p \in Dispatches, NEW place \in Placements, RetryWorker(p, place)
      PROVE  failures'[d] < BreakAt
  <2>1. p <= nd /\ taskOf[p] \in Tasks /\ taskOf'[d] = taskOf[p] /\ failures'[d] = failures[p]
    BY <1>1, <1>6 DEF RetryWorker, NewWorker, Coherent, Rows
  <2>2. ChainSupervised(p)
    BY <2>1, SupervisedBefore, FailuresStep DEF ChainSupervised
  <2>3. dispatch[p] # "circuit_broken" /\ worker[p] # "succeeded"
    BY <1>6, <2>2 DEF RetryWorker, ChainSupervised
  <2> QED BY <2>1, <2>2, <2>3, BreakAssumption DEF BreakerHeld
<1> HIDE DEF TypeOK
<1> QED BY <1>2, <1>3, <1>4, <1>5, <1>6, NextCases

(* Among supervised attempts no retry chain runs past its BreakAt-th counted failure. *)
THEOREM RetriesEnd == Spec => []RetriesEndAtBreaker
<1>1. Init => BreakerHeld
  BY DispatchesAreNat, BreakAssumption DEF Init, BreakerHeld, Dispatches
<1>2. Inv /\ BreakerHeld /\ [Next]_vars => BreakerHeld'
  <2> SUFFICES ASSUME Inv, BreakerHeld, [Next]_vars PROVE BreakerHeld'
    OBVIOUS
  <2>1. CASE Next
    <3> SUFFICES ASSUME NEW d \in Dispatches, d <= nd', ChainSupervised(d)',
                        failures'[d] >= BreakAt
                 PROVE  dispatch'[d] = "circuit_broken" \/ worker'[d] = "succeeded"
      BY DEF BreakerHeld
    <3>1. CASE d <= nd
      BY <2>1, <3>1, BreakerOldRow DEF Inv
    <3>2. CASE ~(d <= nd)
      <4>1. failures'[d] < BreakAt
        BY <2>1, <3>2, BreakerNewRow DEF Inv
      <4>2. failures'[d] \in Nat
        BY InvStep DEF Inv, TypeOK
      <4> QED BY <4>1, <4>2, BreakAssumption
    <3> QED BY <3>1, <3>2
  <2>2. CASE UNCHANGED vars
    BY <2>2 DEF vars, BreakerHeld, ChainSupervised
  <2> QED BY <2>1, <2>2
<1>3. Inv /\ BreakerHeld => RetriesEndAtBreaker
  <2> SUFFICES ASSUME Inv, BreakerHeld, NEW d \in Dispatches, Active(d), ChainSupervised(d)
               PROVE  failures[d] < BreakAt
    BY DEF RetriesEndAtBreaker, ChainSupervised
  <2>1. d <= nd
    BY ActiveIsAlone DEF Inv
  <2>2. worker[d] # "succeeded" /\ dispatch[d] # "circuit_broken"
    BY DEF Inv, Coherent, WorkerHasAttempt, ChainSupervised, Active, Supervised
  <2> QED BY <2>1, <2>2, BreakAssumption DEF BreakerHeld, Inv, TypeOK
<1> QED BY <1>1, <1>2, <1>3, InvIsInvariant, PTL DEF Spec

-----------------------------------------------------------------------------
(* OrchestrationLifecycle implements TaskLease.  A step of the database takes, doubts,
   releases or settles the lease of one Task; only re-blocking moves several, and those
   are free. *)

(* Under the invariant a Task's phase says whether it is leased. *)
PhaseAgrees ==
  \A t \in Tasks :
    /\ ActiveOn(t) # {} => Phase(t) \in {"running", "unproven"}
    /\ ActiveOn(t) = {} => Phase(t) \in {"absent", "open", "succeeded", "failed"}
    /\ Phase(t) = "absent" <=> task[t] = "none"

LEMMA PhasesAgree == Inv => PhaseAgrees
<1> SUFFICES ASSUME Inv, NEW t \in Tasks
             PROVE  /\ ActiveOn(t) # {} => Phase(t) \in {"running", "unproven"}
                    /\ ActiveOn(t) = {} => Phase(t) \in {"absent", "open", "succeeded", "failed"}
                    /\ Phase(t) = "absent" <=> task[t] = "none"
  BY DEF PhaseAgrees
<1>1. task[t] \in TaskStatuses \cup {"none"}
  BY DEF Inv, TypeOK
<1>2. ActiveOn(t) # {} => task[t] \in {"dispatched", "blocked"}
  BY DEF Inv, Coherent, TaskFollowsAttempt
<1>3. ActiveOn(t) = {} => task[t] # "dispatched"
  BY DEF Inv, Coherent, TaskFollowsAttempt
<1> QED BY <1>1, <1>2, <1>3 DEF Phase

LEMMA PhasesAgreeNext == Inv' => PhaseAgrees'
  BY PhasesAgree, PTL

(* The lease of u is as it was. *)
LeaseKept(u) == ActiveOn(u)' = ActiveOn(u) /\ Phase(u)' = Phase(u)

LEMMA SameRowSameLease ==
  ASSUME Inv, NEW u \in Tasks, ActiveOn(u)' = ActiveOn(u),
         task'[u] = task[u] \/ (task[u] = "pending" /\ task'[u] = "ready")
  PROVE  LeaseKept(u)
  BY DEF LeaseKept, Phase

-----------------------------------------------------------------------------
(* Steps of the lease, from what a step of the database changes *)

LEMMA HeldStep ==
  ASSUME Inv, Inv', NEW t \in Tasks, ActiveOn(t) # {}, nd' = nd, task'[t] # "none",
         ActiveOn(t)' \in {ActiveOn(t), {}}, \A u \in Tasks \ {t} : LeaseKept(u)
  PROVE  Lease!Next
<1> USE PhasesAgreeNext DEF PhaseAgrees, LeaseKept
<1>1. CASE ActiveOn(t)' = {}
  <2>1. Phase(t)' \in {"open", "succeeded", "failed"}
    BY <1>1
  <2>2. Lease!Release(t)
    BY <1>1, <2>1 DEF Lease!Release, Lease!Free
  <2> QED BY <2>2 DEF Lease!Next
<1>2. CASE ActiveOn(t)' = ActiveOn(t)
  <2>1. Phase(t)' \in {"running", "unproven"}
    BY <1>2
  <2>2. Lease!Doubt(t)
    BY <1>2, <2>1 DEF Lease!Doubt, Lease!Free
  <2> QED BY <2>2 DEF Lease!Next
<1> QED BY <1>1, <1>2

LEMMA FreeStep ==
  ASSUME Inv, Inv', NEW t \in Tasks, ActiveOn(t) = {}, ActiveOn(t)' = {}, nd' = nd,
         task[t] # "none", task'[t] # "none", \A u \in Tasks \ {t} : LeaseKept(u)
  PROVE  Lease!Next
<1> USE PhasesAgree, PhasesAgreeNext DEF PhaseAgrees, LeaseKept
<1>1. Phase(t) # "absent" /\ Phase(t)' \in {"open", "succeeded", "failed"}
  OBVIOUS
<1>2. CASE Phase(t)' = "open"
  <2>1. Lease!Reopen({t})
    BY <1>1, <1>2 DEF Lease!Reopen, Lease!Free
  <2> QED BY <2>1 DEF Lease!Next
<1>3. CASE Phase(t)' # "open"
  <2>1. Lease!Settle(t)
    BY <1>1, <1>3 DEF Lease!Settle, Lease!Free
  <2> QED BY <2>1 DEF Lease!Next
<1> QED BY <1>2, <1>3

LEMMA StutterStep ==
  ASSUME nd' = nd, \A u \in Tasks : LeaseKept(u)
  PROVE  UNCHANGED Lease!leaseVars
  BY DEF Lease!leaseVars, LeaseKept

(* A step on one Task that exists and keeps existing, with no new attempt. *)
LEMMA OneTaskStep ==
  ASSUME Inv, Inv', NEW t \in Tasks, nd' = nd, task[t] # "none", task'[t] # "none",
         ActiveOn(t)' \in {ActiveOn(t), {}}, \A u \in Tasks \ {t} : LeaseKept(u)
  PROVE  Lease!Next
<1>1. CASE ActiveOn(t) # {}
  BY <1>1, HeldStep
<1>2. CASE ActiveOn(t) = {}
  BY <1>2, FreeStep
<1> QED BY <1>1, <1>2

-----------------------------------------------------------------------------
(* The steps of the database *)

LeaseStep == Lease!Next \/ UNCHANGED Lease!leaseVars

LEMMA AttemptLease ==
  ASSUME Inv, Inv', NEW d \in Dispatches, InAttempt(d)
  PROVE  LeaseStep
<1>1. /\ taskOf' = taskOf /\ nd' = nd
      /\ \A e \in Dispatches \ {d} : Active(e)' <=> Active(e)
  BY FailuresInAttempt, OthersUntouched DEF Inv, Active
<1>2. Active(d)' => Active(d)
  BY InAttemptLegal DEF Inv, LegalStep, Corrects, LegalDispatchEdge, Active
<1>3. Active(d) => ActiveOn(taskOf[d]) = {d} /\ taskOf[d] \in Tasks
  BY ActiveIsAlone DEF Inv
<1>4. \A u \in Tasks : u # taskOf[d] => ActiveOn(u)' = ActiveOn(u)
  BY <1>1 DEF ActiveOn
<1>5. Reports(d) => /\ taskOf[d] \in Tasks /\ task[taskOf[d]] # "none"
                    /\ \E outcome : task' = TaskReported(taskOf[d], outcome)
  <2> SUFFICES ASSUME NEW outcome \in {"succeeded", "failed"},
                      WorkerReport(d, outcome) \/ CorrectingReport(d, outcome)
               PROVE  /\ taskOf[d] \in Tasks /\ task[taskOf[d]] # "none"
                      /\ task' = TaskReported(taskOf[d], outcome)
    BY DEF Reports
  <2>1. task[taskOf[d]] # "none" /\ dispatch[d] # "none"
    BY DEF WorkerReport, CorrectingReport, UnobservedPrompt, Reportable, Reconnecting,
           ReportingStart, Active
  <2>2. taskOf[d] \in Tasks
    BY <2>1 DEF Inv, Coherent, Rows
  <2> QED BY <2>1, <2>2 DEF WorkerReport, CorrectingReport
<1>6. \/ task' = task
      \/ /\ taskOf[d] \in Tasks /\ task[taskOf[d]] # "none" /\ task'[taskOf[d]] # "none"
         /\ \A u \in Tasks : u # taskOf[d] =>
              task'[u] = task[u] \/ (task[u] = "pending" /\ task'[u] = "ready")
  <2>1. CASE Reports(d)
    BY <1>5, <2>1 DEF TaskReported, PromoteReadyTasks, Inv, TypeOK
  <2>2. CASE ~Reports(d)
    BY <2>2, AttemptTask DEF Inv, TypeOK
  <2> QED BY <2>1, <2>2
<1>7. CASE taskOf[d] \notin Tasks \/ task[taskOf[d]] = "none"
  <2>1. task' = task
    BY <1>6, <1>7
  <2>2. ~Active(d)
    BY <1>3, <1>7, ActiveTask DEF Inv
  <2>3. \A u \in Tasks : ActiveOn(u)' = ActiveOn(u)
    BY <1>1, <1>2, <2>2 DEF ActiveOn
  <2> QED BY <1>1, <2>1, <2>3, SameRowSameLease, StutterStep DEF LeaseStep
<1>8. CASE taskOf[d] \in Tasks /\ task[taskOf[d]] # "none"
  <2>1. PICK t \in Tasks : t = taskOf[d]
    BY <1>8
  <2>2. ActiveOn(t)' \in {ActiveOn(t), {}}
    <3>1. CASE Active(d)
      <4>1. ActiveOn(t) = {d}
        BY <1>3, <2>1, <3>1
      <4>2. ActiveOn(t)' \subseteq ActiveOn(t)
        BY <1>1, <1>2 DEF ActiveOn
      <4> QED BY <4>1, <4>2
    <3>2. CASE ~Active(d)
      BY <1>1, <1>2, <3>2 DEF ActiveOn
    <3> QED BY <3>1, <3>2
  <2>3. \A u \in Tasks \ {t} : LeaseKept(u)
    BY <1>4, <1>6, <2>1, SameRowSameLease
  <2>4. task[t] # "none" /\ task'[t] # "none"
    BY <1>6, <1>8, <2>1
  <2> QED BY <1>1, <2>2, <2>3, <2>4, OneTaskStep DEF LeaseStep
<1> QED BY <1>7, <1>8

LEMMA SettledLease ==
  ASSUME Inv, NEW t \in Tasks, NEW ds, NEW st, UNCHANGED <<nd, taskOf>>,
         ds = {} \/ (ds = ActiveOn(t) /\ st \in {"completed", "failed"}),
         SettleDispatches(ds, st),
         \A u \in Tasks \ {t} : task'[u] = task[u] \/ (task[u] = "pending" /\ task'[u] = "ready")
  PROVE  ActiveOn(t)' \in {ActiveOn(t), {}} /\ \A u \in Tasks \ {t} : LeaseKept(u)
<1>1. \A d \in Dispatches : Active(d)' <=> Active(d) /\ d \notin ds
  BY DEF SettleDispatches, Active
<1>2. \A u \in Tasks \ {t} : ActiveOn(u)' = ActiveOn(u)
  BY <1>1 DEF ActiveOn
<1>3. ActiveOn(t)' \in {ActiveOn(t), {}}
  <2>1. CASE ds = {}
    BY <1>1, <2>1 DEF ActiveOn
  <2>2. CASE ds = ActiveOn(t)
    BY <1>1, <2>2 DEF ActiveOn
  <2> QED BY <2>1, <2>2
<1> QED BY <1>2, <1>3, SameRowSameLease

LEMMA UpdateLease ==
  ASSUME Inv, Inv', NEW t \in Tasks,
         \/ \E s \in TaskStatuses : UpdateTaskStatus(t, s)
         \/ \E g \in Gates : CreateGate(g, t)
  PROVE  LeaseStep
<1>1. ASSUME NEW s \in TaskStatuses, UpdateTaskStatus(t, s) PROVE LeaseStep
  <2>1. /\ UNCHANGED <<nd, taskOf>> /\ task[t] # "none" /\ task'[t] # "none"
        /\ \A u \in Tasks \ {t} :
             task'[u] = task[u] \/ (task[u] = "pending" /\ task'[u] = "ready")
    BY <1>1 DEF UpdateTaskStatus, MayUpdateTask, PromoteReadyTasks, identity, Inv, TypeOK
  <2>2. \E ds : /\ ds = {} \/ (ds = ActiveOn(t) /\ s \in {"completed", "failed"})
                /\ SettleDispatches(ds, s)
    BY <1>1 DEF UpdateTaskStatus
  <2> QED BY <2>1, <2>2, SettledLease, OneTaskStep DEF LeaseStep
<1>2. ASSUME NEW g \in Gates, CreateGate(g, t) PROVE LeaseStep
  <2>1. /\ UNCHANGED <<nd, taskOf>> /\ task[t] # "none" /\ task'[t] # "none"
        /\ \A u \in Tasks \ {t} : task'[u] = task[u]
    BY <1>2 DEF CreateGate, identity, Inv, TypeOK
  <2>2. SettleDispatches(ActiveOn(t), "completed")
    BY <1>2 DEF CreateGate
  <2> QED BY <2>1, <2>2, SettledLease, OneTaskStep DEF LeaseStep
<1> QED BY <1>1, <1>2

LEMMA TaskOnlyLease ==
  ASSUME Inv, Inv', CreatedInOrder,
         \/ \E t \in Tasks : CreateTask(t)
         \/ \E g \in Gates : ResolveGate(g)
         \/ ReblockGatedTasks
         \/ Restart
  PROVE  LeaseStep
<1>1. UNCHANGED <<nd, taskOf, dispatch>> /\ \A u \in Tasks : ActiveOn(u)' = ActiveOn(u)
  BY DEF CreateTask, ResolveGate, ReblockGatedTasks, Restart, identity, ActiveOn, Active
<1>2. ASSUME NEW t \in Tasks, CreateTask(t) PROVE LeaseStep
  <2>1. /\ task[t] = "none" /\ task'[t] \in {"ready", "pending"}
        /\ \A u \in Tasks \ {t} : LeaseKept(u)
    BY <1>1, <1>2, SameRowSameLease DEF CreateTask, Creatable, InitialStatus, Inv, TypeOK
  <2>2. Phase(t) = "absent" /\ Phase(t)' = "open"
    BY <2>1 DEF Phase
  <2>3. Lease!Create(t)
    BY <1>1, <2>1, <2>2 DEF Lease!Create, LeaseKept
  <2> QED BY <2>3 DEF LeaseStep, Lease!Next
<1>3. ASSUME NEW g \in Gates, ResolveGate(g) PROVE LeaseStep
  <2>1. CASE gateTask[g] \in Tasks
    <3>1. PICK t \in Tasks : t = gateTask[g]
      BY <2>1
    <3>2. /\ task[t] # "none" /\ task'[t] = "ready"
          /\ \A u \in Tasks \ {t} : task'[u] = task[u]
      BY <1>3, <3>1 DEF ResolveGate, MayUpdateTask, Inv, TypeOK
    <3> QED BY <1>1, <3>2, SameRowSameLease, OneTaskStep DEF LeaseStep
  <2>2. CASE gateTask[g] \notin Tasks
    <3>1. task' = task
      BY <1>3, <2>2 DEF ResolveGate, Inv, TypeOK
    <3> QED BY <1>1, <3>1, SameRowSameLease, StutterStep DEF LeaseStep
  <2> QED BY <2>1, <2>2
<1>4. CASE ReblockGatedTasks
  <2> DEFINE reblocked == {gateTask[g] : g \in {h \in Gates : Unblocked(h) /\
                                          \A k \in Gates : k <= h => ~ReblockThrows(k)}}
             ts == reblocked \cap Tasks
  <2>1. \A t \in ts : ActiveOn(t) = {} /\ task[t] # "none"
    BY BoundAssumption DEF ReblockThrows, Unblocked, CreatedInOrder
  <2>2. task' = [t \in Tasks |-> IF t \in ts THEN "blocked" ELSE task[t]]
    BY <1>4 DEF ReblockGatedTasks
  <2>3. ts \in SUBSET Tasks
    OBVIOUS
  <2> HIDE DEF ts
  <2>4. \A t \in ts : /\ Phase(t)' = "open" /\ Phase(t) # "absent"
    <3> SUFFICES ASSUME NEW t \in ts PROVE Phase(t)' = "open" /\ Phase(t) # "absent"
      OBVIOUS
    <3>1. task'[t] = "blocked" /\ ActiveOn(t)' = {} /\ t \in Tasks
      BY <1>1, <2>1, <2>2, <2>3
    <3> QED BY <2>1, <3>1, PhasesAgree DEF Phase, PhaseAgrees
  <2>5. \A u \in Tasks \ ts : Phase(u)' = Phase(u)
    BY <1>1, <2>2, SameRowSameLease DEF LeaseKept
  <2>6. Lease!Reopen(ts)
    BY <1>1, <2>1, <2>3, <2>4, <2>5 DEF Lease!Reopen, Lease!Free
  <2> QED BY <2>3, <2>6 DEF LeaseStep, Lease!Next
<1>5. CASE Restart
  BY <1>1, <1>5, SameRowSameLease, StutterStep DEF Restart, LeaseStep
<1> QED BY <1>2, <1>3, <1>4, <1>5

(* A retry finds its Task unleased: its prior attempt is the latest, and has settled. *)
LEMMA RetryFindsFree ==
  ASSUME Inv, NEW d \in Dispatches, NEW place \in Placements, RetryWorker(d, place)
  PROVE  ActiveOn(taskOf[d]) = {} /\ taskOf[d] \in Tasks
<1>1. taskOf[d] \in Tasks
  BY DEF RetryWorker, Inv, Coherent, Rows
<1>2. ~Active(d)
  BY DEF RetryWorker, Inv, Coherent, WorkerHasAttempt, Supervised, Active
<1> SUFFICES ASSUME NEW e \in Dispatches, taskOf[e] = taskOf[d], Active(e) PROVE FALSE
  BY <1>1 DEF ActiveOn
<1>3. d <= e /\ e <= d
  BY DEF RetryWorker, Inv, Coherent, OneAttemptPerTask, Latest
<1> QED BY <1>2, <1>3, DispatchesAreNat

LEMMA TakeStep ==
  ASSUME Inv, Inv', NEW t \in Tasks, ActiveOn(t) = {}, task[t] \in {"none", "ready", "failed", "blocked"},
         NEW status \in ActiveDispatch, NEW state, NEW m, NewAttempt(t, status, state, m)
  PROVE  LeaseStep
<1> USE DispatchesAreNat
<1>1. nd + 1 \in Dispatches /\ nd \in Nat
  BY DEF Inv, TypeOK, NewAttempt, Dispatches
<1>2. PICK new \in Dispatches : new = nd + 1
  BY <1>1
<1>3. /\ nd' = new /\ taskOf'[new] = t /\ Active(new)' /\ task'[t] = "dispatched"
      /\ \A u \in Tasks \ {t} : task'[u] = task[u]
      /\ \A d \in Dispatches \ {new} : taskOf'[d] = taskOf[d] /\ (Active(d)' <=> Active(d))
  BY <1>2 DEF NewAttempt, Active, Inv, TypeOK
<1>4. ~Active(new)
  BY <1>1, <1>2, ActiveIsAlone DEF Inv
<1>5. ActiveOn(t)' = {new}
  BY <1>3 DEF ActiveOn
<1>6. \A u \in Tasks \ {t} : ActiveOn(u)' = ActiveOn(u)
  BY <1>3, <1>4 DEF ActiveOn
<1>7. \A u \in Tasks \ {t} : LeaseKept(u)
  BY <1>3, <1>6, SameRowSameLease
<1>8. Phase(t) \in {"absent", "open", "failed"} /\ Phase(t)' = "running"
  BY <1>3 DEF Phase
<1>9. Lease!Take(t)
  BY <1>2, <1>3, <1>5, <1>7, <1>8 DEF Lease!Take, Lease!Free, LeaseKept
<1> QED BY <1>9 DEF LeaseStep, Lease!Next

LEMMA CreationLease ==
  ASSUME Inv, Inv',
         \/ \E t \in Tasks, h \in Terminals : CreateDispatchContext(t, h)
         \/ \E t \in Tasks, place \in Placements : StartWorker(t, place)
         \/ \E d \in Dispatches, place \in Placements : RetryWorker(d, place)
  PROVE  LeaseStep
<1>1. ASSUME NEW t \in Tasks, task[t] \in {"none", "ready"} PROVE ActiveOn(t) = {}
  BY <1>1, ActiveTask DEF ActiveOn, Inv
<1>2. ASSUME NEW t \in Tasks, NEW h \in Terminals, CreateDispatchContext(t, h) PROVE LeaseStep
  <2>1. PICK m : NewAttempt(t, "dispatched", "none", m)
    BY <1>2 DEF CreateDispatchContext
  <2>2. ActiveOn(t) = {} /\ task[t] = "ready"
    BY <1>1, <1>2 DEF CreateDispatchContext
  <2> QED BY <2>1, <2>2, TakeStep
<1>3. ASSUME NEW t \in Tasks, NEW place \in Placements, StartWorker(t, place) PROVE LeaseStep
  <2>1. task[t] \in {"none", "ready"}
    BY <1>3 DEF StartWorker, Creatable
  <2>2. ActiveOn(t) = {}
    BY <1>1, <2>1
  <2>3. NewAttempt(t, "pending", "starting", 0)
    BY <1>3 DEF StartWorker, NewWorker
  <2> QED BY <2>1, <2>2, <2>3, TakeStep
<1>4. ASSUME NEW d \in Dispatches, NEW place \in Placements, RetryWorker(d, place) PROVE LeaseStep
  <2>1. PICK t \in Tasks : /\ ActiveOn(t) = {} /\ task[t] \in {"failed", "blocked"}
                          /\ \E m : NewAttempt(t, "pending", "starting", m)
    BY <1>4, RetryFindsFree DEF RetryWorker, NewWorker
  <2> QED BY <2>1, TakeStep
<1> QED BY <1>2, <1>3, <1>4

LEMMA NextLease ==
  ASSUME Inv, Inv', CreatedInOrder, Next
  PROVE  LeaseStep
<1>1. ASSUME NEW d \in Dispatches, LateEscalation(d) PROVE LeaseStep
  <2>1. PICK t \in Tasks : UpdateTaskStatus(t, "failed")
    BY <1>1, LateEscalationUpdates DEF Inv
  <2> QED BY <2>1, UpdateLease
<1> QED BY <1>1, NextCases, AttemptLease, UpdateLease, TaskOnlyLease, CreationLease

LEMMA LeaseInit == Init => Lease!Init
<1> SUFFICES ASSUME Init PROVE Lease!Init
  OBVIOUS
<1>1. \A t \in Tasks : ActiveOn(t) = {} /\ Phase(t) = "absent"
  BY DEF Init, ActiveOn, Active, Phase
<1> QED BY <1>1 DEF Init, Lease!Init

(* The orchestration database implements the lease of its Tasks: every handler, flow and
   recovery step takes, doubts, releases or settles one, or leaves all of them alone. *)
THEOREM LifecycleImplementsLease == Spec => ImplementsLease
<1>1. Inv /\ Inv' /\ CreatedInOrder /\ [Next]_vars => [Lease!Next]_Lease!leaseVars
  <2> SUFFICES ASSUME Inv, Inv', CreatedInOrder, [Next]_vars
               PROVE  Lease!Next \/ UNCHANGED Lease!leaseVars
    OBVIOUS
  <2>1. CASE Next
    BY <2>1, NextLease DEF LeaseStep
  <2>2. CASE UNCHANGED vars
    <3>1. nd' = nd /\ \A u \in Tasks : ActiveOn(u)' = ActiveOn(u) /\ task'[u] = task[u]
      BY <2>2 DEF vars, ActiveOn, Active
    <3> QED BY <3>1, SameRowSameLease, StutterStep
  <2> QED BY <2>1, <2>2
<1> QED BY <1>1, LeaseInit, InvIsInvariant, TasksCreatedInOrder, PTL
        DEF Spec, ImplementsLease, Lease!Spec

=============================================================================
