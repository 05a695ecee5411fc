--------------------- MODULE OrchestrationLifecycleProofs ---------------------
(***************************************************************************)
(* Safety of OrchestrationLifecycle for every set of Tasks and Terminals,  *)
(* every dependency relation and every bound.                              *)
(***************************************************************************)
EXTENDS OrchestrationLifecycle, TLAPS

(* Rows exist exactly up to nd, and a row without an attempt is blank. *)
Rows ==
  /\ boot <= nd
  /\ \A d \in Dispatches :
       /\ d <= nd <=> dispatch[d] # "none"
       /\ d <= nd <=> taskOf[d] \in Tasks
       /\ d > nd => /\ worker[d] = "none" /\ assignee[d] = NoTerminal
                    /\ d \notin federated /\ d \notin openQuestions

(* Attempts, workers and Tasks agree.  None of the three conjuncts is inductive alone:
   a retry of a blocked Task is safe only because the blocked Task's latest attempt has
   settled with its worker, and no earlier one is active. *)
Coherent == Rows /\ OneAttemptPerTask /\ TaskFollowsAttempt /\ WorkerHasAttempt

USE DEF ActiveDispatch, SettledDispatch, DispatchStatuses, UnprovenWorker, LiveWorker,
        SettledWorker, WorkerStates, TaskStatuses

-----------------------------------------------------------------------------
LEMMA DispatchesAreNat == MaxDispatches \in Nat /\ Dispatches \subseteq Nat
  BY BoundAssumption DEF Dispatches

(* Under the invariant an active attempt is alone on its Task. *)
LEMMA ActiveIsAlone ==
  ASSUME TypeOK, Coherent, NEW d \in Dispatches, Active(d)
  PROVE  /\ \A e \in Dispatches : taskOf[e] = taskOf[d] /\ Active(e) => e = d
         /\ ActiveOn(taskOf[d]) = {d}
         /\ ~OthersActive(d)
         /\ taskOf[d] \in Tasks
         /\ d <= nd
<1>1. \A e \in Dispatches : taskOf[e] = taskOf[d] /\ Active(e) => e = d
  BY DispatchesAreNat DEF Coherent, OneAttemptPerTask, Latest
<1>2. ActiveOn(taskOf[d]) = {d}
  BY <1>1 DEF ActiveOn
<1>3. d <= nd /\ taskOf[d] \in Tasks
  BY DEF Coherent, Rows, Active
<1> QED BY <1>1, <1>2, <1>3 DEF OthersActive

(* A step inside one attempt d keeps the three tables coherent when it keeps d's own row,
   worker and Task coherent, and changes other Tasks only by promotion. *)
AttemptStep(d) ==
  /\ UNCHANGED <<nd, taskOf>>
  /\ \A e \in Dispatches \ {d} : dispatch'[e] = dispatch[e] /\ worker'[e] = worker[e]
  /\ \A u \in Tasks \ {taskOf[d]} :
       task'[u] = task[u] \/ (task[u] = "pending" /\ task'[u] = "ready")
  /\ dispatch'[d] # "none"
  /\ Active(d)' => Active(d)
  /\ Supervised(d)' <=> (Active(d)' /\ worker'[d] # "none")
  /\ Active(d)' => task'[taskOf[d]] = IF Interrupted(d)' THEN "blocked" ELSE "dispatched"
  /\ ~Active(d)' => /\ task'[taskOf[d]] # "dispatched"
                    /\ \A e \in Dispatches \ {d} : taskOf[e] = taskOf[d] => ~Active(e)

RowsKept ==
  /\ boot' \in {boot, nd}
  /\ assignee' \in [Dispatches -> Terminals \cup {NoTerminal}]
  /\ \A d \in Dispatches : d > nd => assignee'[d] = NoTerminal
  /\ federated' = federated
  /\ \A d \in Dispatches : d > nd => d \notin openQuestions'

LEMMA AttemptStepCoherent ==
  ASSUME TypeOK, Coherent, TypeOK', NEW d \in Dispatches, d <= nd, AttemptStep(d), RowsKept
  PROVE  Coherent'
<1> USE DispatchesAreNat
<1>1. taskOf[d] \in Tasks /\ dispatch[d] # "none"
  BY DEF Coherent, Rows
<1>2. Rows'
  BY <1>1 DEF Coherent, Rows, AttemptStep, RowsKept, TypeOK
<1>3. OneAttemptPerTask'
  BY DEF Coherent, OneAttemptPerTask, AttemptStep, Latest, Active
<1>4. TaskFollowsAttempt'
  <2> SUFFICES ASSUME NEW t \in Tasks
               PROVE  /\ task'[t] = "dispatched" => ActiveOn(t)' # {}
                      /\ \A e \in Dispatches : taskOf'[e] = t /\ Active(e)' =>
                           task'[t] = IF Interrupted(e)' THEN "blocked" ELSE "dispatched"
    BY DEF TaskFollowsAttempt, ActiveOn
  <2>1. CASE t # taskOf[d]
    <3>1. \A e \in Dispatches : taskOf'[e] = t =>
            /\ e # d /\ taskOf[e] = t
            /\ (Active(e)' <=> Active(e)) /\ (Interrupted(e)' <=> Interrupted(e))
      BY <2>1 DEF AttemptStep, Active, Interrupted
    <3>2. ActiveOn(t)' = ActiveOn(t)
      BY <3>1 DEF ActiveOn, AttemptStep
    <3>3. task'[t] = task[t] \/ (task[t] = "pending" /\ task'[t] = "ready")
      BY <2>1 DEF AttemptStep
    <3> QED BY <3>1, <3>2, <3>3 DEF Coherent, TaskFollowsAttempt, ActiveOn
  <2>2. CASE t = taskOf[d] /\ Active(d)'
    <3>1. \A e \in Dispatches : taskOf'[e] = t /\ Active(e)' => e = d
      BY <2>2, ActiveIsAlone DEF AttemptStep, Active
    <3> QED BY <2>2, <3>1 DEF AttemptStep, ActiveOn
  <2>3. CASE t = taskOf[d] /\ ~Active(d)'
    BY <2>3 DEF AttemptStep, Active
  <2> QED BY <2>1, <2>2, <2>3
<1>5. WorkerHasAttempt'
  BY DEF Coherent, WorkerHasAttempt, AttemptStep, Active, Supervised
<1> QED BY <1>2, <1>3, <1>4, <1>5 DEF Coherent

-----------------------------------------------------------------------------
(* Type correctness *)

LEMMA TypeInit == Init => TypeOK
  BY BoundAssumption DEF Init, TypeOK, Failures, Dispatches

LEMMA TaskSteps ==
  ASSUME TypeOK, NEW t \in Tasks,
         \/ CreateTask(t)
         \/ \E s \in TaskStatuses : UpdateTaskStatus(t, s)
         \/ \E g \in Gates : CreateGate(g, t)
  PROVE  TypeOK'
<1>1. CASE CreateTask(t)
  BY <1>1 DEF TypeOK, CreateTask, InitialStatus, identity, runtime, gates
<1>2. ASSUME NEW s \in TaskStatuses, UpdateTaskStatus(t, s) PROVE TypeOK'
  <2>1. task' \in [Tasks -> TaskStatuses \cup {"none"}]
    BY <1>2 DEF TypeOK, UpdateTaskStatus, PromoteReadyTasks
  <2> QED BY <1>2, <2>1
          DEF TypeOK, UpdateTaskStatus, SettleDispatches, Failures, identity, runtime, gates
<1>3. ASSUME NEW g \in Gates, CreateGate(g, t) PROVE TypeOK'
  BY <1>3 DEF TypeOK, CreateGate, SettleDispatches, Failures, identity, runtime
<1> QED BY <1>1, <1>2, <1>3

LEMMA NewAttemptType ==
  ASSUME TypeOK, NEW t \in Tasks, NEW m \in Nat, NEW status \in DispatchStatuses,
         NEW state \in WorkerStates \cup {"none"}, NewAttempt(t, status, state, m),
         assignee' \in [Dispatches -> Terminals \cup {NoTerminal}],
         federated' \subseteq Dispatches, ownEpoch' \subseteq Dispatches
  PROVE  TypeOK'
  BY DispatchesAreNat DEF TypeOK, NewAttempt, gates, Dispatches

LEMMA NewWorkerType ==
  ASSUME TypeOK, NEW t \in Tasks, NEW m \in Nat, NEW place \in Placements, NewWorker(t, place, m)
  PROVE  TypeOK'
<1>1. nd + 1 \in Dispatches
  BY DispatchesAreNat DEF TypeOK, NewWorker, NewAttempt, Dispatches
<1>2. NewAttempt(t, "pending", "starting", m)
  BY DEF NewWorker
<1>3. /\ assignee' \in [Dispatches -> Terminals \cup {NoTerminal}]
      /\ federated' \subseteq Dispatches
      /\ ownEpoch' \subseteq Dispatches
  BY <1>1 DEF TypeOK, NewWorker
<1> QED BY <1>2, <1>3, NewAttemptType

LEMMA AttemptCreationType ==
  ASSUME TypeOK,
         \/ \E t \in Tasks, h \in Terminals : CreateDispatchContext(t, h)
         \/ \E t \in Tasks, place \in Placements : StartWorker(t, place)
         \/ \E d \in Dispatches, place \in Placements : RetryWorker(d, place) /\ taskOf[d] \in Tasks
  PROVE  TypeOK'
<1>1. ASSUME NEW t \in Tasks, NEW h \in Terminals, CreateDispatchContext(t, h) PROVE TypeOK'
  <2>1. PICK m \in {0} \cup {failures[e] : e \in {x \in Dispatches : taskOf[x] = t}} :
               NewAttempt(t, "dispatched", "none", m)
    BY <1>1 DEF CreateDispatchContext
  <2>2. m \in Nat
    BY <2>1 DEF TypeOK
  <2>3. /\ assignee' \in [Dispatches -> Terminals \cup {NoTerminal}]
        /\ federated' \subseteq Dispatches
        /\ ownEpoch' \subseteq Dispatches
    BY <1>1 DEF TypeOK, CreateDispatchContext
  <2> QED BY <2>1, <2>2, <2>3, NewAttemptType
<1>2. ASSUME NEW t \in Tasks, NEW place \in Placements, StartWorker(t, place) PROVE TypeOK'
  BY <1>2, NewWorkerType DEF StartWorker
<1>3. ASSUME NEW d \in Dispatches, NEW place \in Placements, RetryWorker(d, place),
             taskOf[d] \in Tasks
      PROVE TypeOK'
  BY <1>3, NewWorkerType DEF RetryWorker, TypeOK
<1> QED BY <1>1, <1>2, <1>3

(* The steps of one attempt, and the steps of gates and of the runtime. *)
InAttempt(d) ==
  \/ \E h \in Terminals : PrepareAuthority(d, h)
  \/ MarkReady(d)
  \/ \E why \in {"stalled", "other"} : FailWorkerStart(d, why)
  \/ MarkStartUnknown(d)
  \/ \E s \in {"ready", "start_unknown", "failed", "stopped"}, why \in {"stalled", "other"} :
       ReconcileFederatedStart(d, s, why)
  \/ BeginWorkerStop(d) \/ SettleWorkerStop(d) \/ MarkStopUnknown(d)
  \/ ReconcileFederatedStop(d) \/ ResumeFederated(d) \/ AbandonWorker(d)
  \/ ReleaseContextOnly(d) \/ WorkerExit(d) \/ FailContextOnly(d)
  \/ RecoverMissingTerminal(d)
  \/ \E outcome \in {"succeeded", "failed"} :
       WorkerReport(d, outcome) \/ CorrectingReport(d, outcome)
  \/ Ask(d) \/ ImportQuestion(d) \/ Answer(d)

LEMMA InAttemptType ==
  ASSUME TypeOK, NEW d \in Dispatches, InAttempt(d)
  PROVE  TypeOK'
<1> USE DEF TypeOK, Failures, identity, runtime, gates, SetWorker, CloseQuestions
<1>1. ASSUME NEW h \in Terminals, PrepareAuthority(d, h) PROVE TypeOK'
  BY <1>1 DEF PrepareAuthority
<1>2. CASE MarkReady(d)
  BY <1>2 DEF MarkReady
<1>3. ASSUME NEW why \in {"stalled", "other"}, FailWorkerStart(d, why) PROVE TypeOK'
  <2>1. task' \in [Tasks -> TaskStatuses \cup {"none"}]
    BY <1>3 DEF FailWorkerStart
  <2> QED BY <1>3, <2>1 DEF FailWorkerStart, CountFailure, BrokenOrFailed
<1>4. CASE MarkStartUnknown(d)
  BY <1>4 DEF MarkStartUnknown
<1>5. ASSUME NEW s \in {"ready", "start_unknown", "failed", "stopped"},
             NEW why \in {"stalled", "other"}, ReconcileFederatedStart(d, s, why)
      PROVE TypeOK'
  BY <1>5 DEF ReconcileFederatedStart, SettleUncounted
<1>6. CASE BeginWorkerStop(d)
  BY <1>6 DEF BeginWorkerStop, ReconcileInterrupted
<1>7. CASE SettleWorkerStop(d) \/ ReconcileFederatedStop(d) \/ AbandonWorker(d)
  BY <1>7 DEF SettleWorkerStop, ReconcileFederatedStop, AbandonWorker, SettleUncounted,
              ReconcileInterrupted
<1>8. CASE MarkStopUnknown(d) \/ ResumeFederated(d)
  BY <1>8 DEF MarkStopUnknown, ResumeFederated
<1>9. CASE ReleaseContextOnly(d)
  BY <1>9 DEF ReleaseContextOnly, SettleUncounted
<1>10. CASE WorkerExit(d) \/ FailContextOnly(d)
  BY <1>10 DEF WorkerExit, FailContextOnly, FailActive, CountFailure, BrokenOrFailed
<1>11. CASE RecoverMissingTerminal(d)
  BY <1>11 DEF RecoverMissingTerminal, CountFailure, BrokenOrFailed
<1>12. ASSUME NEW outcome \in {"succeeded", "failed"}, WorkerReport(d, outcome) PROVE TypeOK'
  <2>1. task' \in [Tasks -> TaskStatuses \cup {"none"}]
    BY <1>12 DEF WorkerReport, TaskReported, PromoteReadyTasks
  <2> QED BY <1>12, <2>1 DEF WorkerReport, DispatchStatusOf
<1>13. ASSUME NEW outcome \in {"succeeded", "failed"}, CorrectingReport(d, outcome) PROVE TypeOK'
  <2>1. task' \in [Tasks -> TaskStatuses \cup {"none"}]
    BY <1>13 DEF CorrectingReport, TaskReported, PromoteReadyTasks
  <2> QED BY <1>13, <2>1 DEF CorrectingReport
<1>14. CASE Ask(d) \/ ImportQuestion(d) \/ Answer(d)
  BY <1>14 DEF Ask, ImportQuestion, Answer
<1> QED BY <1>1, <1>2, <1>3, <1>4, <1>5, <1>6, <1>7, <1>8, <1>9, <1>10, <1>11, <1>12, <1>13,
           <1>14 DEF InAttempt

LEMMA GateAndRuntimeType ==
  ASSUME TypeOK,
         (\E g \in Gates : ResolveGate(g)) \/ ReblockGatedTasks \/ Restart
  PROVE  TypeOK'
<1> USE DEF TypeOK, identity, runtime, gates
<1>1. ASSUME NEW g \in Gates, ResolveGate(g) PROVE TypeOK'
  BY <1>1 DEF ResolveGate
<1>2. CASE ReblockGatedTasks
  BY <1>2 DEF ReblockGatedTasks
<1>3. CASE Restart
  BY <1>3 DEF Restart
<1> QED BY <1>1, <1>2, <1>3

-----------------------------------------------------------------------------
(* Coherence, step by step *)

LEMMA CoherentInit == Init => Coherent
<1> SUFFICES ASSUME Init PROVE Coherent
  OBVIOUS
<1>1. \A d \in Dispatches : d \in Nat /\ d > 0 /\ ~(d <= nd)
  BY BoundAssumption DEF Dispatches, Init
<1>2. \A d \in Dispatches : ~Active(d) /\ ~Supervised(d)
  BY DEF Init, Active, Supervised
<1>3. Rows
  BY <1>1, NoneAssumption DEF Init, Rows
<1>4. OneAttemptPerTask /\ WorkerHasAttempt
  BY <1>2 DEF OneAttemptPerTask, WorkerHasAttempt
<1>5. TaskFollowsAttempt
  BY <1>2 DEF Init, TaskFollowsAttempt, ActiveOn
<1> QED BY <1>3, <1>4, <1>5 DEF Coherent

LEMMA SameTables ==
  ASSUME TypeOK, Coherent, RowsKept, UNCHANGED <<nd, taskOf, dispatch, worker, task>>
  PROVE  Coherent'
<1>1. Rows'
  BY DispatchesAreNat DEF Coherent, Rows, RowsKept, TypeOK
<1>2. OneAttemptPerTask'
  BY DEF Coherent, OneAttemptPerTask, Active, Latest
<1>3. TaskFollowsAttempt'
  BY DEF Coherent, TaskFollowsAttempt, Active, Interrupted, ActiveOn
<1>4. WorkerHasAttempt'
  BY DEF Coherent, WorkerHasAttempt, Active, Supervised
<1> QED BY <1>1, <1>2, <1>3, <1>4 DEF Coherent

(* What the guards of the attempt's actions give: a live worker's attempt is active. *)
LEMMA LiveWorkerFacts ==
  ASSUME TypeOK, Coherent, NEW d \in Dispatches, Supervised(d)
  PROVE  Active(d) /\ d <= nd /\ taskOf[d] \in Tasks
  BY ActiveIsAlone DEF Coherent, WorkerHasAttempt

LEMMA ActiveTask ==
  ASSUME TypeOK, Coherent, NEW d \in Dispatches, Active(d)
  PROVE  task[taskOf[d]] = IF Interrupted(d) THEN "blocked" ELSE "dispatched"
<1>1. d \in ActiveOn(taskOf[d]) /\ taskOf[d] \in Tasks
  BY ActiveIsAlone DEF ActiveOn
<1> QED BY <1>1 DEF Coherent, TaskFollowsAttempt

(* The start flow and the stop flow: a live worker and its still active attempt. *)
LEMMA FlowStep ==
  ASSUME TypeOK, Coherent, TypeOK', NEW d \in Dispatches,
         \/ MarkReady(d)
         \/ MarkStartUnknown(d)
         \/ BeginWorkerStop(d)
         \/ MarkStopUnknown(d)
         \/ ResumeFederated(d)
  PROVE  Coherent'
<1> USE DEF TypeOK, SetWorker, CloseQuestions, identity, runtime, gates, RowsKept, Interrupted,
            Active, Supervised
<1>1. Supervised(d)
  BY DEF MarkReady, MarkStartUnknown, BeginWorkerStop, MarkStopUnknown, ResumeFederated,
         StartInFlight, Starting, StopInFlight
<1>2. Active(d) /\ d <= nd /\ taskOf[d] \in Tasks
  BY <1>1, LiveWorkerFacts
<1>3. ~OthersActive(d)
  BY <1>2, ActiveIsAlone
<1>4. task[taskOf[d]] = IF Interrupted(d) THEN "blocked" ELSE "dispatched"
  BY <1>2, ActiveTask
<1>5. RowsKept
  BY DispatchesAreNat DEF MarkReady, MarkStartUnknown, BeginWorkerStop, MarkStopUnknown,
     ResumeFederated, Coherent, Rows
<1>6. AttemptStep(d)
  <2>1. CASE MarkReady(d)
    BY <2>1, <1>2, <1>4 DEF MarkReady, StartInFlight, Starting, AttemptStep
  <2>2. CASE MarkStartUnknown(d)
    BY <2>2, <1>2, <1>4 DEF MarkStartUnknown, Starting, AttemptStep
  <2>3. CASE BeginWorkerStop(d)
    BY <2>3, <1>2, <1>3, <1>4 DEF BeginWorkerStop, ReconcileInterrupted, AttemptStep
  <2>4. CASE MarkStopUnknown(d)
    BY <2>4, <1>2, <1>4 DEF MarkStopUnknown, AttemptStep
  <2>5. CASE ResumeFederated(d)
    BY <2>5, <1>2, <1>4 DEF ResumeFederated, StopInFlight, AttemptStep
  <2> QED BY <2>1, <2>2, <2>3, <2>4, <2>5
<1> HIDE DEF TypeOK, RowsKept, Active, Supervised, Interrupted
<1> QED BY <1>2, <1>5, <1>6, AttemptStepCoherent

(* Settlements: an active attempt ends, its worker with it, and its Task moves on. *)
LEMMA SettlementStep ==
  ASSUME TypeOK, Coherent, TypeOK', NEW d \in Dispatches,
         \/ \E why \in {"stalled", "other"} : FailWorkerStart(d, why)
         \/ SettleWorkerStop(d) \/ ReconcileFederatedStop(d) \/ AbandonWorker(d)
         \/ ReleaseContextOnly(d) \/ WorkerExit(d) \/ FailContextOnly(d)
         \/ RecoverMissingTerminal(d)
  PROVE  Coherent'
<1> USE DEF TypeOK, SetWorker, CloseQuestions, identity, runtime, gates, RowsKept, Interrupted,
            Active, Supervised, CountFailure, SettleUncounted, BrokenOrFailed
<1>1. Active(d)
  BY LiveWorkerFacts
  DEF FailWorkerStart, SettleWorkerStop, ReconcileFederatedStop, AbandonWorker,
      ReleaseContextOnly, WorkerExit, FailContextOnly, RecoverMissingTerminal, StartInFlight,
      Starting, StopInFlight
<1>2. d <= nd /\ taskOf[d] \in Tasks
  BY <1>1, ActiveIsAlone
<1>3. ~OthersActive(d) /\ \A e \in Dispatches \ {d} : taskOf[e] = taskOf[d] => ~Active(e)
  BY <1>1, ActiveIsAlone
<1>4. task[taskOf[d]] = IF Interrupted(d) THEN "blocked" ELSE "dispatched"
  BY <1>1, ActiveTask
<1>5. RowsKept
  BY DispatchesAreNat
  DEF FailWorkerStart, SettleWorkerStop, ReconcileFederatedStop, AbandonWorker,
      ReleaseContextOnly, WorkerExit, FailContextOnly, RecoverMissingTerminal, FailActive,
      Coherent, Rows
<1>6. worker[d] \in LiveWorker \/ worker[d] = "none"
  BY <1>1 DEF Coherent, WorkerHasAttempt
<1>7. AttemptStep(d)
  <2>1. ASSUME NEW why \in {"stalled", "other"}, FailWorkerStart(d, why) PROVE AttemptStep(d)
    BY <2>1, <1>1, <1>2, <1>3, <1>4 DEF FailWorkerStart, StartInFlight, Starting, AttemptStep
  <2>2. CASE SettleWorkerStop(d) \/ ReconcileFederatedStop(d) \/ AbandonWorker(d)
    BY <2>2, <1>1, <1>2, <1>3, <1>4
    DEF SettleWorkerStop, ReconcileFederatedStop, AbandonWorker, ReconcileInterrupted,
        AttemptStep
  <2>3. CASE ReleaseContextOnly(d)
    BY <2>3, <1>1, <1>2, <1>3, <1>4 DEF ReleaseContextOnly, AttemptStep
  <2>4. CASE WorkerExit(d)
    BY <2>4, <1>1, <1>2, <1>3, <1>4, <1>6 DEF WorkerExit, FailActive, AttemptStep
  <2>5. CASE FailContextOnly(d)
    BY <2>5, <1>1, <1>2, <1>3, <1>4 DEF FailContextOnly, FailActive, AttemptStep
  <2>6. CASE RecoverMissingTerminal(d)
    BY <2>6, <1>1, <1>2, <1>3, <1>4 DEF RecoverMissingTerminal, AttemptStep
  <2> QED BY <2>1, <2>2, <2>3, <2>4, <2>5, <2>6
<1> HIDE DEF TypeOK, RowsKept, Active, Supervised, Interrupted
<1> QED BY <1>2, <1>5, <1>7, AttemptStepCoherent

(* The connected server's view of a start: ready, unknown, or an uncounted settlement. *)
LEMMA FederatedStartStep ==
  ASSUME TypeOK, Coherent, TypeOK', NEW d \in Dispatches,
         NEW s \in {"ready", "start_unknown", "failed", "stopped"},
         NEW why \in {"stalled", "other"}, ReconcileFederatedStart(d, s, why)
  PROVE  Coherent'
<1> USE DEF TypeOK, SetWorker, CloseQuestions, identity, runtime, gates, RowsKept, Interrupted,
            Active, Supervised, SettleUncounted, ReconcileFederatedStart
<1>1. Active(d) /\ d <= nd /\ taskOf[d] \in Tasks
  BY LiveWorkerFacts
<1>2. ~OthersActive(d) /\ \A e \in Dispatches \ {d} : taskOf[e] = taskOf[d] => ~Active(e)
  BY <1>1, ActiveIsAlone
<1>3. task[taskOf[d]] = IF Interrupted(d) THEN "blocked" ELSE "dispatched"
  BY <1>1, ActiveTask
<1>4. RowsKept
  BY DispatchesAreNat DEF Coherent, Rows
<1>5. AttemptStep(d)
  <2>1. CASE s = "ready"
    BY <2>1, <1>1, <1>2, <1>3 DEF AttemptStep
  <2>2. CASE s = "start_unknown"
    BY <2>2, <1>1, <1>2, <1>3 DEF AttemptStep
  <2>3. CASE s \in {"failed", "stopped"}
    BY <2>3, <1>1, <1>2, <1>3 DEF AttemptStep
  <2> QED BY <2>1, <2>2, <2>3
<1> HIDE DEF TypeOK, RowsKept, Active, Supervised, Interrupted
<1> QED BY <1>1, <1>4, <1>5, AttemptStepCoherent

(* The worker's report settles its attempt, which is alone, and promotes dependents. *)
LEMMA ReportStep ==
  ASSUME TypeOK, Coherent, TypeOK', NEW d \in Dispatches,
         NEW outcome \in {"succeeded", "failed"},
         WorkerReport(d, outcome) \/ CorrectingReport(d, outcome)
  PROVE  Coherent'
<1> USE DEF TypeOK, SetWorker, CloseQuestions, identity, runtime, gates, RowsKept, Interrupted,
            Active, Supervised
<1>1. CASE WorkerReport(d, outcome)
  <2>1. Active(d)
    BY <1>1 DEF WorkerReport, Reportable, Reconnecting, ReportingStart
  <2>2. d <= nd /\ taskOf[d] \in Tasks /\ ActiveOn(taskOf[d]) = {d}
    BY <2>1, ActiveIsAlone
  <2>3. \A e \in Dispatches \ {d} : taskOf[e] = taskOf[d] => ~Active(e)
    BY <2>1, ActiveIsAlone
  <2>4. RowsKept
    BY <1>1, DispatchesAreNat DEF WorkerReport, Coherent, Rows
  <2>5. /\ dispatch' = [e \in Dispatches |-> IF e = d THEN DispatchStatusOf(outcome) ELSE dispatch[e]]
        /\ worker' = [worker EXCEPT ![d] = IF @ = "none" THEN @ ELSE outcome]
        /\ UNCHANGED <<nd, taskOf>>
        /\ task' = TaskReported(taskOf[d], outcome)
    BY <1>1, <2>2 DEF WorkerReport
  <2>6. /\ task'[taskOf[d]] \in {"completed", "failed"}
        /\ \A u \in Tasks \ {taskOf[d]} :
             task'[u] = task[u] \/ (task[u] = "pending" /\ task'[u] = "ready")
    BY <2>2, <2>5 DEF TaskReported, PromoteReadyTasks
  <2>7. AttemptStep(d)
    BY <2>1, <2>2, <2>3, <2>5, <2>6 DEF AttemptStep, DispatchStatusOf
  <2> HIDE DEF TypeOK, RowsKept, Active, Supervised, Interrupted
  <2> QED BY <2>2, <2>4, <2>7, AttemptStepCoherent
<1>2. CASE CorrectingReport(d, outcome)
  <2>1. ~Active(d) /\ dispatch[d] # "none" /\ task[taskOf[d]] = "failed"
    BY <1>2 DEF CorrectingReport, UnobservedPrompt
  <2>2. d <= nd /\ taskOf[d] \in Tasks
    BY <2>1 DEF Coherent, Rows
  <2>3. \A e \in Dispatches \ {d} : taskOf[e] = taskOf[d] => ~Active(e)
    BY <2>1, ActiveTask
  <2>4. RowsKept
    BY <1>2, DispatchesAreNat DEF CorrectingReport, Coherent, Rows
  <2>5. /\ dispatch' = [dispatch EXCEPT ![d] = "completed"] \/ dispatch' = dispatch
        /\ worker' = [worker EXCEPT ![d] = outcome]
        /\ UNCHANGED <<nd, taskOf>>
        /\ task' = TaskReported(taskOf[d], outcome)
    BY <1>2 DEF CorrectingReport
  <2>6. /\ task'[taskOf[d]] \in {"completed", "failed"}
        /\ \A u \in Tasks \ {taskOf[d]} :
             task'[u] = task[u] \/ (task[u] = "pending" /\ task'[u] = "ready")
    BY <2>2, <2>5 DEF TaskReported, PromoteReadyTasks
  <2>7. AttemptStep(d)
    BY <2>1, <2>2, <2>3, <2>5, <2>6 DEF AttemptStep
  <2> HIDE DEF TypeOK, RowsKept, Active, Supervised, Interrupted
  <2> QED BY <2>2, <2>4, <2>7, AttemptStepCoherent
<1> QED BY <1>1, <1>2

(* Steps that leave the three tables alone; the repair on open finds nothing to repair. *)
LEMMA QuietStep ==
  ASSUME TypeOK, Coherent,
         \/ \E d \in Dispatches : \/ \E h \in Terminals : PrepareAuthority(d, h)
                                 \/ Ask(d) \/ ImportQuestion(d) \/ Answer(d)
         \/ Restart
  PROVE  Coherent'
<1>1. CASE Restart
  <2>1. worker' = worker
    BY <1>1 DEF Restart, Coherent, WorkerHasAttempt, Active, Supervised, TypeOK
  <2> QED BY <1>1, <2>1, SameTables
          DEF Restart, RowsKept, identity, gates, Coherent, Rows, TypeOK
<1>2. ASSUME NEW d \in Dispatches, NEW h \in Terminals, PrepareAuthority(d, h) PROVE Coherent'
  <2>1. d <= nd
    BY <1>2 DEF PrepareAuthority, Coherent, Rows
  <2>2. RowsKept
    BY <1>2, <2>1, DispatchesAreNat
    DEF PrepareAuthority, RowsKept, identity, runtime, gates, Coherent, Rows, TypeOK
  <2> QED BY <1>2, <2>2, SameTables DEF PrepareAuthority, identity
<1>3. ASSUME NEW d \in Dispatches, Ask(d) \/ ImportQuestion(d) \/ Answer(d) PROVE Coherent'
  <2>1. openQuestions' \subseteq openQuestions \cup {d} /\ (d \in openQuestions' => d <= nd)
    BY <1>3, DispatchesAreNat
    DEF Ask, ImportQuestion, Answer, CloseQuestions, Federated, Active, Coherent, Rows, TypeOK
  <2>2. RowsKept
    BY <1>3, <2>1, DispatchesAreNat
    DEF Ask, ImportQuestion, Answer, RowsKept, identity, runtime, gates, Coherent, Rows, TypeOK
  <2> QED BY <1>3, <2>2, SameTables DEF Ask, ImportQuestion, Answer, identity
<1> QED BY <1>1, <1>2, <1>3

LEMMA InAttemptCoherent ==
  ASSUME TypeOK, Coherent, NEW d \in Dispatches, InAttempt(d)
  PROVE  Coherent'
BY InAttemptType, FlowStep, SettlementStep, FederatedStartStep, ReportStep, QuietStep
   DEF InAttempt

(* A step on the Task itself: afterwards no attempt on it is active. *)
TaskStep(t) ==
  /\ UNCHANGED <<nd, taskOf>>
  /\ \A d \in Dispatches \ ActiveOn(t) : dispatch'[d] = dispatch[d]
  /\ worker' = [d \in Dispatches |->
                  IF d \in ActiveOn(t) /\ Supervised(d) THEN "abandoned" ELSE worker[d]]
  /\ \A d \in ActiveOn(t) : dispatch'[d] \in SettledDispatch
  /\ \A u \in Tasks \ {t} : task'[u] = task[u] \/ (task[u] = "pending" /\ task'[u] = "ready")
  /\ task'[t] # "dispatched"

LEMMA TaskStepCoherent ==
  ASSUME TypeOK, Coherent, TypeOK', NEW t \in Tasks, TaskStep(t), RowsKept
  PROVE  Coherent'
<1> USE DispatchesAreNat
<1>1. /\ \A d \in Dispatches : Active(d)' <=> Active(d) /\ taskOf[d] # t
      /\ \A d \in Dispatches : taskOf[d] # t => dispatch'[d] = dispatch[d] /\ worker'[d] = worker[d]
      /\ \A d \in Dispatches : dispatch'[d] = "none" <=> dispatch[d] = "none"
      /\ \A d \in Dispatches : ~Active(d) => worker'[d] = worker[d]
      /\ \A d \in Dispatches : worker'[d] = worker[d] \/ (Supervised(d) /\ worker'[d] = "abandoned")
      /\ nd' = nd /\ taskOf' = taskOf
  BY DEF TaskStep, Active, ActiveOn, TypeOK
<1>2. Rows'
  <2>1. \A d \in Dispatches : d > nd => worker'[d] = "none"
    BY <1>1 DEF Coherent, Rows, Supervised
  <2> QED BY <1>1, <2>1 DEF Coherent, Rows, RowsKept, TypeOK
<1>3. OneAttemptPerTask'
  BY <1>1 DEF Coherent, OneAttemptPerTask, Latest
<1>4. TaskFollowsAttempt'
  <2> SUFFICES ASSUME NEW u \in Tasks
               PROVE  /\ task'[u] = "dispatched" => ActiveOn(u)' # {}
                      /\ \A d \in Dispatches : taskOf'[d] = u /\ Active(d)' =>
                           task'[u] = IF Interrupted(d)' THEN "blocked" ELSE "dispatched"
    BY DEF TaskFollowsAttempt, ActiveOn
  <2>1. CASE u = t
    BY <2>1, <1>1 DEF TaskStep
  <2>2. CASE u # t
    <3>1. ActiveOn(u)' = ActiveOn(u)
      BY <2>2, <1>1 DEF ActiveOn
    <3>2. \A d \in ActiveOn(u) : Interrupted(d)' <=> Interrupted(d)
      BY <2>2, <1>1 DEF ActiveOn, Interrupted
    <3>3. task'[u] = task[u] \/ (task[u] = "pending" /\ task'[u] = "ready")
      BY <2>2 DEF TaskStep
    <3> QED BY <1>1, <3>1, <3>2, <3>3 DEF Coherent, TaskFollowsAttempt, ActiveOn
  <2> QED BY <2>1, <2>2
<1>5. WorkerHasAttempt'
  <2> SUFFICES ASSUME NEW d \in Dispatches
               PROVE  Supervised(d)' <=> Active(d)' /\ worker'[d] # "none"
    BY DEF WorkerHasAttempt
  <2>0. Supervised(d) <=> Active(d) /\ worker[d] # "none"
    BY DEF Coherent, WorkerHasAttempt
  <2>1. CASE d \in ActiveOn(t)
    BY <2>0, <2>1, <1>1 DEF TaskStep, ActiveOn, Supervised
  <2>2. CASE d \notin ActiveOn(t)
    BY <2>0, <2>2, <1>1 DEF TaskStep, ActiveOn, Supervised
  <2> QED BY <2>1, <2>2
<1> QED BY <1>2, <1>3, <1>4, <1>5 DEF Coherent

LEMMA UpdateTaskStep ==
  ASSUME TypeOK, Coherent, TypeOK', NEW t \in Tasks, NEW s \in TaskStatuses,
         UpdateTaskStatus(t, s)
  PROVE  Coherent'
<1> USE DEF TypeOK, identity, runtime, gates
<1>1. RowsKept
  BY DispatchesAreNat DEF UpdateTaskStatus, SettleDispatches, RowsKept, Coherent, Rows
<1>2. CASE s = "dispatched"
  (* Only an unsupervised attempt lets this through, so the Task is dispatched already. *)
  <2>1. PICK d \in ActiveOn(t) : task[t] # "dispatched" => ~Supervised(d)
    BY <1>2 DEF UpdateTaskStatus, MayUpdateTask, WorkerOwns
  <2>2. Active(d) /\ taskOf[d] = t /\ d \in Dispatches
    BY <2>1 DEF ActiveOn
  <2>3. task[t] = "dispatched"
    BY <2>1, <2>2, ActiveTask DEF Coherent, WorkerHasAttempt, Interrupted, Supervised
  <2>4. UNCHANGED <<nd, taskOf, dispatch, worker, task>>
    BY <1>2, <2>3 DEF UpdateTaskStatus, SettleDispatches
  <2> QED BY <1>1, <2>4, SameTables
<1>3. CASE s # "dispatched"
  <2>1. s \notin {"completed", "failed"} => ActiveOn(t) = {}
    BY <1>3 DEF UpdateTaskStatus, MayUpdateTask
  <2>2. /\ dispatch' = [d \in Dispatches |-> IF d \in ActiveOn(t) THEN s ELSE dispatch[d]]
        /\ worker' = [d \in Dispatches |->
                        IF d \in ActiveOn(t) /\ Supervised(d) THEN "abandoned" ELSE worker[d]]
        /\ UNCHANGED <<nd, taskOf>>
    BY <2>1 DEF UpdateTaskStatus, SettleDispatches
  <2>3. ActiveOn(t) # {} => s \in {"completed", "failed"}
    BY <2>1
  <2>4. ActiveOn(t) \subseteq Dispatches
    BY DEF ActiveOn
  <2>5. task'[t] = s /\ \A u \in Tasks \ {t} :
          task'[u] = task[u] \/ (task[u] = "pending" /\ task'[u] = "ready")
    BY DEF UpdateTaskStatus, PromoteReadyTasks
  <2>6. TaskStep(t)
    BY <1>3, <2>2, <2>3, <2>4, <2>5 DEF TaskStep
  <2> QED BY <1>1, <2>6, TaskStepCoherent
<1> QED BY <1>2, <1>3

LEMMA TaskOnlyStep ==
  ASSUME TypeOK, Coherent, TypeOK', RowsKept, UNCHANGED <<nd, taskOf, dispatch, worker>>,
         \A u \in Tasks : task'[u] = task[u] \/ (ActiveOn(u) = {} /\ task'[u] # "dispatched")
  PROVE  Coherent'
<1>1. Rows'
  BY DispatchesAreNat DEF Coherent, Rows, RowsKept, TypeOK
<1>2. OneAttemptPerTask' /\ WorkerHasAttempt'
  BY DEF Coherent, OneAttemptPerTask, Active, Latest, WorkerHasAttempt, Supervised
<1>3. \A u \in Tasks : ActiveOn(u)' = ActiveOn(u)
  BY DEF ActiveOn, Active
<1>4. TaskFollowsAttempt'
  BY <1>3 DEF Coherent, TaskFollowsAttempt, Interrupted
<1> QED BY <1>1, <1>2, <1>4 DEF Coherent

LEMMA TaskAndGateStep ==
  ASSUME TypeOK, Coherent, TypeOK',
         \/ \E t \in Tasks : CreateTask(t) \/ \E g \in Gates : CreateGate(g, t)
         \/ \E g \in Gates : ResolveGate(g)
         \/ ReblockGatedTasks
  PROVE  Coherent'
<1> USE DEF TypeOK, identity, runtime, gates
<1>1. ASSUME NEW t \in Tasks, CreateTask(t) PROVE Coherent'
  <2>1. ActiveOn(t) = {}
    BY <1>1, ActiveTask DEF CreateTask, Creatable, ActiveOn
  <2>2. RowsKept
    BY <1>1, DispatchesAreNat DEF CreateTask, RowsKept, Coherent, Rows
  <2> QED BY <1>1, <2>1, <2>2, TaskOnlyStep DEF CreateTask, InitialStatus
<1>2. ASSUME NEW t \in Tasks, NEW g \in Gates, CreateGate(g, t) PROVE Coherent'
  <2>1. RowsKept
    BY <1>2, DispatchesAreNat DEF CreateGate, SettleDispatches, RowsKept, Coherent, Rows
  <2>2. TaskStep(t)
    BY <1>2 DEF CreateGate, SettleDispatches, TaskStep, ActiveOn
  <2> QED BY <2>1, <2>2, TaskStepCoherent
<1>3. ASSUME NEW g \in Gates, ResolveGate(g) PROVE Coherent'
  <2>1. ActiveOn(gateTask[g]) = {}
    BY <1>3 DEF ResolveGate, MayUpdateTask
  <2>2. RowsKept
    BY <1>3, DispatchesAreNat DEF ResolveGate, RowsKept, Coherent, Rows
  <2> QED BY <1>3, <2>1, <2>2, TaskOnlyStep DEF ResolveGate
<1>4. CASE ReblockGatedTasks
  <2>1. \A g \in Gates : Unblocked(g) /\ (\A k \in Gates : k <= g => ~ReblockThrows(k))
          => ActiveOn(gateTask[g]) = {}
    BY BoundAssumption DEF ReblockThrows
  <2>2. RowsKept
    BY <1>4, DispatchesAreNat DEF ReblockGatedTasks, RowsKept, Coherent, Rows
  <2>3. \A u \in Tasks : task'[u] = task[u] \/ (ActiveOn(u) = {} /\ task'[u] = "blocked")
    BY <1>4, <2>1 DEF ReblockGatedTasks
  <2> QED BY <1>4, <2>2, <2>3, TaskOnlyStep DEF ReblockGatedTasks
<1> QED BY <1>1, <1>2, <1>3, <1>4

(* A new attempt takes over a Task no attempt is active on. *)
LEMMA NewAttemptCoherent ==
  ASSUME TypeOK, Coherent, TypeOK', NEW t \in Tasks, NEW m \in Nat,
         ActiveOn(t) = {},
         \/ NewAttempt(t, "dispatched", "none", m)
         \/ NewAttempt(t, "pending", "starting", m),
         \A d \in Dispatches : d > nd + 1 => assignee'[d] = NoTerminal /\ d \notin federated'
  PROVE  Coherent'
<1> USE DispatchesAreNat
<1>0. nd + 1 \in Dispatches /\ nd \in Nat
  BY DEF TypeOK, NewAttempt, Dispatches
<1>1. PICK new \in Dispatches : new = nd + 1 /\ nd \in Nat /\ new \in Nat /\ new > nd
  BY <1>0
<1>2. /\ nd' = new /\ taskOf'[new] = t /\ Active(new)' /\ ~Interrupted(new)'
      /\ Supervised(new)' <=> worker'[new] # "none"
      /\ task' = [task EXCEPT ![t] = "dispatched"]
  BY <1>1 DEF NewAttempt, Active, Interrupted, Supervised, TypeOK
<1>3. \A d \in Dispatches \ {new} :
        /\ taskOf'[d] = taskOf[d] /\ dispatch'[d] = dispatch[d] /\ worker'[d] = worker[d]
        /\ Active(d)' <=> Active(d)
        /\ Interrupted(d)' <=> Interrupted(d)
  BY <1>1 DEF NewAttempt, Active, Interrupted, TypeOK
<1>4. \A d \in Dispatches : Active(d) => d <= nd
  BY ActiveIsAlone
<1>5. \A d \in Dispatches \ {new} : Active(d) => taskOf[d] # t
  BY DEF ActiveOn
<1>6. Rows'
  <2>1. boot' = boot /\ boot <= nd /\ boot \in Nat /\ openQuestions' = openQuestions
    BY DEF NewAttempt, Coherent, Rows, TypeOK
  <2>2. \A d \in Dispatches : d <= nd' <=> d <= nd \/ d = new
    BY <1>1, <1>2
  <2>3. dispatch'[new] # "none" /\ taskOf'[new] \in Tasks
    BY <1>1, <1>2 DEF Active
  <2>4. \A d \in Dispatches \ {new} : dispatch'[d] = dispatch[d] /\ taskOf'[d] = taskOf[d]
                                        /\ worker'[d] = worker[d]
    BY <1>3
  <2>5. \A d \in Dispatches : /\ d <= nd' <=> dispatch'[d] # "none"
                              /\ d <= nd' <=> taskOf'[d] \in Tasks
    BY <2>2, <2>3, <2>4 DEF Coherent, Rows
  <2>6. \A d \in Dispatches : d > nd' => /\ d # new /\ d > nd /\ d > nd + 1
    BY <1>1, <1>2
  <2>7. \A d \in Dispatches : d > nd' => /\ worker'[d] = "none" /\ assignee'[d] = NoTerminal
                                         /\ d \notin federated' /\ d \notin openQuestions'
    BY <2>1, <2>4, <2>6 DEF Coherent, Rows
  <2>8. boot' <= nd'
    BY <1>1, <1>2, <2>1
  <2> QED BY <2>5, <2>7, <2>8 DEF Rows
<1>7. OneAttemptPerTask'
  <2> SUFFICES ASSUME NEW d \in Dispatches, Active(d)', NEW e \in Dispatches, taskOf'[e] = taskOf'[d]
               PROVE  e <= d
    BY DEF OneAttemptPerTask, Latest
  <2>1. CASE d = new
    BY <2>1, <1>1, <1>2, <1>6 DEF Rows
  <2>2. CASE d # new /\ e = new
    BY <2>2, <1>2, <1>3, <1>5
  <2>3. CASE d # new /\ e # new
    BY <2>3, <1>3 DEF Coherent, OneAttemptPerTask, Latest
  <2> QED BY <2>1, <2>2, <2>3
<1>8. TaskFollowsAttempt'
  <2> SUFFICES ASSUME NEW u \in Tasks
               PROVE  /\ task'[u] = "dispatched" => \E d \in Dispatches : taskOf'[d] = u /\ Active(d)'
                      /\ \A d \in Dispatches : taskOf'[d] = u /\ Active(d)' =>
                           task'[u] = IF Interrupted(d)' THEN "blocked" ELSE "dispatched"
    BY DEF TaskFollowsAttempt, ActiveOn
  <2>1. CASE u = t
    <3>1. task'[u] = "dispatched"
      BY <2>1, <1>2 DEF TypeOK
    <3>2. \A d \in Dispatches : taskOf'[d] = u /\ Active(d)' => d = new
      BY <2>1, <1>3, <1>5
    <3> QED BY <2>1, <1>1, <1>2, <3>1, <3>2
  <2>2. CASE u # t
    <3>1. task'[u] = task[u]
      BY <2>2, <1>2 DEF TypeOK
    <3>2. \A d \in Dispatches : taskOf'[d] = u /\ Active(d)' =>
            d # new /\ taskOf[d] = u /\ Active(d) /\ (Interrupted(d)' <=> Interrupted(d))
      BY <2>2, <1>2, <1>3
    <3>3. \A d \in Dispatches : taskOf[d] = u /\ Active(d) => taskOf'[d] = u /\ Active(d)'
      BY <1>1, <1>3, <1>4
    <3> QED BY <3>1, <3>2, <3>3 DEF Coherent, TaskFollowsAttempt, ActiveOn
  <2> QED BY <2>1, <2>2
<1>9. WorkerHasAttempt'
  <2> SUFFICES ASSUME NEW d \in Dispatches
               PROVE  Supervised(d)' <=> Active(d)' /\ worker'[d] # "none"
    BY DEF WorkerHasAttempt
  <2>1. CASE d = new
    BY <2>1, <1>2
  <2>2. CASE d # new
    <3>1. Supervised(d)' <=> Supervised(d)
      BY <2>2, <1>3 DEF Supervised
    <3> QED BY <2>2, <3>1, <1>3 DEF Coherent, WorkerHasAttempt
  <2> QED BY <2>1, <2>2
<1> QED BY <1>6, <1>7, <1>8, <1>9 DEF Coherent

(* A ready Task has no active attempt, and a retry finds its prior attempt, the Task's
   latest, settled: a worker that settled took its attempt with it. *)
LEMMA CreationStep ==
  ASSUME TypeOK, Coherent, TypeOK',
         \/ \E t \in Tasks, h \in Terminals : CreateDispatchContext(t, h)
         \/ \E t \in Tasks, place \in Placements : StartWorker(t, place)
         \/ \E d \in Dispatches, place \in Placements : RetryWorker(d, place)
  PROVE  Coherent'
<1> USE DispatchesAreNat
<1>0. nd \in Nat /\ \A d \in Dispatches : d > nd + 1 => d > nd
  BY DEF TypeOK, Dispatches
<1>1. ASSUME NEW t \in Tasks, task[t] \in {"none", "ready"} PROVE ActiveOn(t) = {}
  BY <1>1, ActiveTask DEF ActiveOn
<1>2. ASSUME NEW t \in Tasks, NEW h \in Terminals, CreateDispatchContext(t, h) PROVE Coherent'
  <2>1. PICK m \in {0} \cup {failures[e] : e \in {x \in Dispatches : taskOf[x] = t}} :
               NewAttempt(t, "dispatched", "none", m)
    BY <1>2 DEF CreateDispatchContext
  <2>2. m \in Nat
    BY <2>1 DEF TypeOK
  <2>3. ActiveOn(t) = {}
    BY <1>1, <1>2 DEF CreateDispatchContext
  <2>4. \A d \in Dispatches : d > nd + 1 => assignee'[d] = NoTerminal /\ d \notin federated'
    BY <1>0, <1>2 DEF CreateDispatchContext, Coherent, Rows, TypeOK
  <2> QED BY <2>1, <2>2, <2>3, <2>4, NewAttemptCoherent
<1>3. ASSUME NEW t \in Tasks, NEW place \in Placements, NEW m \in Nat, NewWorker(t, place, m),
             ActiveOn(t) = {}
      PROVE  Coherent'
  <2>1. \A d \in Dispatches : d > nd + 1 => assignee'[d] = NoTerminal /\ d \notin federated'
    BY <1>0, <1>3 DEF NewWorker, Coherent, Rows, TypeOK
  <2> QED BY <1>3, <2>1, NewAttemptCoherent DEF NewWorker
<1>4. ASSUME NEW t \in Tasks, NEW place \in Placements, StartWorker(t, place) PROVE Coherent'
  BY <1>1, <1>3, <1>4 DEF StartWorker, Creatable
<1>5. ASSUME NEW d \in Dispatches, NEW place \in Placements, RetryWorker(d, place) PROVE Coherent'
  <2>1. taskOf[d] \in Tasks /\ failures[d] \in Nat
    BY <1>5 DEF RetryWorker, Coherent, Rows, TypeOK
  <2>2. ~Active(d)
    BY <1>5 DEF RetryWorker, Coherent, WorkerHasAttempt, Supervised, Active
  <2>3. ActiveOn(taskOf[d]) = {}
    <3> SUFFICES ASSUME NEW e \in Dispatches, taskOf[e] = taskOf[d], Active(e) PROVE FALSE
      BY DEF ActiveOn
    <3>1. d <= e /\ e <= d
      BY <1>5 DEF RetryWorker, Coherent, OneAttemptPerTask, Latest
    <3> QED BY <2>2, <3>1
  <2> QED BY <1>3, <1>5, <2>1, <2>3 DEF RetryWorker
<1> QED BY <1>2, <1>4, <1>5

(* A late escalation is a status update of the attempt's Task. *)
LEMMA LateEscalationUpdates ==
  ASSUME TypeOK, Coherent, NEW d \in Dispatches, LateEscalation(d)
  PROVE  taskOf[d] \in Tasks /\ UpdateTaskStatus(taskOf[d], "failed")
  BY DEF LateEscalation, Coherent, Rows

LEMMA NextCases ==
  ASSUME Next
  PROVE  \/ \E t \in Tasks : \/ CreateTask(t)
                             \/ \E s \in TaskStatuses : UpdateTaskStatus(t, s)
                             \/ \E g \in Gates : CreateGate(g, t)
         \/ \E t \in Tasks, h \in Terminals : CreateDispatchContext(t, h)
         \/ \E t \in Tasks, place \in Placements : StartWorker(t, place)
         \/ \E d \in Dispatches, place \in Placements : RetryWorker(d, place)
         \/ \E d \in Dispatches : LateEscalation(d)
         \/ \E d \in Dispatches : InAttempt(d)
         \/ \E g \in Gates : ResolveGate(g)
         \/ ReblockGatedTasks
         \/ Restart
  BY ZenonT(60) DEF Next, InAttempt

LEMMA NextType ==
  ASSUME TypeOK, Coherent, Next
  PROVE  TypeOK'
<1>1. ASSUME NEW d \in Dispatches, LateEscalation(d) PROVE TypeOK'
  BY <1>1, LateEscalationUpdates, TaskSteps
<1>2. ASSUME NEW d \in Dispatches, NEW place \in Placements, RetryWorker(d, place) PROVE TypeOK'
  <2>1. taskOf[d] \in Tasks
    BY <1>2 DEF RetryWorker, Coherent, Rows
  <2> QED BY <1>2, <2>1, AttemptCreationType
<1> QED BY <1>1, <1>2, NextCases, TaskSteps, AttemptCreationType, InAttemptType, GateAndRuntimeType

LEMMA NextCoherent ==
  ASSUME TypeOK, Coherent, Next
  PROVE  Coherent'
<1>1. TypeOK'
  BY NextType
<1>2. ASSUME NEW d \in Dispatches, LateEscalation(d) PROVE Coherent'
  BY <1>1, <1>2, LateEscalationUpdates, UpdateTaskStep
<1> QED BY <1>1, <1>2, NextCases, UpdateTaskStep, TaskAndGateStep, CreationStep, InAttemptCoherent,
           QuietStep

-----------------------------------------------------------------------------
(* The inductive invariant, and the theorems it gives *)

Inv == TypeOK /\ Coherent

LEMMA InvStep == Inv /\ [Next]_vars => Inv'
<1> SUFFICES ASSUME Inv, [Next]_vars PROVE Inv'
  OBVIOUS
<1>1. CASE Next
  BY <1>1, NextType, NextCoherent DEF Inv
<1>2. CASE UNCHANGED vars
  BY <1>2 DEF Inv, vars, TypeOK, Coherent, Rows, OneAttemptPerTask, TaskFollowsAttempt,
              WorkerHasAttempt, Active, Latest, Supervised, Interrupted, ActiveOn
<1> QED BY <1>1, <1>2

(* In every reachable state the tables have their types and agree with each other. *)
THEOREM InvIsInvariant == Spec => []Inv
<1>1. Init => Inv
  BY TypeInit, CoherentInit DEF Inv
<1> QED BY <1>1, InvStep, PTL DEF Spec

(* Every column keeps its type, whatever the handlers interleave. *)
THEOREM TypeCorrect == Spec => []TypeOK
<1>1. Inv => TypeOK
  BY DEF Inv
<1> QED BY <1>1, InvIsInvariant, PTL

(* No Task is ever held by two active attempts, and the one that holds it is its latest. *)
THEOREM OneAttempt == Spec => []OneAttemptPerTask
<1>1. Inv => OneAttemptPerTask
  BY DEF Inv, Coherent
<1> QED BY <1>1, InvIsInvariant, PTL

(* Task status and attempt agree in every reachable state. *)
THEOREM TaskFollows == Spec => []TaskFollowsAttempt
<1>1. Inv => TaskFollowsAttempt
  BY DEF Inv, Coherent
<1> QED BY <1>1, InvIsInvariant, PTL

(* A live supervised worker and an active attempt come and go together. *)
THEOREM WorkersHaveAttempts == Spec => []WorkerHasAttempt
<1>1. Inv => WorkerHasAttempt
  BY DEF Inv, Coherent
<1> QED BY <1>1, InvIsInvariant, PTL

=============================================================================
