------------------------- MODULE LifecycleSafetyProofs -------------------------
(***************************************************************************)
(* Safety of OrchestrationLifecycle that rests on the inductive invariant  *)
(* of OrchestrationLifecycleProofs.                                        *)
(***************************************************************************)
EXTENDS OrchestrationLifecycleProofs

USE DEF ActiveDispatch, SettledDispatch, DispatchStatuses, UnprovenWorker, LiveWorker,
        SettledWorker, WorkerStates, TaskStatuses

-----------------------------------------------------------------------------
(* The lifecycle graph, edge by edge as the handlers use it *)

LEMMA WorkerEdges ==
  /\ \A s \in {"ready", "start_unknown", "failed", "stopping", "stopped", "abandoned"} :
       LegalWorkerEdge("starting", s)
  /\ \A s \in {"ready", "failed", "stopping", "stopped", "abandoned"} :
       LegalWorkerEdge("start_unknown", s)
  /\ \A s \in {"succeeded", "failed", "stopping", "abandoned"} : LegalWorkerEdge("ready", s)
  /\ \A s \in {"stopped", "stop_unknown", "ready", "failed", "abandoned"} :
       LegalWorkerEdge("stopping", s)
  /\ \A s \in {"ready", "failed", "stopped", "abandoned"} : LegalWorkerEdge("stop_unknown", s)
  BY DEF LegalWorkerEdge, LegalWorkerEdges

(* Every live worker may fail or be abandoned; only a ready one cannot become ready. *)
LEMMA LiveWorkerEdges ==
  \A s \in LiveWorker :
    /\ LegalWorkerEdge(s, "failed") /\ LegalWorkerEdge(s, "abandoned")
    /\ LegalWorkerEdge(s, "ready")
  BY WorkerEdges DEF LegalWorkerEdge

LEMMA UntouchedIsLegal ==
  ASSUME TypeOK, NEW d \in Dispatches, dispatch'[d] = dispatch[d], worker'[d] = worker[d]
  PROVE  LegalStep(d)
<1>1. LegalDispatchEdge(dispatch[d], dispatch'[d])
  BY DEF LegalDispatchEdge
<1>2. LegalWorkerEdge(worker[d], worker'[d])
  BY DEF LegalWorkerEdge
<1> QED BY <1>1, <1>2 DEF LegalStep

LEMMA ActiveEdges ==
  ASSUME TypeOK, NEW d \in Dispatches, Active(d), NEW to \in SettledDispatch \cup {"dispatched"}
  PROVE  LegalDispatchEdge(dispatch[d], to)
  BY DEF Active, LegalDispatchEdge

(* A start, a stop or a reconciliation moves a worker along the graph, and its attempt
   forward or nowhere. *)
LEMMA FlowLegal ==
  ASSUME TypeOK, Coherent, NEW d \in Dispatches,
         \/ MarkReady(d) \/ MarkStartUnknown(d) \/ BeginWorkerStop(d) \/ MarkStopUnknown(d)
         \/ ResumeFederated(d)
  PROVE  LegalStep(d)
<1> USE DEF TypeOK, SetWorker
<1>1. CASE MarkReady(d)
  BY <1>1, WorkerEdges DEF MarkReady, StartInFlight, Starting, LegalStep, LegalDispatchEdge
<1>2. CASE MarkStartUnknown(d)
  BY <1>2, WorkerEdges DEF MarkStartUnknown, Starting, LegalStep, LegalDispatchEdge
<1>3. CASE BeginWorkerStop(d)
  <2>1. LegalWorkerEdge("stopping", "stopping")
    BY DEF LegalWorkerEdge
  <2> QED BY <1>3, <2>1, WorkerEdges DEF BeginWorkerStop, LegalStep, LegalDispatchEdge
<1>4. CASE MarkStopUnknown(d)
  BY <1>4, WorkerEdges DEF MarkStopUnknown, LegalStep, LegalDispatchEdge
<1>5. CASE ResumeFederated(d)
  BY <1>5, WorkerEdges DEF ResumeFederated, StopInFlight, LegalStep, LegalDispatchEdge
<1> QED BY <1>1, <1>2, <1>3, <1>4, <1>5

LEMMA SettlementLegal ==
  ASSUME TypeOK, Coherent, NEW d \in Dispatches,
         \/ \E why \in {"stalled", "other"} : FailWorkerStart(d, why)
         \/ SettleWorkerStop(d) \/ ReconcileFederatedStop(d) \/ AbandonWorker(d)
         \/ ReleaseContextOnly(d) \/ WorkerExit(d) \/ FailContextOnly(d)
         \/ RecoverMissingTerminal(d)
  PROVE  LegalStep(d)
<1> USE DEF TypeOK
<1>1. Active(d)
  BY LiveWorkerFacts
  DEF FailWorkerStart, SettleWorkerStop, ReconcileFederatedStop, AbandonWorker,
      ReleaseContextOnly, WorkerExit, FailContextOnly, RecoverMissingTerminal, StartInFlight,
      Starting, StopInFlight, Supervised
<1>2. dispatch'[d] \in {"failed", "circuit_broken"}
  BY <1>1
  DEF FailWorkerStart, SettleWorkerStop, ReconcileFederatedStop, AbandonWorker,
      ReleaseContextOnly, WorkerExit, FailContextOnly, RecoverMissingTerminal, FailActive,
      CountFailure, SettleUncounted, BrokenOrFailed
<1>3. LegalDispatchEdge(dispatch[d], dispatch'[d])
  BY <1>1, <1>2, ActiveEdges
<1>4. worker[d] \in LiveWorker \/ worker[d] = "none"
  BY <1>1 DEF Coherent, WorkerHasAttempt, Supervised
<1>5. \/ worker'[d] = worker[d]
      \/ worker[d] \in LiveWorker /\ worker'[d] \in {"failed", "abandoned"}
      \/ worker[d] \in {"stopping", "stop_unknown"} /\ worker'[d] = "stopped"
  BY <1>4
  DEF FailWorkerStart, SettleWorkerStop, ReconcileFederatedStop, AbandonWorker,
      ReleaseContextOnly, WorkerExit, FailContextOnly, RecoverMissingTerminal, StartInFlight,
      Starting, StopInFlight, Supervised, SetWorker
<1>6. LegalWorkerEdge(worker[d], worker'[d]) /\ (worker[d] = "none" => worker'[d] = "none")
  BY <1>4, <1>5, LiveWorkerEdges, WorkerEdges DEF LegalWorkerEdge
<1> HIDE DEF TypeOK
<1> QED BY <1>3, <1>6 DEF LegalStep

LEMMA FederatedStartLegal ==
  ASSUME TypeOK, Coherent, NEW d \in Dispatches,
         NEW s \in {"ready", "start_unknown", "failed", "stopped"},
         NEW why \in {"stalled", "other"}, ReconcileFederatedStart(d, s, why)
  PROVE  LegalStep(d)
<1>1. Active(d)
  BY LiveWorkerFacts DEF ReconcileFederatedStart, Supervised
<1>2. dispatch'[d] \in {dispatch[d], "failed"} \/ (dispatch[d] = "pending" /\ dispatch'[d] = "dispatched")
  BY DEF ReconcileFederatedStart, SettleUncounted, TypeOK
<1>3. LegalDispatchEdge(dispatch[d], dispatch'[d])
  BY <1>1, <1>2 DEF Active, LegalDispatchEdge
<1>4. worker[d] \in {"starting", "start_unknown"} /\ worker'[d] = s
  BY DEF ReconcileFederatedStart, SetWorker, TypeOK
<1>5. LegalWorkerEdge(worker[d], worker'[d])
  BY <1>4, WorkerEdges DEF LegalWorkerEdge
<1> QED BY <1>3, <1>4, <1>5 DEF LegalStep

(* A report settles an active attempt, or corrects the record of a stalled prompt. *)
LEMMA ReportLegal ==
  ASSUME TypeOK, Coherent, NEW d \in Dispatches, NEW outcome \in {"succeeded", "failed"},
         WorkerReport(d, outcome) \/ CorrectingReport(d, outcome)
  PROVE  LegalStep(d)
<1>1. CASE WorkerReport(d, outcome)
  <2>1. Active(d)
    BY <1>1 DEF WorkerReport, Reportable, Reconnecting, ReportingStart, Active
  <2>2. dispatch'[d] \in {"completed", "failed"}
    BY <1>1, <2>1 DEF WorkerReport, ActiveOn, DispatchStatusOf
  <2>3. LegalDispatchEdge(dispatch[d], dispatch'[d])
    BY <2>1, <2>2, ActiveEdges
  <2>4. \/ worker[d] = "none" /\ worker'[d] = "none"
        \/ worker[d] \in {"starting", "ready", "start_unknown", "stop_unknown"} /\ worker'[d] = outcome
    BY <1>1 DEF WorkerReport, SettlesWorker, Starting, TypeOK
  <2>5. worker[d] \in LiveWorker => LegalWorkerEdge(worker[d], "ready") /\ LegalWorkerEdge(worker[d], "failed")
    BY LiveWorkerEdges
  <2> QED BY <2>3, <2>4, <2>5 DEF LegalStep
<1>2. CASE CorrectingReport(d, outcome)
  <2>1. /\ dispatch[d] \in {"failed", "circuit_broken"} /\ lastFailure[d] = "stalled"
        /\ worker[d] = "failed" /\ worker'[d] = outcome
        /\ task[taskOf[d]] = "failed"
    BY <1>2 DEF CorrectingReport, UnobservedPrompt, SetWorker, TypeOK
  <2>2. CASE outcome = "succeeded"
    <3>1. taskOf[d] \in Tasks
      BY <2>1 DEF Coherent, Rows
    <3>2. task'[taskOf[d]] = "completed"
      BY <1>2, <2>2, <3>1 DEF CorrectingReport, TaskReported, PromoteReadyTasks, TypeOK
    <3>3. dispatch'[d] = "completed" /\ taskOf' = taskOf
      BY <1>2, <2>2 DEF CorrectingReport, identity, TypeOK
    <3> QED BY <2>1, <2>2, <3>2, <3>3 DEF LegalStep, Corrects
  <2>3. CASE outcome = "failed"
    <3>1. dispatch'[d] = dispatch[d] /\ worker'[d] = worker[d]
      BY <1>2, <2>1, <2>3 DEF CorrectingReport
    <3> QED BY <3>1, UntouchedIsLegal
  <2> QED BY <2>2, <2>3
<1> QED BY <1>1, <1>2

(* A step inside one attempt touches no other row. *)
LEMMA OthersUntouched ==
  ASSUME TypeOK, Coherent, NEW d \in Dispatches, InAttempt(d), NEW e \in Dispatches \ {d}
  PROVE  dispatch'[e] = dispatch[e] /\ worker'[e] = worker[e]
<1> USE DEF TypeOK, SetWorker
<1>1. ASSUME NEW outcome \in {"succeeded", "failed"}, WorkerReport(d, outcome)
      PROVE  dispatch'[e] = dispatch[e] /\ worker'[e] = worker[e]
  <2>1. Active(d)
    BY <1>1 DEF WorkerReport, Reportable, Reconnecting, ReportingStart, Active
  <2>2. e \notin ActiveOn(taskOf[d])
    BY <2>1, ActiveIsAlone
  <2> QED BY <1>1, <2>2 DEF WorkerReport
<1>2. ASSUME NEW outcome \in {"succeeded", "failed"}, CorrectingReport(d, outcome)
      PROVE  dispatch'[e] = dispatch[e] /\ worker'[e] = worker[e]
  BY <1>2 DEF CorrectingReport
<1>3. ASSUME \/ \E h \in Terminals : PrepareAuthority(d, h)
             \/ MarkReady(d) \/ MarkStartUnknown(d)
             \/ BeginWorkerStop(d) \/ MarkStopUnknown(d) \/ ResumeFederated(d)
             \/ Ask(d) \/ ImportQuestion(d) \/ Answer(d)
      PROVE  dispatch'[e] = dispatch[e] /\ worker'[e] = worker[e]
  BY <1>3 DEF PrepareAuthority, MarkReady, MarkStartUnknown, BeginWorkerStop, MarkStopUnknown,
              ResumeFederated, Ask, ImportQuestion, Answer
<1>4. ASSUME \/ \E why \in {"stalled", "other"} : FailWorkerStart(d, why)
             \/ SettleWorkerStop(d) \/ ReconcileFederatedStop(d) \/ AbandonWorker(d)
             \/ ReleaseContextOnly(d) \/ WorkerExit(d) \/ FailContextOnly(d)
             \/ RecoverMissingTerminal(d)
      PROVE  dispatch'[e] = dispatch[e] /\ worker'[e] = worker[e]
  BY <1>4 DEF FailWorkerStart, SettleWorkerStop, ReconcileFederatedStop, AbandonWorker,
              ReleaseContextOnly, WorkerExit, FailContextOnly, RecoverMissingTerminal,
              FailActive, CountFailure, SettleUncounted
<1>5. ASSUME NEW s \in {"ready", "start_unknown", "failed", "stopped"},
             NEW why \in {"stalled", "other"}, ReconcileFederatedStart(d, s, why)
      PROVE  dispatch'[e] = dispatch[e] /\ worker'[e] = worker[e]
  BY <1>5 DEF ReconcileFederatedStart, SettleUncounted
<1> HIDE DEF TypeOK, SetWorker
<1> QED BY <1>1, <1>2, <1>3, <1>4, <1>5 DEF InAttempt

LEMMA InAttemptLegal ==
  ASSUME TypeOK, Coherent, NEW d \in Dispatches, InAttempt(d), NEW e \in Dispatches
  PROVE  LegalStep(e)
<1>1. CASE e # d
  BY <1>1, OthersUntouched, UntouchedIsLegal
<1>2. CASE e = d
  <2>1. ASSUME \/ \E h \in Terminals : PrepareAuthority(d, h)
               \/ Ask(d) \/ ImportQuestion(d) \/ Answer(d)
        PROVE  LegalStep(d)
    <3>1. UNCHANGED <<dispatch, worker>>
      BY <2>1 DEF PrepareAuthority, Ask, ImportQuestion, Answer
    <3> QED BY <3>1, UntouchedIsLegal
  <2> QED BY <1>2, <2>1, FlowLegal, SettlementLegal, FederatedStartLegal, ReportLegal DEF InAttempt
<1> QED BY <1>1, <1>2

(* SettleDispatches takes active attempts to settled ones and abandons live workers. *)
LEMMA SettleDispatchesLegal ==
  ASSUME TypeOK, NEW t, NEW ds, NEW st,
         ds = {} \/ (ds = ActiveOn(t) /\ st \in {"completed", "failed"}),
         SettleDispatches(ds, st), NEW d \in Dispatches
  PROVE  LegalStep(d)
<1>1. CASE d \in ds
  <2>1. Active(d) /\ dispatch'[d] = st
    BY <1>1 DEF ActiveOn, SettleDispatches
  <2>2. worker'[d] = IF Supervised(d) THEN "abandoned" ELSE worker[d]
    BY <1>1 DEF SettleDispatches
  <2>3. st \in {"completed", "failed"}
    BY <1>1
  <2>4. LegalDispatchEdge(dispatch[d], dispatch'[d])
    BY <2>1, <2>3, ActiveEdges
  <2>5. LegalWorkerEdge(worker[d], worker'[d]) /\ (worker[d] = "none" => worker'[d] = "none")
    BY <2>2, LiveWorkerEdges DEF LegalWorkerEdge, Supervised
  <2> QED BY <2>4, <2>5 DEF LegalStep
<1>2. CASE d \notin ds
  BY <1>2, UntouchedIsLegal DEF SettleDispatches
<1> QED BY <1>1, <1>2

LEMMA UpdateLegal ==
  ASSUME TypeOK, NEW t \in Tasks, NEW s \in TaskStatuses, UpdateTaskStatus(t, s),
         NEW d \in Dispatches
  PROVE  LegalStep(d)
  BY SettleDispatchesLegal DEF UpdateTaskStatus

LEMMA GateAndTaskLegal ==
  ASSUME TypeOK, NEW d \in Dispatches,
         \/ \E t \in Tasks : CreateTask(t) \/ \E g \in Gates : CreateGate(g, t)
         \/ \E g \in Gates : ResolveGate(g)
         \/ ReblockGatedTasks
  PROVE  LegalStep(d)
<1>1. ASSUME NEW t \in Tasks, NEW g \in Gates, CreateGate(g, t) PROVE LegalStep(d)
  BY <1>1, SettleDispatchesLegal DEF CreateGate
<1>2. ASSUME NEW t \in Tasks, CreateTask(t) PROVE LegalStep(d)
  BY <1>2, UntouchedIsLegal DEF CreateTask
<1>3. ASSUME (\E g \in Gates : ResolveGate(g)) \/ ReblockGatedTasks PROVE LegalStep(d)
  <2>1. UNCHANGED <<dispatch, worker>>
    BY <1>3 DEF ResolveGate, ReblockGatedTasks
  <2> QED BY <2>1, UntouchedIsLegal
<1> QED BY <1>1, <1>2, <1>3

(* A new attempt is a new row. *)
LEMMA CreationLegal ==
  ASSUME TypeOK, NEW d \in Dispatches, d <= nd,
         \/ \E t \in Tasks, h \in Terminals : CreateDispatchContext(t, h)
         \/ \E t \in Tasks, place \in Placements : StartWorker(t, place)
         \/ \E p \in Dispatches, place \in Placements : RetryWorker(p, place)
  PROVE  LegalStep(d)
<1>1. PICK t, status, state, m : NewAttempt(t, status, state, m)
  BY DEF CreateDispatchContext, StartWorker, RetryWorker, NewWorker
<1>2. d # nd + 1
  BY DispatchesAreNat DEF TypeOK
<1>3. dispatch'[d] = dispatch[d] /\ worker'[d] = worker[d]
  BY <1>1, <1>2 DEF NewAttempt, TypeOK
<1> QED BY <1>3, UntouchedIsLegal

LEMMA NextLegal ==
  ASSUME TypeOK, Coherent, Next, NEW d \in Dispatches, d <= nd
  PROVE  LegalStep(d)
<1>1. ASSUME NEW e \in Dispatches, LateEscalation(e) PROVE LegalStep(d)
  BY <1>1, LateEscalationUpdates, UpdateLegal
<1>2. CASE Restart
  <2>1. worker' = worker /\ dispatch' = dispatch
    BY <1>2 DEF Restart, Coherent, WorkerHasAttempt, Active, Supervised, TypeOK
  <2> QED BY <2>1, UntouchedIsLegal
<1> QED BY <1>1, <1>2, NextCases, UpdateLegal, GateAndTaskLegal, CreationLegal, InAttemptLegal

(* No handler asks for an edge outside the lifecycle graph: no call is lost to a throw of
   transitionLifecycleWithDb, and nothing settled is revived but by a stalled prompt's report. *)
THEOREM SettledStays == Spec => SettledStaysSettled
<1>1. Inv /\ [Next]_vars => [\A d \in Dispatches : d <= nd => LegalStep(d)]_vars
  BY NextLegal DEF Inv
<1> QED BY <1>1, InvIsInvariant, PTL DEF Spec, SettledStaysSettled

-----------------------------------------------------------------------------
(* Terminals *)

(* An attempt that is active after a step was active before, or is the new row. *)
LEMMA ActiveBefore ==
  ASSUME TypeOK, Coherent, Next, NEW d \in Dispatches, d <= nd, Active(d)'
  PROVE  Active(d)
<1>1. LegalStep(d)
  BY NextLegal
<1>2. dispatch[d] # "none"
  BY DEF Coherent, Rows
<1>3. dispatch[d] \in DispatchStatuses
  BY <1>2 DEF TypeOK
<1> QED BY <1>1, <1>3 DEF LegalStep, Corrects, LegalDispatchEdge, Active

LEMMA AssigneeKept ==
  ASSUME TypeOK, Coherent, Next
  PROVE  \/ assignee' = assignee
         \/ \E d \in Dispatches, h \in Terminals :
              ~Occupied(h) /\ assignee' = [assignee EXCEPT ![d] = h]
<1>1. ASSUME NEW t \in Tasks, NEW h \in Terminals, CreateDispatchContext(t, h)
      PROVE  ~Occupied(h) /\ nd + 1 \in Dispatches /\ assignee' = [assignee EXCEPT ![nd + 1] = h]
  BY <1>1, DispatchesAreNat DEF CreateDispatchContext, NewAttempt, TypeOK, Dispatches
<1>2. ASSUME NEW d \in Dispatches, InAttempt(d)
      PROVE  \/ assignee' = assignee
             \/ \E h \in Terminals : ~Occupied(h) /\ assignee' = [assignee EXCEPT ![d] = h]
  BY <1>2, ZenonT(60)
  DEF InAttempt, PrepareAuthority, MarkReady, FailWorkerStart, MarkStartUnknown,
      ReconcileFederatedStart, BeginWorkerStop, SettleWorkerStop, MarkStopUnknown,
      ReconcileFederatedStop, ResumeFederated, AbandonWorker, ReleaseContextOnly, WorkerExit,
      FailContextOnly, RecoverMissingTerminal, WorkerReport, CorrectingReport, Ask,
      ImportQuestion, Answer
<1>3. ASSUME \/ \E t \in Tasks : \/ CreateTask(t)
                                 \/ \E s \in TaskStatuses : UpdateTaskStatus(t, s)
                                 \/ \E g \in Gates : CreateGate(g, t)
             \/ \E t \in Tasks, place \in Placements : StartWorker(t, place)
             \/ \E d \in Dispatches, place \in Placements : RetryWorker(d, place)
             \/ \E d \in Dispatches : LateEscalation(d)
             \/ \E g \in Gates : ResolveGate(g)
             \/ ReblockGatedTasks
             \/ Restart
      PROVE  assignee' = assignee
  BY <1>3 DEF CreateTask, UpdateTaskStatus, CreateGate, StartWorker, RetryWorker, NewWorker,
              LateEscalation, ResolveGate, ReblockGatedTasks, Restart
<1> QED BY <1>1, <1>2, <1>3, NextCases

(* A terminal is taken only when no active attempt holds it. *)
LEMMA TerminalStep ==
  ASSUME TypeOK, Coherent, TerminalExclusive, Next
  PROVE  TerminalExclusive'
<1> USE DEF TypeOK
<1>1. \A d \in Dispatches : Active(d)' /\ d <= nd => Active(d)
  BY ActiveBefore
<1>2. \A d \in Dispatches : ~(d <= nd) => assignee[d] = NoTerminal
  BY DispatchesAreNat DEF Coherent, Rows
<1>3. CASE assignee' = assignee
  BY <1>1, <1>2, <1>3 DEF TerminalExclusive
<1>4. ASSUME NEW a \in Dispatches, NEW h \in Terminals, ~Occupied(h),
             assignee' = [assignee EXCEPT ![a] = h]
      PROVE  TerminalExclusive'
  <2> SUFFICES ASSUME NEW d \in Dispatches, NEW e \in Dispatches, Active(d)', Active(e)',
                      assignee'[d] # NoTerminal, assignee'[d] = assignee'[e]
               PROVE  d = e
    BY DEF TerminalExclusive
  <2>1. \A x \in Dispatches \ {a} : Active(x)' /\ assignee'[x] # NoTerminal =>
          Active(x) /\ assignee[x] # NoTerminal /\ assignee'[x] = assignee[x] /\ assignee[x] # h
    BY <1>1, <1>2, <1>4 DEF Occupied
  <2>2. assignee'[a] = h
    BY <1>4
  <2> QED BY <2>1, <2>2 DEF TerminalExclusive
<1> QED BY <1>3, <1>4, AssigneeKept

LEMMA TerminalInit == Init => TerminalExclusive
  BY DEF Init, TerminalExclusive, Active

(* A terminal serves at most one active attempt, supervised or not. *)
THEOREM TerminalsExclusive == Spec => []TerminalExclusive
<1>1. Inv /\ TerminalExclusive /\ [Next]_vars => TerminalExclusive'
  <2> SUFFICES ASSUME Inv, TerminalExclusive, [Next]_vars PROVE TerminalExclusive'
    OBVIOUS
  <2>1. CASE Next
    BY <2>1, TerminalStep DEF Inv
  <2>2. CASE UNCHANGED vars
    BY <2>2 DEF vars, TerminalExclusive, Active
  <2> QED BY <2>1, <2>2
<1> QED BY <1>1, TerminalInit, InvIsInvariant, PTL DEF Spec

-----------------------------------------------------------------------------
(* Questions *)

(* LocalQuestionsAnswerable is not inductive: settling a stop closes no question.  A stop
   closes those it finds and admits none, so under a stop there is none to close. *)
QuestionsHeld ==
  \A d \in openQuestions \ federated : Active(d) /\ worker[d] # "stopping"

LEMMA QuestionInAttempt ==
  ASSUME TypeOK, Coherent, QuestionsHeld, NEW d \in Dispatches, InAttempt(d)
  PROVE  /\ federated' = federated /\ openQuestions' \subseteq openQuestions \cup {d}
         /\ d \in openQuestions' \ federated => Active(d)' /\ worker'[d] # "stopping"
<1> USE DEF TypeOK, SetWorker, CloseQuestions, identity, Active, QuestionsHeld
<1>1. ASSUME NEW outcome \in {"succeeded", "failed"},
             WorkerReport(d, outcome) \/ CorrectingReport(d, outcome)
      PROVE  federated' = federated /\ openQuestions' \subseteq openQuestions \ {d}
  <2>1. CASE WorkerReport(d, outcome)
    <3>1. d \in ActiveOn(taskOf[d])
      BY <2>1 DEF WorkerReport, Reportable, Reconnecting, ReportingStart, ActiveOn
    <3> QED BY <2>1, <3>1 DEF WorkerReport
  <2>2. CASE CorrectingReport(d, outcome)
    BY <2>2 DEF CorrectingReport
  <2> QED BY <1>1, <2>1, <2>2
<1>2. ASSUME \/ \E why \in {"stalled", "other"} : FailWorkerStart(d, why)
             \/ BeginWorkerStop(d) \/ AbandonWorker(d) \/ ReleaseContextOnly(d)
             \/ WorkerExit(d) \/ FailContextOnly(d) \/ RecoverMissingTerminal(d) \/ Answer(d)
      PROVE  federated' = federated /\ openQuestions' \subseteq openQuestions \ {d}
  BY <1>2 DEF FailWorkerStart, BeginWorkerStop, AbandonWorker, ReleaseContextOnly, WorkerExit,
              FailContextOnly, FailActive, RecoverMissingTerminal, Answer
<1>3. ASSUME NEW s \in {"ready", "start_unknown", "failed", "stopped"},
             NEW why \in {"stalled", "other"}, ReconcileFederatedStart(d, s, why)
      PROVE  d \in federated /\ federated' = federated /\ openQuestions' \subseteq openQuestions
  BY <1>3 DEF ReconcileFederatedStart, Federated
<1>4. ASSUME ReconcileFederatedStop(d) \/ ResumeFederated(d) \/ ImportQuestion(d)
      PROVE  /\ d \in federated /\ federated' = federated
             /\ openQuestions' \subseteq openQuestions \cup {d}
  BY <1>4 DEF ReconcileFederatedStop, ResumeFederated, ImportQuestion, Federated
<1>5. ASSUME (\E h \in Terminals : PrepareAuthority(d, h)) \/ MarkReady(d) \/ MarkStartUnknown(d)
             \/ Ask(d)
      PROVE  /\ federated' = federated /\ openQuestions' \subseteq openQuestions \cup {d}
             /\ Active(d)' /\ worker'[d] # "stopping"
  <2>1. Active(d)
    BY <1>5, LiveWorkerFacts
    DEF PrepareAuthority, MarkReady, MarkStartUnknown, Ask, Starting, StartInFlight, Supervised
  <2> QED BY <1>5, <2>1
      DEF PrepareAuthority, MarkReady, MarkStartUnknown, Ask, Starting, StartInFlight
<1>6. ASSUME SettleWorkerStop(d) \/ MarkStopUnknown(d)
      PROVE  /\ federated' = federated /\ openQuestions' = openQuestions
             /\ d \notin openQuestions \ federated
  BY <1>6 DEF SettleWorkerStop, MarkStopUnknown, StopInFlight
<1> QED BY <1>1, <1>2, <1>3, <1>4, <1>5, <1>6 DEF InAttempt

(* Every other step closes the questions of the attempts it settles. *)
LEMMA QuestionElsewhere ==
  ASSUME TypeOK, Coherent, QuestionsHeld,
         \/ \E t \in Tasks : \/ CreateTask(t)
                             \/ \E s \in TaskStatuses : UpdateTaskStatus(t, s)
                             \/ \E g \in Gates : CreateGate(g, t)
         \/ \E g \in Gates : ResolveGate(g)
         \/ ReblockGatedTasks
         \/ Restart
  PROVE  QuestionsHeld'
<1> USE DEF TypeOK, identity, Active, Supervised, QuestionsHeld
<1>1. ASSUME NEW ds, NEW st, SettleDispatches(ds, st), federated' = federated
      PROVE  QuestionsHeld'
  BY <1>1 DEF SettleDispatches
<1>2. ASSUME \/ \E t \in Tasks : CreateTask(t)
             \/ \E g \in Gates : ResolveGate(g)
             \/ ReblockGatedTasks
      PROVE  QuestionsHeld'
  BY <1>2 DEF CreateTask, ResolveGate, ReblockGatedTasks
<1>3. CASE Restart
  BY <1>3 DEF Restart
<1>4. ASSUME NEW t \in Tasks, (\E s \in TaskStatuses : UpdateTaskStatus(t, s))
                              \/ \E g \in Gates : CreateGate(g, t)
      PROVE  QuestionsHeld'
  <2>1. federated' = federated /\ \E ds, st : SettleDispatches(ds, st)
    BY <1>4 DEF UpdateTaskStatus, CreateGate
  <2> QED BY <2>1, <1>1
<1> QED BY <1>2, <1>3, <1>4

LEMMA QuestionCreation ==
  ASSUME TypeOK, Coherent, QuestionsHeld,
         \/ \E t \in Tasks, h \in Terminals : CreateDispatchContext(t, h)
         \/ \E t \in Tasks, place \in Placements : StartWorker(t, place)
         \/ \E d \in Dispatches, place \in Placements : RetryWorker(d, place)
  PROVE  QuestionsHeld'
<1>1. PICK t, status, state, m : NewAttempt(t, status, state, m)
  BY DEF CreateDispatchContext, StartWorker, RetryWorker, NewWorker
<1>2. federated \subseteq federated'
  BY DEF CreateDispatchContext, StartWorker, RetryWorker, NewWorker
<1>3. \A d \in openQuestions : d \in Dispatches /\ d # nd + 1
  BY DispatchesAreNat DEF TypeOK, Coherent, Rows
<1> QED BY <1>1, <1>2, <1>3 DEF QuestionsHeld, NewAttempt, Active, TypeOK

LEMMA QuestionStep ==
  ASSUME TypeOK, Coherent, QuestionsHeld, Next
  PROVE  QuestionsHeld'
<1>1. ASSUME NEW d \in Dispatches, InAttempt(d) PROVE QuestionsHeld'
  <2> SUFFICES ASSUME NEW e \in openQuestions' \ federated'
               PROVE  Active(e)' /\ worker'[e] # "stopping"
    BY DEF QuestionsHeld
  <2>1. e \in Dispatches /\ (e = d \/ e \in openQuestions \ federated)
    BY <1>1, QuestionInAttempt DEF TypeOK
  <2>2. CASE e = d
    BY <1>1, <2>2, QuestionInAttempt
  <2>3. CASE e # d
    BY <1>1, <2>1, <2>3, OthersUntouched DEF QuestionsHeld, Active
  <2> QED BY <2>2, <2>3
<1>2. ASSUME NEW d \in Dispatches, LateEscalation(d) PROVE QuestionsHeld'
  BY <1>2, LateEscalationUpdates, QuestionElsewhere
<1> QED BY <1>1, <1>2, NextCases, QuestionElsewhere, QuestionCreation

(* A local worker's pending question always has an active attempt behind it, so an answer
   still has a reader. *)
THEOREM QuestionsAnswerable == Spec => []LocalQuestionsAnswerable
<1>1. Init => QuestionsHeld
  BY DEF Init, QuestionsHeld
<1>2. Inv /\ QuestionsHeld /\ [Next]_vars => QuestionsHeld'
  <2> SUFFICES ASSUME Inv, QuestionsHeld, [Next]_vars PROVE QuestionsHeld'
    OBVIOUS
  <2>1. CASE Next
    BY <2>1, QuestionStep DEF Inv
  <2>2. CASE UNCHANGED vars
    BY <2>2 DEF vars, QuestionsHeld, Active
  <2> QED BY <2>1, <2>2
<1>3. QuestionsHeld => LocalQuestionsAnswerable
  BY DEF QuestionsHeld, LocalQuestionsAnswerable
<1> QED BY <1>1, <1>2, <1>3, InvIsInvariant, PTL DEF Spec

=============================================================================
