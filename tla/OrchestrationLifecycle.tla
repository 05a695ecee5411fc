------------------------ MODULE OrchestrationLifecycle ------------------------
(***************************************************************************)
(* The orchestration database of the Orca runtime: Tasks, the Dispatches   *)
(* that attempt them, the supervised worker behind a Dispatch, its         *)
(* questions, and the decision gates that block a Task.                    *)
(*                                                                         *)
(* Every handler below runs in one SQLite write transaction on one thread, *)
(* so it is one action; a handler that throws rolls back, so a throwing    *)
(* call is a disabled action.  What interleaves are the asynchronous flows *)
(* around the transactions: the worker start that awaits a launch, the     *)
(* worker stop that awaits a process exit, the exit itself, the worker's   *)
(* report, the operator, a connected server's view, a runtime restart.     *)
(***************************************************************************)
EXTENDS LifecycleStates, Integers

CONSTANTS
  Tasks,          \* the Tasks of one Run
  Deps,           \* Deps[t]: the Tasks t waits for
  Terminals,      \* terminals a Dispatch can be assigned to
  NoTask, NoTerminal,
  Gates,          \* decision gates, numbered in creation order
  MaxDispatches,  \* bound on the attempts ever made
  BreakAt,        \* DISPATCH_CIRCUIT_BREAK_FAILURES
  Placements      \* kinds of attempt: "context", "local", "federated"

ASSUME DepsAssumption == Deps \in [Tasks -> SUBSET Tasks]
ASSUME BoundAssumption == MaxDispatches \in Nat /\ Gates \subseteq Nat
ASSUME BreakAssumption == BreakAt \in Nat \ {0}
ASSUME NoneAssumption == NoTask \notin Tasks /\ NoTerminal \notin Terminals
ASSUME PlacementAssumption == Placements \subseteq {"context", "local", "federated"}

VARIABLES
  task,           \* task[t]: its status, or "none" before it is created
  nd,             \* number of dispatch_contexts rows; ids are rowids 1..nd
  dispatch,       \* dispatch[d]: its status
  taskOf,         \* taskOf[d]: the Task it attempts
  assignee,       \* assignee[d]: the terminal that owns the attempt
  federated,      \* attempts whose worker runs on a connected server
  worker,         \* worker[d]: supervised worker state, "none" when unsupervised
  failures,       \* failures[d]: failure_count
  lastFailure,    \* lastFailure[d]: which kind of last_failure is stored
  ownEpoch,       \* attempts whose worker row carries the running runtime's epoch
  boot,           \* attempts 1..boot existed when the running runtime opened the database
  openQuestions,  \* attempts with a pending question thread
  gate, gateTask  \* gate status, and the Task the gate blocks

vars == <<task, nd, dispatch, taskOf, assignee, federated, worker, failures,
          lastFailure, ownEpoch, boot, openQuestions, gate, gateTask>>

identity == <<nd, taskOf, federated>>
runtime  == <<ownEpoch, boot>>
gates    == <<gate, gateTask>>

Dispatches == 1..MaxDispatches
Failures   == {"none", "stalled", "reported", "other"}

Active(d)     == dispatch[d] \in ActiveDispatch
(* Fault: a worker row counts as live whatever its state. *)
SupervisedByRow(d) == worker[d] # "none"
Supervised(d) == worker[d] \in LiveWorker
ActiveOn(t)   == {d \in Dispatches : taskOf[d] = t /\ Active(d)}
Latest(d)     == \A e \in Dispatches : taskOf[e] = taskOf[d] => e <= d

(* Fault: only a ready worker defends its Task. *)
ReadyWorkerOwns(t) == \E d \in ActiveOn(t) : worker[d] = "ready"

(* An active attempt of t that still has a live supervised worker. *)
WorkerOwns(t) == \E d \in ActiveOn(t) : Supervised(d)

OthersActive(d) == ActiveOn(taskOf[d]) \ {d} # {}
DepsCompleted(t) == \A u \in Deps[t] : task[u] = "completed"

(* Fault: a terminal reserved by a start that is still pending counts as free. *)
OccupiedOnceDispatched(h) == \E d \in Dispatches : assignee[d] = h /\ dispatch[d] = "dispatched"

Occupied(h) == \E d \in Dispatches : assignee[d] = h /\ Active(d)

Init ==
  /\ task = [t \in Tasks |-> "none"]
  /\ nd = 0
  /\ dispatch = [d \in Dispatches |-> "none"]
  /\ taskOf = [d \in Dispatches |-> NoTask]
  /\ assignee = [d \in Dispatches |-> NoTerminal]
  /\ federated = {}
  /\ worker = [d \in Dispatches |-> "none"]
  /\ failures = [d \in Dispatches |-> 0]
  /\ lastFailure = [d \in Dispatches |-> "none"]
  /\ ownEpoch = {}
  /\ boot = 0
  /\ openQuestions = {}
  /\ gate = [g \in Gates |-> "none"]
  /\ gateTask = [g \in Gates |-> NoTask]

-----------------------------------------------------------------------------
(* What the transactions are built from *)

(* Fault: the dependencies are read as they were before t completed. *)
PromoteOnStaleRead(tk, t) ==
  [u \in Tasks |->
     IF tk[u] = "pending" /\ t \in Deps[u] /\ \A v \in Deps[u] : task[v] = "completed"
     THEN "ready" ELSE tk[u]]

(* tk after the pending Tasks that waited for t, and now wait for nothing, became ready *)
PromoteReadyTasks(tk, t) ==
  [u \in Tasks |->
     IF tk[u] = "pending" /\ t \in Deps[u] /\ \A v \in Deps[u] : tk[v] = "completed"
     THEN "ready" ELSE tk[u]]

(* settleActiveDispatchesForTask: every attempt of ds settled with status st; a live
   worker is abandoned with it. *)
SettleDispatches(ds, st) ==
  /\ dispatch' = [d \in Dispatches |-> IF d \in ds THEN st ELSE dispatch[d]]
  /\ lastFailure' = [d \in Dispatches |->
                       IF d \in ds /\ st = "failed" THEN "other" ELSE lastFailure[d]]
  /\ worker' = [d \in Dispatches |->
                  IF d \in ds /\ Supervised(d) THEN "abandoned" ELSE worker[d]]
  /\ openQuestions' = openQuestions \ ds

(* Fault: the branches are swapped. *)
ReconcileSwapped(d) ==
  [task EXCEPT ![taskOf[d]] =
     IF @ \notin {"dispatched", "blocked"} THEN @
     ELSE IF OthersActive(d) THEN "blocked" ELSE "dispatched"]

ReconcileInterrupted(d) ==
  [task EXCEPT ![taskOf[d]] =
     IF @ \notin {"dispatched", "blocked"} THEN @
     ELSE IF OthersActive(d) THEN "dispatched" ELSE "blocked"]

(* Fault: one failure too many. *)
BrokenPastLimit(d) == IF failures[d] + 1 > BreakAt THEN "circuit_broken" ELSE "failed"

BrokenOrFailed(d) == IF failures[d] + 1 >= BreakAt THEN "circuit_broken" ELSE "failed"

(* A failure the circuit breaker counts. *)
CountFailure(d, why) ==
  /\ dispatch' = [dispatch EXCEPT ![d] = BrokenOrFailed(d)]
  /\ failures' = [failures EXCEPT ![d] = @ + 1]
  /\ lastFailure' = [lastFailure EXCEPT ![d] = why]

(* Fault: a start still pending is not settled. *)
SettleDispatchedOnly(d, why) ==
  /\ dispatch' = [dispatch EXCEPT ![d] = IF @ = "dispatched" THEN "failed" ELSE @]
  /\ lastFailure' = [lastFailure EXCEPT ![d] = IF Active(d) THEN why ELSE @]
  /\ UNCHANGED failures

(* A settlement outside the breaker: the attempt, if still active, fails uncounted. *)
SettleUncounted(d, why) ==
  /\ dispatch' = [dispatch EXCEPT ![d] = IF Active(d) THEN "failed" ELSE @]
  /\ lastFailure' = [lastFailure EXCEPT ![d] = IF Active(d) THEN why ELSE @]
  /\ UNCHANGED failures

SetWorker(d, s) == worker' = [worker EXCEPT ![d] = s]
CloseQuestions(d) == openQuestions' = openQuestions \ {d}

(* failDispatch on an active attempt: only a dispatched Task is reopened or failed. *)
FailActive(d) ==
  /\ CountFailure(d, "other")
  /\ task' = [task EXCEPT ![taskOf[d]] =
                IF @ = "dispatched" /\ ~OthersActive(d)
                THEN IF BrokenOrFailed(d) = "circuit_broken" THEN "failed" ELSE "ready"
                ELSE @]
  /\ CloseQuestions(d)

-----------------------------------------------------------------------------
(* Tasks *)

InitialStatus(t) == IF DepsCompleted(t) THEN "ready" ELSE "pending"
Creatable(t) == task[t] = "none" /\ \A u \in Deps[t] : task[u] # "none"

CreateTask(t) ==
  /\ Creatable(t)
  /\ task' = [task EXCEPT ![t] = InitialStatus(t)]
  /\ UNCHANGED <<identity, dispatch, assignee, worker, failures, lastFailure, runtime,
                 openQuestions, gates>>

(* The operator's task-update, and every status write of the coordinator. *)
MayUpdateTask(t, s) ==
  /\ task[t] # "none"
  /\ s \in {"completed", "failed"} => ~WorkerOwns(t)
  /\ s = "dispatched" => ActiveOn(t) # {} /\ (task[t] # "dispatched" => ~WorkerOwns(t))
  /\ s \notin {"completed", "failed", "dispatched"} => ActiveOn(t) = {}

UpdateTaskStatus(t, s) ==
  /\ MayUpdateTask(t, s)
  /\ LET updated == [task EXCEPT ![t] = s]
     IN task' = IF s = "completed" THEN PromoteReadyTasks(updated, t) ELSE updated
  /\ SettleDispatches(IF s \in {"completed", "failed"} THEN ActiveOn(t) ELSE {}, s)
  /\ UNCHANGED <<identity, assignee, failures, runtime, gates>>

-----------------------------------------------------------------------------
(* New attempts *)

(* The row of a new attempt of t, which takes the Task over. *)
NewAttempt(t, status, state, fails) ==
  /\ nd < MaxDispatches
  /\ nd' = nd + 1
  /\ taskOf' = [taskOf EXCEPT ![nd + 1] = t]
  /\ dispatch' = [dispatch EXCEPT ![nd + 1] = status]
  /\ worker' = [worker EXCEPT ![nd + 1] = state]
  /\ failures' = [failures EXCEPT ![nd + 1] = fails]
  /\ task' = [task EXCEPT ![t] = "dispatched"]
  /\ UNCHANGED <<lastFailure, boot, openQuestions, gates>>

(* An unsupervised attempt on a terminal; its count continues the Task's highest. *)
CreateDispatchContext(t, h) ==
  /\ "context" \in Placements
  /\ task[t] = "ready"
  /\ ~Occupied(h)
  /\ \E m \in {0} \cup {failures[e] : e \in {x \in Dispatches : taskOf[x] = t}} :
       /\ \A e \in Dispatches : taskOf[e] = t => failures[e] <= m
       /\ NewAttempt(t, "dispatched", "none", m)
  /\ assignee' = [assignee EXCEPT ![nd + 1] = h]
  /\ UNCHANGED <<federated, ownEpoch>>

(* A supervised attempt is accepted here; the launch itself is awaited. *)
NewWorker(t, place, fails) ==
  /\ place \in Placements \ {"context"}
  /\ NewAttempt(t, "pending", "starting", fails)
  /\ federated' = IF place = "federated" THEN federated \cup {nd + 1} ELSE federated
  /\ ownEpoch' = ownEpoch \cup {nd + 1}
  /\ UNCHANGED assignee

(* worker-start; with --spec it creates the Task in the same transaction. *)
StartWorker(t, place) ==
  /\ task[t] = "ready" \/ (Creatable(t) /\ DepsCompleted(t))
  /\ NewWorker(t, place, 0)

(* Fault: a start or a stop nobody has proven counts as settled. *)
RetryUnprovenWorker(prior, place) ==
  /\ prior <= nd
  /\ dispatch[prior] # "circuit_broken"
  /\ Latest(prior)
  /\ IF worker[prior] = "none" THEN dispatch[prior] = "failed"
     ELSE worker[prior] \in {"failed", "stopped", "abandoned"} \cup UnprovenWorker
  /\ task[taskOf[prior]] \in {"failed", "blocked"}
  /\ NewWorker(taskOf[prior], place, failures[prior])

(* worker-start --retry-of prior *)
RetryWorker(prior, place) ==
  /\ prior <= nd
  /\ dispatch[prior] # "circuit_broken"
  /\ Latest(prior)
  /\ IF worker[prior] = "none" THEN dispatch[prior] = "failed"
     ELSE worker[prior] \in {"failed", "stopped", "abandoned"}
  /\ task[taskOf[prior]] \in {"failed", "blocked"}
  /\ NewWorker(taskOf[prior], place, failures[prior])

-----------------------------------------------------------------------------
(* The start flow, from the accepted row to its outcome *)

Starting(d) == worker[d] = "starting"
StartInFlight(d) == Starting(d) /\ d \in ownEpoch
Federated(d) == d \in federated

PrepareAuthority(d, h) ==
  /\ StartInFlight(d) /\ ~Federated(d)
  /\ dispatch[d] = "pending"
  /\ assignee[d] = NoTerminal
  /\ ~Occupied(h)
  /\ assignee' = [assignee EXCEPT ![d] = h]
  /\ UNCHANGED <<identity, task, dispatch, worker, failures, lastFailure, runtime,
                 openQuestions, gates>>

MarkReady(d) ==
  /\ StartInFlight(d)
  /\ dispatch[d] = "pending"
  /\ Federated(d) \/ assignee[d] # NoTerminal
  /\ dispatch' = [dispatch EXCEPT ![d] = "dispatched"]
  /\ SetWorker(d, "ready")
  /\ UNCHANGED <<identity, task, assignee, failures, lastFailure, runtime, openQuestions, gates>>

(* The start did not run, or its prompt was never seen to begin ("stalled"). *)
FailWorkerStart(d, why) ==
  /\ StartInFlight(d)
  /\ CountFailure(d, why)
  /\ SetWorker(d, "failed")
  /\ task' = [task EXCEPT ![taskOf[d]] =
                IF @ # "completed" /\ ~OthersActive(d) THEN "failed" ELSE @]
  /\ CloseQuestions(d)
  /\ UNCHANGED <<identity, assignee, runtime, gates>>

(* The flow cannot tell; or worker-show meets a local start an earlier runtime left behind. *)
MarkStartUnknown(d) ==
  /\ Starting(d)
  /\ d \in ownEpoch \/ ~Federated(d)
  /\ task[taskOf[d]] = "dispatched"
  /\ SetWorker(d, "start_unknown")
  /\ task' = [task EXCEPT ![taskOf[d]] = "blocked"]
  /\ UNCHANGED <<identity, dispatch, assignee, failures, lastFailure, runtime,
                 openQuestions, gates>>

(* worker-show of a federated attempt relays the server's view of the start. *)
ReconcileFederatedStart(d, s, why) ==
  /\ Federated(d)
  /\ worker[d] \in {"starting", "start_unknown"}
  /\ SetWorker(d, s)
  /\ \/ /\ s = "ready"
        /\ dispatch' = [dispatch EXCEPT ![d] = IF @ = "pending" THEN "dispatched" ELSE @]
        /\ task' = [task EXCEPT ![taskOf[d]] = IF @ = "blocked" THEN "dispatched" ELSE @]
        /\ UNCHANGED <<failures, lastFailure, openQuestions>>
     \/ /\ s = "start_unknown"
        /\ task' = [task EXCEPT ![taskOf[d]] = IF @ = "dispatched" THEN "blocked" ELSE @]
        /\ UNCHANGED <<dispatch, failures, lastFailure, openQuestions>>
     \/ /\ s \in {"failed", "stopped"}
        /\ SettleUncounted(d, why)
        /\ task' = [task EXCEPT ![taskOf[d]] =
                      IF @ \notin {"dispatched", "blocked"} THEN @
                      ELSE IF OthersActive(d) THEN "dispatched" ELSE "failed"]
        /\ CloseQuestions(d)
  /\ UNCHANGED <<identity, assignee, runtime, gates>>

-----------------------------------------------------------------------------
(* Stop, abandon, release *)

StopInFlight(d) == worker[d] = "stopping" /\ d \in ownEpoch

(* worker-stop: a stop stranded by another runtime may be issued again. *)
BeginWorkerStop(d) ==
  /\ worker[d] \in {"ready", "start_unknown"} \/ (worker[d] = "stopping" /\ d \notin ownEpoch)
  /\ SetWorker(d, "stopping")
  /\ ownEpoch' = ownEpoch \cup {d}
  /\ task' = ReconcileInterrupted(d)
  /\ CloseQuestions(d)
  /\ UNCHANGED <<identity, dispatch, assignee, failures, lastFailure, boot, gates>>

(* The stop is proven: the flow saw the process end, or the exit event came first. *)
SettleWorkerStop(d) ==
  /\ StopInFlight(d) /\ ~Federated(d)
  /\ SetWorker(d, "stopped")
  /\ SettleUncounted(d, "other")
  /\ task' = ReconcileInterrupted(d)
  /\ UNCHANGED <<identity, assignee, runtime, openQuestions, gates>>

(* The flow has no proof; or worker-show meets a local stop an earlier runtime left behind. *)
MarkStopUnknown(d) ==
  /\ worker[d] = "stopping"
  /\ d \in ownEpoch \/ ~Federated(d)
  /\ SetWorker(d, "stop_unknown")
  /\ UNCHANGED <<identity, task, dispatch, assignee, failures, lastFailure, runtime,
                 openQuestions, gates>>

(* The connected server says stopped, to the stop itself or to a later worker-show. *)
ReconcileFederatedStop(d) ==
  /\ Federated(d)
  /\ worker[d] \in {"stopping", "stop_unknown"}
  /\ SetWorker(d, "stopped")
  /\ SettleUncounted(d, "other")
  /\ task' = ReconcileInterrupted(d)
  /\ UNCHANGED <<identity, assignee, runtime, openQuestions, gates>>

(* The connected server says the worker had already reported: wait for the report. *)
ResumeFederated(d) ==
  /\ Federated(d) /\ StopInFlight(d)
  /\ SetWorker(d, "ready")
  /\ task' = [task EXCEPT ![taskOf[d]] = IF @ = "blocked" THEN "dispatched" ELSE @]
  /\ UNCHANGED <<identity, dispatch, assignee, failures, lastFailure, runtime,
                 openQuestions, gates>>

(* worker-abandon refuses only a stop this runtime still has in flight. *)
AbandonWorker(d) ==
  /\ Supervised(d)
  /\ ~StopInFlight(d)
  /\ SetWorker(d, "abandoned")
  /\ SettleUncounted(d, "other")
  /\ task' = ReconcileInterrupted(d)
  /\ CloseQuestions(d)
  /\ UNCHANGED <<identity, assignee, runtime, gates>>

(* worker-stop and worker-abandon of an attempt without a worker *)
ReleaseContextOnly(d) ==
  /\ worker[d] = "none" /\ Active(d)
  /\ SettleUncounted(d, "other")
  /\ task' = [task EXCEPT ![taskOf[d]] =
                IF @ = "dispatched" /\ ~OthersActive(d) THEN "blocked" ELSE @]
  /\ CloseQuestions(d)
  /\ UNCHANGED <<identity, assignee, worker, runtime, gates>>

-----------------------------------------------------------------------------
(* Failures the runtime or the worker observes *)

(* Fault: the exit of a process a stop is ending counts as a crash. *)
ExitUnderStop(d) ==
  /\ Active(d) /\ assignee[d] # NoTerminal
  /\ FailActive(d)
  /\ worker' = [worker EXCEPT ![d] = IF @ = "none" THEN @ ELSE "failed"]
  /\ UNCHANGED <<identity, assignee, runtime, gates>>

(* The agent's terminal exits under an active attempt that no stop of ours is ending. *)
WorkerExit(d) ==
  /\ Active(d) /\ assignee[d] # NoTerminal
  /\ ~StopInFlight(d)
  /\ FailActive(d)
  /\ worker' = [worker EXCEPT ![d] = IF @ = "none" THEN @ ELSE "failed"]
  /\ UNCHANGED <<identity, assignee, runtime, gates>>

(* The preamble of an unsupervised attempt is not delivered, or its agent escalates. *)
FailContextOnly(d) ==
  /\ Active(d) /\ worker[d] = "none"
  /\ FailActive(d)
  /\ UNCHANGED <<identity, assignee, worker, runtime, gates>>

(* A late escalation for an attempt whose breaker already tripped fails its Task again. *)
LateEscalation(d) ==
  /\ dispatch[d] = "circuit_broken" /\ ~Supervised(d)
  /\ assignee[d] # NoTerminal
  /\ task[taskOf[d]] \notin {"completed", "failed"}
  /\ UpdateTaskStatus(taskOf[d], "failed")

(* Startup recovery finds no live terminal behind a worker of an earlier runtime.  The
   attempt of a live worker is active (WorkerHasAttempt), so that is the only branch. *)
RecoverMissingTerminal(d) ==
  /\ d <= boot /\ ~Federated(d)
  /\ Supervised(d) /\ Active(d)
  /\ CountFailure(d, "other")
  /\ IF worker[d] \in {"stopping", "stop_unknown"}
     THEN SetWorker(d, "stopped") /\ UNCHANGED task
     ELSE /\ SetWorker(d, "abandoned")
          /\ task' = [task EXCEPT ![taskOf[d]] =
                        IF @ \notin {"dispatched", "blocked"} THEN @
                        ELSE IF OthersActive(d) THEN "dispatched"
                        ELSE IF BrokenOrFailed(d) = "circuit_broken" THEN "failed"
                        ELSE "ready"]
  /\ CloseQuestions(d)
  /\ UNCHANGED <<identity, assignee, runtime, gates>>

-----------------------------------------------------------------------------
(* The worker's own report *)

Owned(d) == Federated(d) \/ assignee[d] # NoTerminal

UnobservedPrompt(d) ==
  /\ dispatch[d] \in {"failed", "circuit_broken"}
  /\ lastFailure[d] = "stalled"
  /\ task[taskOf[d]] = "failed"

Reconnecting(d) == Active(d) /\ task[taskOf[d]] = "blocked" /\ worker[d] \in UnprovenWorker
ReportingStart(d) == dispatch[d] = "pending" /\ task[taskOf[d]] = "dispatched" /\ Starting(d)
Reportable(d) ==
  \/ Reconnecting(d)
  \/ ReportingStart(d)
  \/ dispatch[d] = "dispatched" /\ task[taskOf[d]] = "dispatched"

SiblingWorkerOwns(d) == \E e \in ActiveOn(taskOf[d]) \ {d} : Supervised(e)

(* Which worker states a report of each outcome may settle; "none" has no row to settle. *)
SettlesWorker(d, outcome) ==
  \/ worker[d] = "none" /\ \A e \in ActiveOn(taskOf[d]) : e <= d
  \/ worker[d] \in {"ready"} \cup UnprovenWorker
  \/ Starting(d) /\ (outcome = "failed" \/ ReportingStart(d))

TaskReported(t, outcome) ==
  IF outcome = "succeeded" THEN PromoteReadyTasks([task EXCEPT ![t] = "completed"], t)
  ELSE [task EXCEPT ![t] = "failed"]

(* Fault: the worker's outcome is stored as the status of its attempt. *)
OutcomeAsStatus(outcome) == outcome

DispatchStatusOf(outcome) == IF outcome = "succeeded" THEN "completed" ELSE "failed"

(* The report settles the attempt, its worker, its Task and any other active attempt. *)
WorkerReport(d, outcome) ==
  /\ Owned(d) /\ Reportable(d)
  /\ ~SiblingWorkerOwns(d)
  /\ SettlesWorker(d, outcome)
  /\ LET settled == ActiveOn(taskOf[d]) IN
       /\ dispatch' = [e \in Dispatches |->
                         IF e \in settled THEN DispatchStatusOf(outcome) ELSE dispatch[e]]
       /\ lastFailure' = [e \in Dispatches |->
                            IF e \in settled /\ outcome = "failed" THEN "reported"
                            ELSE lastFailure[e]]
       /\ openQuestions' = openQuestions \ settled
  /\ worker' = [worker EXCEPT ![d] = IF @ = "none" THEN @ ELSE outcome]
  /\ task' = TaskReported(taskOf[d], outcome)
  /\ UNCHANGED <<identity, assignee, failures, runtime, gates>>

(* A prompt recorded as stalled may have been running all along: its report corrects the
   record of an attempt, a worker and a Task that had already failed. *)
CorrectingReport(d, outcome) ==
  /\ Owned(d) /\ UnobservedPrompt(d)
  /\ ~SiblingWorkerOwns(d)
  /\ worker[d] = "failed"
  /\ IF outcome = "succeeded"
     THEN /\ dispatch' = [dispatch EXCEPT ![d] = "completed"]
          /\ UNCHANGED lastFailure
     ELSE /\ lastFailure' = [lastFailure EXCEPT ![d] = "reported"]
          /\ UNCHANGED dispatch
  /\ SetWorker(d, outcome)
  /\ task' = TaskReported(taskOf[d], outcome)
  /\ CloseQuestions(d)
  /\ UNCHANGED <<identity, assignee, failures, runtime, gates>>

-----------------------------------------------------------------------------
(* Questions *)

(* Fault: a question is accepted while the stop that closed the others is in flight. *)
AskUnderStop(d) ==
  /\ Active(d) /\ assignee[d] # NoTerminal
  /\ openQuestions' = openQuestions \cup {d}
  /\ UNCHANGED <<identity, task, dispatch, assignee, worker, failures, lastFailure, runtime,
                 gates>>

(* A local worker asks; only a stop in flight mutes it. *)
Ask(d) ==
  /\ Active(d) /\ assignee[d] # NoTerminal
  /\ worker[d] # "stopping"
  /\ openQuestions' = openQuestions \cup {d}
  /\ UNCHANGED <<identity, task, dispatch, assignee, worker, failures, lastFailure, runtime,
                 gates>>

(* The relay imports a question of a remote worker, whatever became of the attempt here. *)
ImportQuestion(d) ==
  /\ Federated(d)
  /\ openQuestions' = openQuestions \cup {d}
  /\ UNCHANGED <<identity, task, dispatch, assignee, worker, failures, lastFailure, runtime,
                 gates>>

Answer(d) ==
  /\ d \in openQuestions
  /\ CloseQuestions(d)
  /\ UNCHANGED <<identity, task, dispatch, assignee, worker, failures, lastFailure, runtime,
                 gates>>

-----------------------------------------------------------------------------
(* Decision gates *)

(* Opened by the operator, or by the coordinator for the unsupervised agent that asks. *)
CreateGate(g, t) ==
  /\ gate[g] = "none" /\ \A h \in Gates : h < g => gate[h] # "none"
  /\ task[t] # "none"
  /\ ~WorkerOwns(t)
  /\ gate' = [gate EXCEPT ![g] = "pending"]
  /\ gateTask' = [gateTask EXCEPT ![g] = t]
  /\ task' = [task EXCEPT ![t] = "blocked"]
  /\ SettleDispatches(ActiveOn(t), "completed")
  /\ UNCHANGED <<identity, assignee, failures, runtime>>

(* No status guard: a resolved gate may be resolved again. *)
ResolveGate(g) ==
  /\ gate[g] # "none"
  /\ MayUpdateTask(gateTask[g], "ready")
  /\ gate' = [gate EXCEPT ![g] = "resolved"]
  /\ task' = [task EXCEPT ![gateTask[g]] = "ready"]
  /\ UNCHANGED <<identity, dispatch, assignee, worker, failures, lastFailure, runtime,
                 openQuestions, gateTask>>

(* The coordinator's tick re-blocks gated Tasks in gate order until one update throws. *)
Unblocked(g) == gate[g] = "pending" /\ task[gateTask[g]] # "blocked"
ReblockThrows(g) == Unblocked(g) /\ ActiveOn(gateTask[g]) # {}

ReblockGatedTasks ==
  LET reblocked == {gateTask[g] : g \in {h \in Gates : Unblocked(h) /\
                                          \A k \in Gates : k <= h => ~ReblockThrows(k)}}
  IN /\ reblocked # {}
     /\ task' = [t \in Tasks |-> IF t \in reblocked THEN "blocked" ELSE task[t]]
     /\ UNCHANGED <<identity, dispatch, assignee, worker, failures, lastFailure, runtime,
                    openQuestions, gates>>

-----------------------------------------------------------------------------
(* The runtime stops, crashes or not, and another opens the database and repairs it. *)
Restart ==
  /\ ownEpoch' = {}
  /\ boot' = nd
  /\ worker' = [d \in Dispatches |->
                  IF Supervised(d) /\ dispatch[d] \in SettledDispatch THEN "abandoned"
                  ELSE worker[d]]
  /\ UNCHANGED <<identity, task, dispatch, assignee, failures, lastFailure, openQuestions, gates>>

-----------------------------------------------------------------------------
Next ==
  \/ \E t \in Tasks :
       \/ CreateTask(t)
       \/ \E s \in TaskStatuses : UpdateTaskStatus(t, s)
       \/ \E h \in Terminals : CreateDispatchContext(t, h)
       \/ \E place \in Placements : StartWorker(t, place)
       \/ \E g \in Gates : CreateGate(g, t)
  \/ \E d \in Dispatches :
       \/ \E place \in Placements : RetryWorker(d, place)
       \/ \E h \in Terminals : PrepareAuthority(d, h)
       \/ MarkReady(d)
       \/ \E why \in {"stalled", "other"} : FailWorkerStart(d, why)
       \/ MarkStartUnknown(d)
       \/ \E s \in {"ready", "start_unknown", "failed", "stopped"}, why \in {"stalled", "other"} :
            ReconcileFederatedStart(d, s, why)
       \/ BeginWorkerStop(d)
       \/ SettleWorkerStop(d)
       \/ MarkStopUnknown(d)
       \/ ReconcileFederatedStop(d)
       \/ ResumeFederated(d)
       \/ AbandonWorker(d)
       \/ ReleaseContextOnly(d)
       \/ WorkerExit(d)
       \/ FailContextOnly(d)
       \/ LateEscalation(d)
       \/ RecoverMissingTerminal(d)
       \/ \E outcome \in {"succeeded", "failed"} :
            WorkerReport(d, outcome) \/ CorrectingReport(d, outcome)
       \/ Ask(d)
       \/ ImportQuestion(d)
       \/ Answer(d)
  \/ \E g \in Gates : ResolveGate(g)
  \/ ReblockGatedTasks
  \/ Restart

Spec == Init /\ [][Next]_vars

-----------------------------------------------------------------------------
(* Properties *)

(* Every column holds a value of its type. *)
TypeOK ==
  /\ task \in [Tasks -> TaskStatuses \cup {"none"}]
  /\ nd \in 0..MaxDispatches
  /\ dispatch \in [Dispatches -> DispatchStatuses \cup {"none"}]
  /\ taskOf \in [Dispatches -> Tasks \cup {NoTask}]
  /\ assignee \in [Dispatches -> Terminals \cup {NoTerminal}]
  /\ federated \subseteq Dispatches
  /\ worker \in [Dispatches -> WorkerStates \cup {"none"}]
  /\ failures \in [Dispatches -> Nat]
  /\ lastFailure \in [Dispatches -> Failures]
  /\ ownEpoch \subseteq Dispatches
  /\ boot \in 0..MaxDispatches
  /\ openQuestions \subseteq Dispatches
  /\ gate \in [Gates -> {"none", "pending", "resolved"}]
  /\ gateTask \in [Gates -> Tasks \cup {NoTask}]

(* A Task is held by at most one active attempt, and that is its latest one.  Dispatch,
   fresh start and retry each read different columns to decide whether a Task is free. *)
OneAttemptPerTask ==
  \A d \in Dispatches : Active(d) => Latest(d)

(* The Task's status says what its attempt is doing: dispatched while an attempt runs,
   blocked while the start or the stop of its worker is unproven, and neither ready nor
   settled under either.  Five handlers keep this by hand. *)
Interrupted(d) == worker[d] \in {"stopping"} \cup UnprovenWorker

TaskFollowsAttempt ==
  \A t \in Tasks :
    /\ task[t] = "dispatched" => ActiveOn(t) # {}
    /\ \A d \in ActiveOn(t) :
         task[t] = IF Interrupted(d) THEN "blocked" ELSE "dispatched"

(* A supervised worker is live exactly as long as its attempt is active: no settlement
   leaves a live worker behind, and no worker settles and leaves its attempt open. *)
WorkerHasAttempt ==
  \A d \in Dispatches : Supervised(d) <=> Active(d) /\ worker[d] # "none"

(* A terminal serves one active attempt. *)
TerminalExclusive ==
  \A d, e \in Dispatches :
    /\ Active(d) /\ Active(e)
    /\ assignee[d] # NoTerminal /\ assignee[d] = assignee[e]
    => d = e

(* A question still pending belongs to an attempt that can be answered (for attempts on
   this machine): a stop closes what it found, admits none, and so settles clean. *)
LocalQuestionsAnswerable ==
  \A d \in openQuestions \ federated : Active(d)

(* The breaker bounds retry: among supervised attempts only, none runs once its chain has
   BreakAt counted failures. *)
RetriesEndAtBreaker ==
  \A d \in Dispatches :
    Active(d) /\ (\A e \in Dispatches : taskOf[e] = taskOf[d] => worker[e] # "none")
    => failures[d] < BreakAt

(* No handler asks for an edge the lifecycle graph refuses, which would throw and lose the
   call.  The one exception is the report that corrects a stalled prompt; a report of an
   unproven or starting worker passes through ready. *)
Corrects(d) ==
  /\ dispatch[d] \in {"failed", "circuit_broken"} /\ dispatch'[d] = "completed"
  /\ worker[d] = "failed" /\ worker'[d] = "succeeded"
  /\ lastFailure[d] = "stalled"
  /\ task[taskOf[d]] = "failed" /\ task'[taskOf[d]] = "completed"

LegalStep(d) ==
  \/ Corrects(d)
  \/ /\ LegalDispatchEdge(dispatch[d], dispatch'[d])
     /\ IF worker[d] = "none" THEN worker'[d] = "none"
        ELSE \/ LegalWorkerEdge(worker[d], worker'[d])
             \/ LegalWorkerEdge(worker[d], "ready") /\ worker'[d] = "succeeded"

SettledStaysSettled ==
  [][\A d \in Dispatches : d <= nd => LegalStep(d)]_vars

(* Under a live worker only that worker's own success completes the Task. *)
CompletionNeedsItsWorker ==
  [][\A t \in Tasks, d \in Dispatches :
       /\ d \in ActiveOn(t) /\ Supervised(d)
       /\ task[t] # "completed" /\ task'[t] = "completed"
       => worker'[d] = "succeeded"]_vars

(* The step that completes the last dependency of a pending Task makes it ready. *)
DependentsReleased ==
  [][\A t \in Tasks :
       task[t] = "pending" /\ ~DepsCompleted(t) /\ DepsCompleted(t)' => task'[t] = "ready"]_vars

(* A stop this runtime has in flight on a local worker ends stopped or stop_unknown: no
   exit, report, abandon or recovery turns the operator's stop into a crash. *)
OwnStopEndsHonestly ==
  [][\A d \in Dispatches \ federated :
       StopInFlight(d) => worker'[d] \in {"stopping", "stopped", "stop_unknown"}]_vars

-----------------------------------------------------------------------------
(* The promise of TaskLease, under the mapping that reads a Task's phase from its status and
   its lease from the attempts active on it. *)

Phase(t) ==
  CASE task[t] = "none"       -> "absent"
    [] task[t] = "completed"  -> "succeeded"
    [] task[t] = "failed"     -> "failed"
    [] task[t] = "dispatched" -> "running"
    [] task[t] = "blocked" /\ ActiveOn(t) # {} -> "unproven"
    [] OTHER -> "open"

Lease == INSTANCE TaskLease WITH
           phase   <- [t \in Tasks |-> Phase(t)],
           holders <- [t \in Tasks |-> ActiveOn(t)],
           issued  <- nd

(* Every handler is one step of the lease of one Task, or changes no lease. *)
ImplementsLease == Lease!Spec

-----------------------------------------------------------------------------
(* Statements of the documentation that the code does not keep *)

(* "only a stop in flight mutes" a worker's report: the report of a ready worker settles.
   A stop begun while the start was unproven, then resumed, leaves the attempt pending. *)
ReadyWorkerCanReport ==
  \A d \in Dispatches : worker[d] = "ready" => Reportable(d)

(* "Failed worker-start attempts count across --retry-of": a worker that fails without
   having reported adds one failure.  A failure learnt from the connected server does not. *)
FailedStartsCount ==
  [][\A d \in Dispatches :
       /\ worker[d] \in {"starting", "start_unknown"} /\ worker'[d] = "failed"
       /\ lastFailure'[d] # "reported"
       => failures'[d] = failures[d] + 1]_vars

=============================================================================
