# Orca, verified in part

TLA+ models of the parts of Orca whose correctness depends on the order of concurrent steps: TLC
checks them on small instances, and TLAPS proves what matters most for every instance.

Orca is an IDE for running several coding agents at once: an Electron desktop app, a mobile
companion, a headless server (`orcad`) and a cloud relay.  Paths below are relative to the
repository; `ORC` stands for `src/main/runtime/orchestration`.

## 1. Inventory

| Component | State it keeps | Operations | What makes it correct |
|---|---|---|---|
| **Orchestration lifecycle** `ORC/db` | Tasks with dependencies, Dispatches (attempts), supervised workers, questions, decision gates; SQLite | task create/update, dispatch, worker start/retry/stop/abandon/report, exit, recovery, gates, questions | one attempt per Task, Task status agrees with the attempt, settled stays settled, failures counted to the breaker |
| **Coordinator loop** `ORC/coordinator*.ts` | message cursor, mode | a tick: read messages, open gates, triage escalations, dispatch ready Tasks, converge | no Task stays ready with a free terminal; converges only when nothing is left |
| **Worker supervision** `src/main/runtime/rpc/methods/orchestration/worker`, `.../terminal/layout` | terminals, processes, runtime epoch | launch, prompt, observe, kill, exit event, recovery at start | an outcome is only claimed with proof, else `*_unknown` |
| **Mailbox delivery** `ORC/db/messages`, `ORC/mailbox-*.ts` | messages with their pointer reservation, Deliveries, consumer generation; in memory flights, watermark, parked deliveries, waiters | send, check, acknowledge, wait, take over, point at the pane, press Enter, retire | unread mail is the present consumer's and read in whole batches, no coordinator at rest is left untold, nothing is announced by a second Enter |
| **Federation relay** `ORC/federation-*.ts`, `ORC/db/federation` | per attempt: queue at the worker's server, imported and acknowledged sequence at home, epoch and capability caches | enqueue, pull, import, acknowledge with settlement, replay, stop, show | mail in order and once, nothing acknowledged unseen, one outcome on both servers, and in the end |
| **Mutation receipts** `ORC/db/mutation-receipts` | receipts by request id | reserve, complete, replay, evict | a retried request never executes twice |
| **Worker terminals** `ORC/db/worker-terminal` | owner, release state, archive | acquire, release, transfer, user takeover | no terminal released under a live worker |
| **Push gateway** `cloud/apps/push` | events, recipients, dismissals, deliveries with leases | accept, dismiss, claim, renew, finish, retry, prune | one send in flight per device, in order, the dismissal last |
| **Relay fence broker** `cloud/apps/relay-fence-broker` | one object with a generation | acquire, run, release | one relay mutation at a time, the lease kept after a failure |
| **Relay** `cloud/apps/relay` | host sessions, cell assignments | connect, supersede, place | one live session per host |
| **Mobile, daemon, automations, renderer, git, ssh, browser, provider adapters** | see `PROJECT.json` | | mostly I/O, formats or UI |

How the first three interact, which is the core of the system: a coordinator (an agent in a
terminal, or the loop of Orca itself) creates Tasks and starts attempts of them.  An attempt is
*unsupervised* (a prompt sent to a terminal), *local* (Orca launches an agent and supervises it) or
*federated* (a connected Orca server does).  The worker reports when done; the report settles
attempt, worker and Task and releases dependents.  Every handler is one synchronous SQLite
transaction on the main thread, so the transactions are atomic; what interleaves are the
asynchronous flows around them.  `worker-start` commits a row, awaits a launch, and commits an
outcome.  `worker-stop` commits `stopping`, awaits a process exit or a remote answer, and commits
an outcome.  Meanwhile the worker reports, the process exits, the operator abandons, retries or
updates the Task, a gate opens, `worker-show` reconciles with the server, the runtime restarts.

Mail reaches a coordinator in two ways that must not cross.  Its agent *checks* the Run's mailbox:
a check acknowledges the last Delivery, opens the next one or waits, with an await between each.
When nobody checks, the *pointer lane* types a line into the pane of a coordinator at rest and
presses Enter half a second later, if by then the mail is still unread and the agent still willing.
Here memory (flights, watermark, timers) is ahead of the database (reservations on the rows), and
only the database survives a restart.

The relay is the second system: two servers, each with a database that survives a crash and memory
that does not, and calls between them that are lost, answered late or executed after their caller
gave up.  Its reports settle attempts by the same rule as local ones.  The push gateway and the
fence broker are services of their own in the cloud: the first shares a PostgreSQL queue among the
drains of any number of workers, the second keeps a lock as one object in cloud storage.

The hard behaviours, each at its line, are the hazards of `PROJECT.json`.

## 2. Modules

| Module | Models |
|---|---|
| `LifecycleStates` | the status sets and the graph of legal transitions (`lifecycle-transition.ts`) |
| `OrchestrationLifecycle` | the lifecycle database: thirty actions, one per handler, and its properties |
| `MCLifecycle` | instances of it for TLC |
| `OrchestrationLifecycleProofs` | the inductive invariant and the theorems |
| `TaskLease` | the abstract promise: a Task is leased to one numbered attempt at a time |
| `LifecycleSafetyProofs` | theorems resting on the invariant: settled attempts, terminals, questions |
| `LifecycleOutcomeProofs` | stops, completion, dependents, the breaker; `OrchestrationLifecycle` implements `TaskLease` |
| `FederationRelay`, `MCRelay` | the relay of one federated Dispatch between two servers, with its faults |
| `ReportDelivery` | the abstract promise of the relay: mail in order and once, one final verdict, mirrored |
| `FederationRelayProofs` | the inductive invariant of the relay, its safety theorems, and that it implements `ReportDelivery` |
| `MutationLease`, `MCLease`, `MutationLeaseProofs` | the fence broker's lease, instances, theorems |
| `DurablePush`, `MCPush`, `DurablePushProofs` | the push gateway's queue, instances, theorems |
| `MailboxPointer`, `MCMailbox`, `MailboxPointerProofs` | the mailbox of a Run, its readers and the pointer lane; instances; theorems |
| `MailConsumer` | the abstract promise of a mailbox: mail in batches, one at a time, read by the coordinator they were given to |
| `MailboxWatchProofs` | theorem: no coordinator at rest is forgotten |

### OrchestrationLifecycle and the code

| State | Column or memory |
|---|---|
| `task`, `dispatch`, `worker`, `gate` | `tasks.status`, `dispatch_contexts.status`, `worker_dispatches.state`, `decision_gates.status` |
| `nd`, `taskOf`, `assignee`, `failures`, `lastFailure` | rows and columns of `dispatch_contexts`; `lastFailure` keeps only which kind of text is stored |
| `federated` | the attempt has a row in `federated_dispatches` |
| `ownEpoch` | `worker_dispatches.runtime_epoch` is the running runtime's |
| `boot` | attempts recovery at startup looks at |
| `openQuestions` | attempts with a `pending` thread |

Actions follow the handlers; the manifest names each one's lines.  Conventions:

- A handler that throws rolls back, so it is a disabled action.  A no-op return is a stuttering step.
- The start flow is in flight exactly while the worker is `starting` under the running epoch, the
  stop flow while it is `stopping` under it.  A restart clears the epoch and thereby ends both flows
  at any point between their two commits.
- `Init` is the empty database of a new Run.  Bounds: `MaxDispatches` attempts, `Gates`.
- A report may come any time, early, late or again: `WorkerReport` is enabled by the code's own
  conditions only.  `Reportable`, `SiblingWorkerOwns` and `SettlesWorker` are those of
  `settleWorkerReportInTransaction`.  The admission rule that mutes a `stopping` worker adds nothing:
  the Task of a stopping attempt is blocked, so settlement refuses the report as well.
- `StartWorker` on a Task that does not exist is `worker-start --spec`.
- `RecoverMissingTerminal` has only the branch of an active attempt: `WorkerHasAttempt` (proved)
  makes the other unreachable.
- `CorrectingReport` is the one legal rewrite of a settled attempt: a start recorded as a stalled
  prompt whose worker had been running.
- `timeoutGate` and `completeDispatch` have no caller outside tests and are left out.
- The definitions marked *Fault* are the bugs against which the properties were tried: each is a
  definition of the model with one mistake in it, and each property fails under one of them.
  Nothing else uses them.

### Properties of the lifecycle

| Property | Says | Hazard |
|---|---|---|
| `OneAttemptPerTask` | a Task is held by at most one active attempt, its latest | three rules decide that a Task is free |
| `TaskFollowsAttempt` | dispatched while an attempt runs, blocked while its start or stop is unproven, never ready or settled under it | five handlers recompute it |
| `WorkerHasAttempt` | worker live iff attempt active | settlement in two tables |
| `TerminalExclusive` | a terminal serves one active attempt | two claim queries |
| `LocalQuestionsAnswerable` | a pending question has an active attempt | a question during a stop |
| `RetriesEndAtBreaker` | a supervised chain stops at the breaker | counts inherited by retry |
| `SettledStaysSettled` | every step is an edge of the lifecycle graph, the correction excepted | late outcomes, thrown transitions |
| `CompletionNeedsItsWorker` | a Task under a live worker completes only by that worker's success | operator updates |
| `DependentsReleased` | completing the last dependency makes the dependent ready | stale reads |
| `OwnStopEndsHonestly` | a stop in flight on a local worker ends `stopped` or `stop_unknown` | exit racing stop |
| `ImplementsLease` | every step is a step of `TaskLease`, or changes no lease | all of the above, together |

`TaskLease` is what a caller of the database may rely on without knowing its tables.  The mapping
reads a Task's phase from its status (`blocked` under an active attempt is *unproven*, otherwise
*open*), its holders from the attempts active on it, and the number of leases issued from `nd`.
Beyond the invariants it says what a step may do: a released lease is never granted again, one step
changes the lease of at most one Task, a Task that succeeded is leased only after it was reopened,
and a Task under a lease is neither settled nor reopened without releasing it.

### FederationRelay and the code

| State | Column or memory |
|---|---|
| `queue`, `ackd`, `attachment`, `receipts` | worker's server, durable: `federation_relay_items` (the kind at each sequence), the prefix with `acked_at`, `remote_dispatch_attachments.state`, `mutation_receipts` of acknowledgments |
| `epoch`, `capable` | the runtime of the worker's server and whether it advertises lifecycle settlement |
| `inbox`, `refused`, `ackedHome`, `rowEpoch`, `worker`, `task` | home, durable: imported messages (`to_home_imported_sequence` is their number), those converted to rejections, `to_home_acknowledged_sequence`, `remote_runtime_epoch`, `worker_dispatches.state`, whether the settled Task was moved |
| `phase`, `pagesLeft`, `sync`, `page`, `ask` | home, memory: the sync between two awaits, with what it read before them |
| `known`, `cap`, `checkpoint` | home, memory: the peer capability cache and the acknowledgment checkpoint |
| `stopCall`, `stop` | worker-stop at home, federationStop at the worker's server |
| `late`, `faults`, `stops` | acknowledgments given up but still under way; bounds |

One sync of `syncFederatedDispatchPage` is `BeginPage` (read the row, settle the capability),
`PullArrives`, `ImportPage` or `ImportThrows` (every item its own transaction; a crash may fall
between two), `AckArrives` or `AckRefused`, `AckReturns`.  The settlement rule of a report,
`WorkerAfter`, is the part of `settleWorkerReportInTransaction` a federated attempt reaches; the
whole rule is in `OrchestrationLifecycle`.  An acknowledgment is a durable mutation: `Executes` and
`Refuses` are what its receipt makes of a second arrival.  Two Dispatches share nothing but the
capability cache, whose changes by others the restarts and re-probes of this one include.

| Property | Says | Hazard |
|---|---|---|
| `NothingAckedUnseen` | nothing leaves the server's replay that the home has not imported | lost, late, repeated acknowledgments |
| `ServersAgree` | the worker's server shows an outcome only if the home holds it | stop, abandon and late acknowledgments crossing |
| `ReportsGetVerdicts` | no acknowledged report is without its verdict | a report in a replaced heartbeat's place |
| `Delivery` | what the worker queued reaches the home of a live Dispatch | barriers, capability that comes and goes |
| `VerdictReachesServer` | the home's outcome reaches the worker's server, or a named obstacle exists | relay of a settled Dispatch ended too early |
| `ImplementsDelivery` | every step is a step of `ReportDelivery` | all of the above, together |

### MutationLease and the code

The object in storage is `object`, its generation, with `leases` recording what was ever written;
storage never reuses a generation.  A handler of `app.ts` goes through `ReadMetadata`, `ReadBody`
(the body may be that of a later object), `Acquired` or `Refused` (the conditional write),
`MutationSucceeds` or `Fails`, and `Released` (the conditional delete).  A failed write or delete may
be executed later (`StrayWrite`, `StrayDelete`).  Digests stand for request bodies.

| Property | Says |
|---|---|
| `LiveMutationIsCovered` | a mutation whose lease lives runs under the stored lease, or under the re-sent request or exact takeover that followed |
| `LeaseOutlivesFailure` | the stored lease goes away only after its own mutation succeeded |
| `LeaseChangesHands` | a living lease passes only to the same request or an exact takeover |

The exception for the same request is the code's: `acquire` accepts a lease with the caller's own
digest, so a request sent again while its first run goes on re-acquires, and its release lets
another operation in beneath that run.  What prevents this is outside the program: the platform runs
one instance with one request at a time (`infra/terraform/relay-fence-broker.tf:114`).

### DurablePush and the code

| State | Column or memory |
|---|---|
| `expires`, `recipients`, `dismissed` | `push_events.expires_at`, `push_event_recipients`, `push_dismissed_events` |
| `batch` | `push_delivery_batches`: `due`, `created`, `until` (the lease), `token`, `leases` (`attempts`) |
| `accepting` | the acceptance of a dismissal between its statements, under the host's advisory lock |
| `drain` | each drain: idle, in a claim after a statement, or delivering under a token |
| `lapsed`, `told` | history: deliveries whose lease ran out, dismissals that were handed to a drain |

A claim is `SelectCandidate` (FOR UPDATE SKIP LOCKED), `LockDevice` (the advisory lock, not waited
for), `CheckHead`, `JudgeAlert`, `LeaseRow`: four statements on times taken before the first, each
seeing what is committed by then.  Row locks of a claim and of a dismissal's deletes last until it
commits; a statement on a locked row waits, so it is enabled when the row is free and evaluates its
condition then.  A time may be `MaxWait` old when it is used, which covers slow statements, renewals
that arrive late and workers whose clocks differ by that much; the time of a retry is taken as it is
written.  The deletes of a dismissal are one step, and a prune deletes one row per step, since its
rows do not depend on each other.  A drain that dies leaves its lease to expiry (`Stops`).

| Property | Says |
|---|---|
| `OneInFlight` | two drains deliver to one phone only if the lease of one has run out |
| `DismissalIsLast` | once a dismissal was handed to a drain, no alert it cancels is delivered under a running lease |
| `NoOvertaking` | no row is leased over one that sorted before it when it was picked and is still there |
| `LiveLeaseUndisturbed` | while a lease runs, only its own drain deletes, reschedules or gives away the row |

The exception for leases that ran out is real: a late renewal revives a lapsed lease, and with an
earlier row leased meanwhile a phone has two.  The code accepts this; it renews every ten of thirty
seconds.

### MailboxPointer and the code

| State | Column or memory |
|---|---|
| `arrived`, `read` | `messages` of the mailbox by sequence, `messages.read` |
| `deliveries`, `standing` | rows of `deliveries`, their `status` |
| `owner`, `generation` | `runs.coordinator_handle`, `runs.consumer_generation` |
| `check` | each agent's `check`, by the await it is at; "waiting" is an entry of the waiter registry |
| `proc`, `inc`, `status`, `cold` | outside: the process of a terminal and its incarnation; memory: the agent status of its live titles ("other" is not seen live or asking permission, "none" a neutral title), the cold-parked panes |
| `lane.row` | `pointer_enter_pending`, `pointer_pty_id` with `pointer_process_incarnation`, `delivered_at` |
| `lane.flight`, `lane.parkedOn` | the flight of a terminal by the callback it waits for, and a delivery parked on it |
| `lane.mark`, `lane.parked`, `lane.queued` | the mailbox's watermark, its parked redelivery, the deliveries queued as microtasks |
| `lane.recheck`, `lane.asked`, `lane.strays`, `repoint` | the recheck timer, the absence probe, probes of flights retired meanwhile, the repoint timer |
| `entered`, `returned`, `declined` | history: Enters pressed, and for which mail, process and generation; mail a late answer for another terminal made news again; mail the lane was turned away with: refused, probed too late, or left behind |

The operators on the lane take it and return it, as the methods of the state class and the UPDATEs
do, so that a handler is their composition in the code's order.  Conventions:

- `Next` runs what the event loop would: queued microtasks (`Microtask`) before any other event.
- A write that is answered at once is one answered without delay.  A write's bytes go to the
  process there at the hand-over; "unverifiable" covers a lost answer and a throw.
- `settled` (the pane's evidence lets the lane type) and `known` (its process needs no probe) depend
  on text and time, so they are chosen anew at each use.  Each refusal and each probe counts as an
  *upset*, together with deaths, restarts, bad writes and cold panes; `MaxUpsets` bounds them all.
- Whether the titles of a terminal name an agent that needs no Enter (`enterless`, for the terminals
  in `Cursors`) is looked up as a write's answer comes, so it is chosen anew each time.
- A check begins while the titles of its agent show it idle or working, and its agent's titles do
  not go idle or neutral before it ends.  An agent binds the Run while at work.
- Waits are without a type filter; a batch holds all unread mail (the code's limit is larger than any
  `MaxMail` here).  The absence probe's answer and the timer behind it are one step.
- A restart loses the memory of the app and keeps rows and processes; `torn` are the reservations
  caught between their two UPDATEs.

| Property | Says | Hazard |
|---|---|---|
| `UnreadDeliveryIsCurrent` | at most one Delivery holds unread mail, and it is of the present generation | a check resumed after a takeover |
| `NobodyForgotten` | a coordinator shown at rest has untold mail only while something will still look at it | parked deliveries, watermark, recheck, probe and takeover crossing |
| `ActiveMarkHasFlight` | an active watermark belongs to a flight under way | ambiguous writes, exits, late answers |
| `HeldEnterAwaitsRest` | an Enter held until the agent rests is not held while it rests | title before the write's answer |
| `EnteredOncePerBinding` | one process, as long as it coordinates the Run, gets no second Enter for the same message | restart, retry and doubt |
| `ImplementsConsumer` | every step is a step of `MailConsumer` | all awaits of a check, together |

`MailConsumer` is what an agent that checks its mail may rely on.  The mapping takes an outstanding
Delivery that holds unread mail for the batch given out, with its reader; a Delivery that was fenced or
acknowledged maps to none.  Other steps of checks, and those of the lane and the terminals, stutter.

`NobodyForgotten` names the exceptions the code has.  Mail whose pointer the terminal refused waits
for the next title of rest.  So does mail whose probe is answered "absent" for a process that was
replaced meanwhile under the same id: TLC found this with two upsets.  So does mail left behind
(`LeftBehind`): when the write of a terminal that no longer coordinates the Run is ambiguous, or its
Enter refused, the flight ends without a redelivery, though a delivery to the coordinator may be parked
behind its watermark (section 3, *Findings*).  And mail under the inactive
watermark of the coordinator's own terminal is not offered again (`releaseSupersededWatermark`): it
may be in the composer already.  As a rule its rows say so too, but another terminal's recheck can
have released them before the first one takes the Run back, which TLC found with three generations.
Others are excluded by the statement itself: after a restart a reservation left typed or entered counts as delivered, and newer
mail waits for the title that follows.  A new process, or the next coordinator, is told again: that is
why `EnteredOncePerBinding` names process and generation.  Its exception, `returned`, is noted with the
findings.

## 3. Runs

| Run | Instance | Shows |
|---|---|---|
| `task_graph` | 2 Tasks in a chain, 1 terminal, 1 gate, 2 attempts, unsupervised and local, breaker at 1 | types, terminals, completion, release of dependents, the breaker; 0.94 million states |
| `mixed_attempts` | 1 Task, 1 gate, 2 attempts of any kind | agreement of the tables, the graph, stops, questions and the lease under gates; 150 thousand states |
| `relay_safety` | 1 Dispatch with a legacy or a settling home, 3 items of all kinds through a queue of 2 and pages of 2, 1 fault, 1 stop, 2 runtimes | the safety of the relay; 3.4 million states |
| `relay_delivery` | a settling home, 2 items in pages of 1, 1 fault, 1 stop, 2 runtimes, fair | delivery, the verdict's return, and the refinement of `ReportDelivery`; 185 thousand states |
| `fence_lease` | 2 handlers, 3 requests of 2 operations, one a takeover, 3 leases, 1 failed call | the lease; 5.4 million states up to exchange of the handlers |
| `durable_push` | 2 drains, an alert for one device and its dismissal for two, 2 leases each, clock to 2 | the queue; 2.5 million states up to exchange of the drains |
| `mailbox_pane` | 1 terminal whose agent may need no Enter, 2 messages, 2 upsets | the lane and the checks of one coordinator; 0.7 million states |
| `mailbox_takeover` | 2 terminals, 1 message, 1 takeover, 1 upset | readers, offers and Enters across a takeover, and the refinement of `MailConsumer`; 1.0 million states up to exchange of the terminals |
| `report_after_resume` | 1 federated attempt | *violated*: finding 1 |
| `failed_start_count` | 1 federated attempt | *violated*: finding 2 |
| `lost_ack_answer` | 1 report, 1 lost answer, fair | *violated*: finding 3 |
| `replaced_heartbeat` | 1 heartbeat, 1 report, a queue of 1 | *violated*: finding 4 |

Why the bounds are enough.  *Lifecycle*: every rule of the code relates one Task to its attempts, or
one attempt to the terminal and the other active attempts.  Two attempts give every pair (prior and
retry, two on a terminal), and with the breaker's limit lowered from three to one a retry that
follows a counted failure overruns it.  Two Tasks in a chain give a
dependency.  One gate can be resolved twice and re-applied under an attempt.  *Relay*: three items
are two reports that disagree and something before, between or after them; a queue of two makes a
report take a heartbeat's place, pages of two put a barrier inside a page; two runtimes and one fault
give each lost, late or torn call and each restart at every point.  With two faults the state space
passes what a run can do; the proofs cover any number.  *Lease*: three generations are a holder, a
successor and what follows both.  *Push*: two rows of one device in either order, a second device to
skip to, a lease of one tick within a clock of two.  *Mailbox*: the second message arrives at every
point of the first one's flight and is what gets parked, superseded or batched with it; two terminals
and two generations are a coordinator and its successor.  One upset with two terminals or two with one
fill a run (its `VIEW` leaves out the history of earlier generations, incarnations and read mail,
which no property asks for, and the lane once all mail is read, no flight is left and no watermark active); the theorems of section 4 are about any number of each.  The runs switch the deadlock check off, because
each bounded system does stop: attempts, faults or time used up.

**Fairness.**  Only the relay assumes any.  `FairSpec` is `Spec` with weak fairness of `SyncStep`, the
home's sync taken as a whole.  `runtime-orchestration-federation.ts` starts it from a timer that fires every second while
a Dispatch is eligible, and for settled Dispatches from a recovery timer; each call a sync awaits is
answered, refused or fails within fifteen seconds.  Nothing is assumed of workers, operators, faults or
calls given up.  `Delivery` and `VerdictReachesServer` further suppose that the runtime can settle
lifecycles in the end, and name what may stand in the way for good.

### Findings

1. **A resumed stop can strand the worker's report.**  `worker-report-admission.ts:28` promises that
   only a stop in flight mutes a worker's report.  A federated attempt in `start_unknown` still has
   Dispatch status `pending`; `worker-stop` may be issued on it; the server answers that the worker
   had already reported; `resumeFederatedWorkerForTerminalRelay` sets the worker `ready` and the
   Task `dispatched` and leaves the Dispatch `pending`.  The report the resume waits for is refused,
   since a ready worker's Dispatch must be `dispatched`.
2. **A start that fails on a connected server is not counted.**  `recovery-and-cleanup.md:120` says
   failed starts count across `--retry-of`; `reconcileFederatedWorkerStart` does not increment.

3. **A lost acknowledgment answer is never made good.**  `federation.test.ts:444` expects a lost
   acknowledgment to be retried.  Its request id names the Dispatch and the cursor, its payload also
   holds the settlements.  If it is executed and the answer lost, the next pull is empty, so the retry
   carries the same id without settlements; the receipt store refuses it as a mismatch each time, the
   home never records it, and the settled Dispatch is relayed for ever.
4. **A report may take the sequence of an imported heartbeat.**  At its quota the queue overwrites the
   oldest unacknowledged heartbeat with a report, although the home may have imported it already.  The
   replay then offers another message under a committed sequence, the import throws
   (`federation-relay-import.ts:57`), and so does every sync after it.

Noted on the way, without a run of their own: the comment at `worker-dispatch-abandon.ts:42` ("it always ends
in stopped or stop_unknown") does not hold for a federated stop that resumes, which is why
`OwnStopEndsHonestly` is about local workers; `docs` describe a gate as blocking its Task until
resolved, while `task-update` and `--retry-of` move a gated Task until the next coordinator tick.
The comment at `mailbox-pointer-submit.ts:129` ("neither settling it as delivered nor rolling it back to
a state that would send a second Enter is provable here") keeps a doubtful Enter on the rows, but a
probe asked for an earlier coordinator's terminal and answered after a takeover offers the mail to that
terminal again (`redeliverAfterProbe` asks for its status, not for its Run): the rows the new coordinator's
Enter left in doubt are released there, the submission finds another owner and gives the mail back, and
the new coordinator gets a second Enter.  TLC shows it with two upsets; a refused write to the earlier
terminal can do the same.  `returned` records exactly this mail, and `EnteredOncePerBinding` is about the
rest.
The comment at `mailbox-pointer-stage.ts:131` ("A delivery parked behind this watermark has to drain now
that it is gone") is followed for a refused write, but `preserveAmbiguousWrite` (line 94), and a refused
Enter in `mailbox-pointer-submit.ts`, end the flight of an earlier coordinator's terminal without a
redelivery: a delivery to the present coordinator that was parked behind that watermark waits until its
agent shows rest again or more mail comes.

## 4. Proofs

### The lifecycle

Proved for every set of Tasks, terminals and gates, every dependency relation and every bound, from
the named assumptions of `OrchestrationLifecycle`:

- `TypeCorrect`, `OneAttempt`, `TaskFollows`, `WorkersHaveAttempts`.

The argument.  None of the three agreement properties is inductive alone: a retry of a blocked Task
is safe because the blocked Task's latest attempt has settled together with its worker, and no
earlier one is active.  `Coherent` is their conjunction with `Rows` (rows exist exactly up to `nd`
and a row not yet used is blank); `Inv == TypeOK /\ Coherent` is inductive.  Actions fall into four
classes, each with one lemma that says what a step of the class must keep: a step inside one
attempt (`AttemptStepCoherent`), a step on a Task that leaves no attempt active (`TaskStepCoherent`,
`TaskOnlyStep`), a step that leaves the three tables alone (`SameTables`), a new attempt on a free
Task (`NewAttemptCoherent`).  Each action is then shown to be of its class.

On this invariant rest the others:

- `SettledStays`.  Lemmas per class of action show each edge a handler asks for legal in its
  guards; the worker and attempt columns agree, so a handler guarded by one never meets the other
  settled.  `OthersUntouched` says that a step inside one attempt changes no other row.
- `TerminalsExclusive`.  By `SettledStays` no attempt becomes active again, so a new pair could
  only come from the one assignment of the step, which found the terminal free.
- `QuestionsAnswerable`.  Not inductive, since settling a stop closes no question; `QuestionsHeld`
  adds that no question is pending under a stop.
- `OwnStopsEnd`, `CompletionIsTheWorkers`.  `CompletionSources` reduces every completion to a status
  update or a report, and the guards that name live workers exclude the rest.
- `DependentsAreReleased`.  Needs `CreatedInOrder`: dependencies are created first, so no Task
  waits for itself, and a pending gate names a created Task.
- `RetriesEnd`.  `BreakerHeld` extends the bound to settled attempts, which a retry continues: a
  count at the limit means the breaker tripped or the worker succeeded after all.
- `LifecycleImplementsLease`.  Initial states map to initial states and every step to a step of
  `TaskLease` or a stutter (`OneTaskStep`, `TakeStep`, and `Reopen` for re-blocking).

### The relay

From `RelayConstants` (the bounds are numbers, queue and pages not empty), for any number of items,
faults, runtimes and stops: `TypeCorrect`, `AckedIsSeen`, `ServersNeverDisagree`, `EveryReportJudged`.

The argument.  An acknowledgment is only as good as what it says, and it may be executed long after
the home gave it up.  So the invariant `Inv` adds to the three safety properties what must hold of
every acknowledgment there is, in flight, given up or in a receipt (`AsksTrue`): it covers nothing the
home has not imported, the outcome it accepts is the home's final one, what it calls rejected was
refused.  `PageTrue` says that a pulled page still agrees with the queue, heartbeats aside, and
`InboxTrue` the same of the inbox, with the verdict of every report in it.

`RelayDeliversReports` proves `Spec => ImplementsDelivery` under the further assumption `PlainRelay`, a
settling home and no heartbeats: with them a report may take the place of an imported one (finding 4)
and the refinement is false; a legacy server settles before the home does.

### The lease and the queue

From `LeaseConstants`, for any handlers, requests and lengths of lease: `TypeCorrect`,
`MutationsCovered`, `LeaseOutlives`, `LeaseHandsOver`.  `Judged` carries the judgement of two reads to
the conditional write: a generation never comes back, so if the condition still holds the lease judged
is the one read, and what was found of it (the same request, expired, named exactly) cannot change.
`Owned` says that a generation is run under by one handler only and deleted after success only.

From `PushConstants`, for any drains, devices, events and lengths of lease, wait and delay:
`TypeCorrect`, `OneDelivery`, `DismissalsLast`, `NoneOvertakes`, `LeasesUndisturbed`.  A claim decides on
reads that are old when it commits; `Claims` says which of them still hold (`PickHolds`): its row is
locked and unleased, who delivered on the device when it was found idle has lapsed since, the rows
that sorted before are gone, and after the judgement no dismissal of its alert was handed out.  `Locks`
gives row and device one owner, `Tokens` tells the leases of a row apart, and `Live` says that a lease
which has not run out is still on its row.  `DrainsStay`, `RowChanges` and `ClaimMoves` each prove the
invariant for one class of action: drains stay or end, one unlocked row changes, one claim moves.

### The mailbox

From `MailboxAssumption`, for any terminals, messages, takeovers and upsets: `MailboxReaderIsCurrent`,
`MailboxTypeOK`, `NoMarkOutlivesItsFlight`, `NoEnterMissesRest`, `MailboxEntersOnce`,
`MailboxConsumes`, `CoordinatorIsNotForgotten`.

*The readers.*  `UnreadDeliveryIsCurrent` is not inductive: a fenced Delivery could revive with mail that arrives later, and a check
begun before the takeover could open another.  `ReaderInv` adds that a Delivery holds only mail that
had arrived (`HoldsArrived`) and that what is outstanding is of the present generation whether unread
or not (`OutstandingIsCurrent`).  Then no step makes a Delivery hold unread mail that did not before
(`NoneRevived`), except the one that found none.  `LaneIsQuiet` shows that the pointer lane and the
terminals leave all of this alone.

*What a reader may rely on.*  `MailboxConsumes` is the refinement of `MailConsumer`.  It rests on
`Consuming`: an outstanding Delivery is the present coordinator's and unread as a whole, neither split
nor half read (`Handed`), and a check that is not fenced was made by the present coordinator
(`CheckIsOwners`), although it read the Run before its awaits.  Four lemmas take the steps that move
mail (`ConsumerSends`, `ConsumerGives`, `ConsumerReads`, `ConsumerTakesOver`), and `ConsumerRests` all
others.

*The lane.*  Its handlers are compositions of a few operators, so the proof is too.  Each operator has a
lemma on the fields it returns and one on what it `Keeps`, and `KeepsTwice` chains them:

- `LaneInv`: the types of the lane; a row names a process exactly while it is reserved, and is reserved
  or delivered only after it arrived (`RowsSound`); a flight has a batch and a living process of its own
  incarnation (`FlightsSound`); there is one watermark, and if active it is the newest message of a
  flight under way (`MarksSound`); all unread reservations name the same process (`OneTarget`).
  `MarksSound` is what makes a flight hard to end: `EndedKeeps` asks that its watermark be silenced first
  (`Silent`), and every path to `settle` clears or deactivates it under that flight's newest message.
- `RestIsAwaited` extends `HeldEnterAwaitsRest` to the text still being typed, whose need for an Enter
  is remembered as "writing_deferred" before it can be held.
- `Memory` is why no second Enter is pressed.  What the present coordinator was sent an Enter for is
  on the row, as delivered or as entered for this process (`Told`), and a flight that has yet to press
  Enter holds none of it (`Fresh`).  `resumePending` needs `OneTarget` here: seeing one row entered for its
  process it settles them all instead of pointing again.  `EnteredPast` says that an Enter of this
  generation was the coordinator's, so a takeover and a new process start with nothing entered.
- An answer for a terminal that is no longer the coordinator's may release rows of others;
  `PutBackStep` shows that this loses `Told` for the mail of `returned` only.

The invariant was found in two corrections.  As first stated, `EnteredOncePerBinding` had no exception;
`Told` was not inductive at `AbsenceAnswered`, and TLC turned the failed step into a behaviour
(section 3, *Findings*).

*Who looks next.*  `NobodyForgotten` is not inductive: it says nothing while the coordinator is told of some of
its mail, and nothing of the message on whose account the next delivery will come.  `Watching`, in
`MailboxWatchProofs`, is:

- `Watched`: if the coordinator is shown at rest and there is mail nobody reads (`Resting`), a check that
  is not fenced is about to read it, a repoint is scheduled, or the mailbox is `Attended`: a delivery is
  queued, a recheck, probe or parked delivery is due for the coordinator's terminal, another terminal's
  flight will hand the mailbox on (`HandsOn`), its own terminal holds the mail in doubt (`Doubted`), or
  it was told of some of it (`Informed`).  `HandsOn` is what the flight of another terminal owes: a
  delivery is parked behind its watermark, or its whole batch is unread, so that however it ends it is
  redriven, delivered, or counted in `declined`.
- `Tidy`, what that rests on: an inactive watermark has no flight (`Landed`), unread reservations are the
  watermark's (`PointedByMark`), the rows an Enter is pressed for are accounted for (`Submitted`), and what
  is parked is parked on a flight (`ParkedFlies`).
- `ChecksCurrent`: a check that waits has nothing to read, and neither it nor one just woken is fenced;
  this needs that microtasks run first, since a takeover would fence a check still to be resumed.

The heart is `DeliverWatch`: a delivery to the coordinator leaves the mailbox attended whatever it
found.  Each other operator has a lemma that says what it tends (`Tends`): it takes one witness away
only as it puts another in its place.  `AttentiveStep` carries this to the steps of the lane, and the
moves of titles, processes, checks and mail have a lemma each.

The proof changed the property.  It first spoke only of mail whose rows name no process, which left out
mail still pointed at an earlier coordinator's terminal.  That is mail the present one was not told of
either, and an invariant that covers it finds no witness after an ambiguous write: hence `LeftBehind`,
which is as narrow as the proof allows.  `Untold` now leaves out only what the coordinator's own process
was told of, what counts as delivered, and `declined`; and a check that is fenced is no witness.

### Only model-checked

Every safety and action property of the passing runs is proved, `ImplementsDelivery` under
`PlainRelay`.
`Delivery` and `VerdictReachesServer` need fairness and stay with TLC, as do the four
statements the code violates, by counterexample.

## 5. Not modelled, and the plan

The components `PROJECT.json` lists as `not_modelled` carry the reason.  Of those modelled in part:

- *Lifecycle*: message rows, heartbeats and observation facts, terminal capabilities.
- *Federation relay*: mail to the worker, question threads and their answers, heartbeat times,
  pairing with another server.  A federated question can still be imported after its attempt settled.
- *Mutation receipts*: receipts of other methods, eviction at capacity.
- *Push gateway*: the event quota, the sweep of identities after a day, the lock shared with the
  previous revision's claims, SQLite, registration and the provider clients.
- *Fence broker*: the operation it runs is one step that succeeds or fails.
- *Mailbox delivery*: Dispatch mailboxes and the drain of a residual one, direct mail and its
  routing, typed waits, peeks and history, batches over the limit, structured sessions, deliveries
  offered by a graph sync, a database that is closed or throws.

Next, in this order:

1. The coordinator loop with its tick order, message cursor and liveness: under weak fairness of the
   tick, a ready Task with a free terminal is dispatched.
2. `WorkerTerminal`: no terminal released under a live worker.
3. `GamepadWheel`, then the relay's host session registry.
