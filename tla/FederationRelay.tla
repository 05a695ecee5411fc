--------------------------- MODULE FederationRelay ---------------------------
(***************************************************************************)
(* The relay of one federated Dispatch.  A worker runs on a connected      *)
(* server; its mail is queued there, pulled by the server that is the      *)
(* Run's home, imported into the home's mailbox and acknowledged, and a    *)
(* worker report among it settles the Dispatch: first at home, then, with  *)
(* the acknowledgment, on the worker's server.                             *)
(*                                                                         *)
(* The two servers each have a database that survives a crash and memory   *)
(* that does not; every call between them may be lost on the way there, on *)
(* the way back, or be executed after its caller has given it up.  An      *)
(* action is one transaction or one synchronous stretch of a handler; each *)
(* await is a boundary between two actions.                                *)
(***************************************************************************)
EXTENDS Integers, Sequences, FiniteSets, FiniteSetsExt

CONSTANTS
  Protocols,   \* protocol versions a Dispatch may be attached with
  MailKinds,   \* what a worker sends besides its reports
  MaxItems,    \* bound: items ever queued
  Quota,       \* unacknowledged items the queue holds (256)
  PageSize,    \* items in a pulled page (50)
  MaxPages,    \* pages in one sync (6)
  MaxEpoch,    \* bound: runtimes the worker's server lives through
  MaxFaults,   \* bound: lost, late or torn calls and restarts
  MaxStops     \* bound: worker-stop commands

ASSUME RelayConstants ==
  /\ Protocols \subseteq {"legacy", "settling"}
  /\ MailKinds \subseteq {"status", "heartbeat"}
  /\ {MaxItems, Quota, PageSize, MaxPages, MaxEpoch} \subseteq Nat \ {0}
  /\ {MaxFaults, MaxStops} \subseteq Nat

Outcomes == {"succeeded", "failed"}

(* A worker_done is named by its outcome. *)
Kinds == MailKinds \cup Outcomes

Sequences == 1..MaxItems

VARIABLES
  protocol,    \* federated_dispatches.protocol_version, fixed by worker-start
  (* the worker's server, durable *)
  queue,       \* federation_relay_items to_home: the kind at each sequence
  ackd,        \* the items with acked_at set are those up to here
  attachment,  \* remote_dispatch_attachments.state
  receipts,    \* mutation_receipts of the acknowledgments
  (* the worker's server, its current process *)
  epoch,       \* runtime id
  capable,     \* the runtime advertises lifecycle settlement
  (* the home, durable *)
  inbox,       \* the imported messages; to_home_imported_sequence is its length
  refused,     \* sequences whose message was converted to a rejection
  ackedHome,   \* to_home_acknowledged_sequence
  rowEpoch,    \* remote_runtime_epoch
  worker,      \* worker_dispatches.state
  task,        \* has an operator moved the settled Task, and back
  (* the home, its current process *)
  phase,       \* where the sync of this Dispatch is
  pagesLeft,   \* remainingPages
  sync,        \* what the running page read before its first await
  page,        \* the page the pull returned
  ask,         \* the acknowledgment in flight
  known,       \* the capability cache: latest epoch of the peer, 0 for none,
  cap,         \*   and its answer about lifecycle settlement
  checkpoint,  \* the acknowledgment checkpoint of this Dispatch
  stopCall,    \* the worker-stop this process is running
  (* between them *)
  late,        \* acknowledgments given up by the home and still under way
  stop,        \* the federationStop under way
  stops,       \* worker-stop commands so far
  faults       \* faults so far

serverVars == <<queue, ackd, attachment, receipts>>
processVars == <<epoch, capable>>
homeVars == <<inbox, refused, ackedHome, rowEpoch, worker, task>>
syncVars == <<phase, pagesLeft, sync, page, ask>>
cacheVars == <<known, cap, checkpoint>>
stopVars == <<stopCall, stop, stops>>
vars == <<protocol, serverVars, processVars, homeVars, syncVars, cacheVars,
          stopVars, late, faults>>

Bigger(a, b) == IF a > b THEN a ELSE b
Smaller(a, b) == IF a < b THEN a ELSE b

(* SETTLEABLE_WORKER_STATES: a worker's report is still admitted.  The relay
   starts here once the start is confirmed, so start_unknown does not occur. *)
Settleable == {"ready", "stop_unknown"}

(* The states of a Dispatch whose worker may still be running. *)
Live == {"ready", "stopping", "stop_unknown"}

(* Fault: a Dispatch that has settled is no longer relayed. *)
EligibleWhileLive == worker \in Live

Eligible == worker \in Live \/ ackedHome < Len(inbox)

NoCheckpoint == [epoch |-> 0, through |-> 0]
NoSync == [epoch |-> 0, supported |-> FALSE, capEpoch |-> 0]
NoPage == [from |-> 1, items |-> <<>>, epoch |-> 0]
NoAsk == [id |-> 0, through |-> 0, accepted |-> {}, rejected |-> {}]

Init ==
  /\ protocol \in Protocols
  /\ queue = <<>> /\ ackd = 0 /\ attachment = "ready" /\ receipts = {}
  /\ epoch = 1 /\ capable \in (IF protocol = "settling" THEN BOOLEAN ELSE {FALSE})
  /\ inbox = <<>> /\ refused = {} /\ ackedHome = 0 /\ rowEpoch = 1
  /\ worker = "ready" /\ task = "still"
  /\ phase = "idle" /\ pagesLeft = 0 /\ sync = NoSync /\ page = NoPage /\ ask = NoAsk
  /\ known = 0 /\ cap = "unasked" /\ checkpoint = NoCheckpoint
  /\ stopCall = "none" /\ stop = "none" /\ stops = 0
  /\ late = {} /\ faults = 0

-----------------------------------------------------------------------------
(* The worker's side: queueing.                                            *)

Unacked == {s \in 1..Len(queue) : s > ackd}
UnackedOf(kind) == {s \in Unacked : queue[s] = kind}

(* What the attachment becomes when a report with this outcome settles it.  *)
SettlesTo(outcome) == IF attachment \in Settleable THEN outcome ELSE attachment

(* A heartbeat overwrites the unacknowledged one; a report whose text is the
   same as that of an unacknowledged one is answered with that one. *)
Coalesces(kind, same) ==
  /\ kind = "heartbeat" \/ (kind \in Outcomes /\ same)
  /\ UnackedOf(kind) # {}

(* At the quota only a report is taken, in the place of a heartbeat. *)
Replaces(kind) ==
  /\ Cardinality(Unacked) >= Quota
  /\ kind \in Outcomes
  /\ UnackedOf("heartbeat") # {}

Queued(kind, same) ==
  IF Coalesces(kind, same) THEN queue
  ELSE IF Replaces(kind) THEN [queue EXCEPT ![Min(UnackedOf("heartbeat"))] = kind]
  ELSE Append(queue, kind)

(* Fault: a report settles the attachment as it is queued, whatever the home's
   protocol. *)
EnqueueAndSettle(kind, same) ==
  /\ attachment \in Settleable
  /\ Coalesces(kind, same) \/ Replaces(kind)
       \/ (Cardinality(Unacked) < Quota /\ Len(queue) < MaxItems)
  /\ queue' = Queued(kind, same)
  /\ attachment' = IF kind \in Outcomes THEN SettlesTo(kind) ELSE attachment
  /\ UNCHANGED <<protocol, ackd, receipts, processVars, homeVars, syncVars,
                 cacheVars, stopVars, late, faults>>

(* The worker sends a message home.  With a legacy home its report settles the
   attachment as it is queued. *)
Enqueue(kind, same) ==
  /\ attachment \in Settleable
  /\ Coalesces(kind, same) \/ Replaces(kind)
       \/ (Cardinality(Unacked) < Quota /\ Len(queue) < MaxItems)
  /\ queue' = Queued(kind, same)
  /\ attachment' = IF kind \in Outcomes /\ protocol = "legacy"
                     THEN SettlesTo(kind) ELSE attachment
  /\ UNCHANGED <<protocol, ackd, receipts, processVars, homeVars, syncVars,
                 cacheVars, stopVars, late, faults>>

(* The end of the setup command is reported whatever the worker's state. *)
EnqueueSetupStatus ==
  /\ "status" \in MailKinds
  /\ attachment \notin Settleable
  /\ Cardinality(Unacked) < Quota /\ Len(queue) < MaxItems
  /\ queue' = Append(queue, "status")
  /\ UNCHANGED <<protocol, ackd, attachment, receipts, processVars, homeVars,
                 syncVars, cacheVars, stopVars, late, faults>>

-----------------------------------------------------------------------------
(* The home's sync, one page at a time.                                    *)

(* The relay timer, or the recovery timer of settled Dispatches. *)
Tick ==
  /\ phase = "idle" /\ Eligible
  /\ phase' = "begin" /\ pagesLeft' = MaxPages
  /\ UNCHANGED <<protocol, serverVars, processVars, homeVars, sync, page, ask,
                 cacheVars, stopVars, late, faults>>

(* worker-show syncs a Dispatch whose report it saw queued, eligible or not. *)
ShowSyncs ==
  /\ phase = "idle"
  /\ attachment = "succeeded" \/ (attachment = "failed" /\ protocol = "legacy")
  /\ phase' = "begin" /\ pagesLeft' = MaxPages
  /\ UNCHANGED <<protocol, serverVars, processVars, homeVars, sync, page, ask,
                 cacheVars, stopVars, late, faults>>

(* The page reads the row and settles whether the peer can take settlements:
   from the cache, or by asking the runtime that answers now.  A cached "no"
   lasts thirty seconds.  Nothing else is read before the pull is sent. *)
BeginPage ==
  /\ phase = "begin"
  /\ phase' = "pull"
  /\ \E answer \in {cap} \cup (IF cap = "yes" THEN {} ELSE {"probe"}) :
       /\ answer # "unasked"
       /\ known' = IF protocol = "settling" /\ answer = "probe" THEN epoch ELSE known
       /\ cap' = IF protocol = "settling" /\ answer = "probe"
                   THEN (IF capable THEN "yes" ELSE "no") ELSE cap
       /\ sync' = [epoch |-> rowEpoch,
                   supported |-> protocol = "settling" /\ cap' = "yes",
                   capEpoch |-> known']
  /\ UNCHANGED <<protocol, serverVars, processVars, homeVars, pagesLeft, page, ask,
                 checkpoint, stopVars, late, faults>>

(* What the page asks for: everything unacknowledged, or what comes after the
   last import. *)
Replay == protocol = "settling" /\ (sync.supported \/ ackedHome < Len(inbox))

Pulled(from) ==
  LET items == SubSeq(queue, from, Smaller(from + PageSize - 1, Len(queue)))
  IN  [from |-> IF items = <<>> THEN Len(inbox) + 1 ELSE from,
       items |-> items, epoch |-> epoch]

(* federationPull answers. *)
PullArrives ==
  /\ phase = "pull"
  /\ page' = Pulled(IF Replay THEN ackd + 1 ELSE Len(inbox) + 1)
  /\ phase' = "import"
  /\ UNCHANGED <<protocol, serverVars, processVars, homeVars, pagesLeft, sync, ask,
                 cacheVars, stopVars, late, faults>>

SequenceOf(i) == page.from + i - 1
Cursor == page.from - 1 + Len(page.items)
Reports(n) == {i \in 1..n : page.items[i] \in Outcomes}

(* Fault: a later report replaces the verdict of an earlier one. *)
LatestReport(n) ==
  IF worker \in Settleable \cup Outcomes /\ Reports(n) # {}
    THEN page.items[Max(Reports(n))] ELSE worker

(* settleWorkerReportInTransaction, over the first n items: the first report
   settles a worker that still admits one. *)
WorkerAfter(n) ==
  IF worker \in Settleable /\ Reports(n) # {}
    THEN page.items[Min(Reports(n))] ELSE worker

(* The reports that find the Dispatch and its Task settled with their outcome. *)
Accepted(n) ==
  {SequenceOf(i) : i \in {j \in Reports(n) :
                            WorkerAfter(j) = page.items[j] /\ task # "moved"}}

Rejected(n) == {SequenceOf(i) : i \in Reports(n)} \ Accepted(n)

(* Fault: an item already imported is stored again. *)
ImportAgain(n) ==
  LET new == {q \in page.from .. page.from + n - 1 : q > Len(inbox)}
  IN  /\ inbox' = inbox \o SubSeq(page.items, 1, n)
      /\ refused' = refused \cup (Rejected(n) \cap new)
      /\ worker' = WorkerAfter(n)

(* The first n items of the page, each in its own transaction.  An item already
   imported is not stored again, nor its message converted. *)
Import(n) ==
  LET new == {s \in page.from .. page.from + n - 1 : s > Len(inbox)}
  IN  /\ inbox' = inbox \o SubSeq(page.items, Bigger(1, Len(inbox) + 2 - page.from), n)
      /\ refused' = refused \cup (Rejected(n) \cap new)
      /\ worker' = WorkerAfter(n)

(* An item of the page under a committed sequence whose message is another. *)
Mismatched ==
  {i \in 1..Len(page.items) :
     SequenceOf(i) <= Len(inbox) /\ inbox[SequenceOf(i)] # page.items[i]}

(* Fault: only the sequence after the last import is taken. *)
NextOnly == page.from = Len(inbox) + 1

Contiguous == page.from <= Len(inbox) + 1

(* The items before the one that makes the import throw. *)
Importable ==
  IF ~Contiguous THEN 0
  ELSE IF Mismatched = {} THEN Len(page.items) ELSE Min(Mismatched) - 1

(* The peer answered the pull from the runtime whose capability was settled. *)
CanSettle == sync.supported /\ sync.capEpoch = page.epoch

(* The first report of the page, when the peer cannot take its settlement. *)
Barred == protocol = "settling" /\ ~CanSettle /\ Reports(Len(page.items)) # {}

AckCursor ==
  IF Barred THEN SequenceOf(Min(Reports(Len(page.items)))) - 1 ELSE Cursor

AlreadyAcked ==
  Bigger(IF checkpoint.epoch = page.epoch THEN checkpoint.through ELSE 0,
         IF sync.epoch = page.epoch THEN ackedHome ELSE 0)

FullPage == Len(page.items) = PageSize

(* When a sync ends, the checkpoint of a Dispatch that is no longer relayed is
   dropped. *)
EndSync(mark) ==
  /\ phase' = "idle"
  /\ checkpoint' = IF Eligible' THEN mark ELSE NoCheckpoint

(* The tail of a page: the cache and the row learn the epoch that answered, and
   a full page without a barrier is followed by the next one. *)
EndPage(mark) ==
  /\ known' = page.epoch
  /\ cap' = IF known = page.epoch THEN cap ELSE "unasked"
  /\ rowEpoch' = page.epoch
  /\ ask' = NoAsk
  /\ page' = NoPage
  /\ sync' = NoSync
  /\ IF FullPage /\ pagesLeft > 1 /\ ~Barred
       THEN phase' = "begin" /\ pagesLeft' = pagesLeft - 1 /\ checkpoint' = mark
       ELSE EndSync(mark) /\ pagesLeft' = 0

(* The sync throws. *)
AbandonSync ==
  /\ EndSync(checkpoint)
  /\ pagesLeft' = 0 /\ sync' = NoSync /\ page' = NoPage /\ ask' = NoAsk
  /\ UNCHANGED <<known, cap>>

(* The whole page is imported, and the acknowledgment is sent when it says
   something the home does not know to be acknowledged. *)
ImportPage ==
  /\ phase = "import"
  /\ Importable = Len(page.items) /\ Contiguous
  /\ Import(Len(page.items))
  /\ UNCHANGED <<protocol, serverVars, processVars, ackedHome, task, stopVars, late,
                 faults>>
  /\ IF AckCursor > AlreadyAcked
       THEN /\ phase' = "ack"
            /\ ask' = [id |-> Cursor, through |-> AckCursor,
                       accepted |-> IF CanSettle THEN Accepted(Len(page.items)) ELSE {},
                       rejected |-> IF CanSettle THEN Rejected(Len(page.items)) ELSE {}]
            /\ UNCHANGED <<rowEpoch, pagesLeft, sync, page, cacheVars>>
       ELSE EndPage(checkpoint)

(* The import throws on an item; those before it stay imported. *)
ImportThrows ==
  /\ phase = "import"
  /\ Importable < Len(page.items) \/ ~Contiguous
  /\ Import(Importable)
  /\ UNCHANGED <<protocol, serverVars, processVars, ackedHome, rowEpoch, task,
                 stopVars, late, faults>>
  /\ AbandonSync

-----------------------------------------------------------------------------
(* The acknowledgment on the worker's server: a durable mutation whose       *)
(* request id names the Dispatch and the last sequence of the page.          *)

ReceiptOf(a) == {r \in receipts : r.ask.id = a.id}

(* Fault: an acknowledgment may leave out the settlement of a report. *)
AcknowledgeableInPart(a) ==
  LET outcomes == {queue[s] : s \in a.accepted}
  IN  /\ \A s \in a.accepted \cup a.rejected :
           s <= a.through /\ queue[s] \in Outcomes
      /\ Cardinality(outcomes) <= 1
      /\ \A o \in outcomes : attachment = o \/ attachment \in Settleable

(* acknowledgeFederationRelay's checks: settlements are for reports up to the
   acknowledged sequence, with a settling home none of those may be missing,
   they agree, and the attachment can take them. *)
Acknowledgeable(a) ==
  LET outcomes == {queue[s] : s \in a.accepted}
  IN  /\ \A s \in a.accepted \cup a.rejected :
           s <= a.through /\ queue[s] \in Outcomes
      /\ protocol = "settling" =>
           \A s \in Unacked : s <= a.through /\ queue[s] \in Outcomes
                               => s \in a.accepted \cup a.rejected
      /\ Cardinality(outcomes) <= 1
      /\ \A o \in outcomes : attachment = o \/ attachment \in Settleable

(* Fault: everything queued is acknowledged. *)
AcknowledgeAll(a) ==
  /\ attachment' = IF a.accepted = {} THEN attachment ELSE queue[Min(a.accepted)]
  /\ ackd' = Len(queue)

(* Its effects: the settled outcome, and everything up to the sequence. *)
Acknowledge(a) ==
  /\ attachment' = IF a.accepted = {} THEN attachment ELSE queue[Min(a.accepted)]
  /\ ackd' = Bigger(ackd, a.through)

(* The request is executed: carried out and recorded, or answered from the
   record of the same request. *)
Executes(a) ==
  \/ /\ ReceiptOf(a) = {}
     /\ Acknowledgeable(a) /\ Acknowledge(a)
     /\ receipts' = receipts \cup {[ask |-> a, done |-> TRUE]}
  \/ /\ [ask |-> a, done |-> TRUE] \in receipts
     /\ UNCHANGED <<attachment, ackd, receipts>>

(* It is refused: the id was used with another payload, its first execution has
   no recorded outcome, or the checks fail. *)
Refuses(a) ==
  IF ReceiptOf(a) = {} THEN ~Acknowledgeable(a)
                       ELSE [ask |-> a, done |-> TRUE] \notin receipts

AckArrives ==
  /\ phase = "ack"
  /\ Executes(ask)
  /\ phase' = "acked"
  /\ UNCHANGED <<protocol, queue, processVars, homeVars, pagesLeft, sync, page, ask,
                 cacheVars, stopVars, late, faults>>

AckRefused ==
  /\ phase = "ack"
  /\ Refuses(ask)
  /\ UNCHANGED <<protocol, serverVars, processVars, homeVars, stopVars, late, faults>>
  /\ AbandonSync

(* An acknowledgment the home no longer waits for is executed after all. *)
LateAckArrives ==
  \E a \in late :
    /\ Executes(a)
    /\ late' = late \ {a}
    /\ UNCHANGED <<protocol, queue, processVars, homeVars, syncVars, cacheVars,
                   stopVars, faults>>

(* Or is lost, or refused with no one to tell. *)
LateAckVanishes ==
  \E a \in late :
    /\ late' = late \ {a}
    /\ UNCHANGED <<protocol, serverVars, processVars, homeVars, syncVars, cacheVars,
                   stopVars, faults>>

(* What the home records: one less when this was a full page and the last one
   allowed, so that the Dispatch stays eligible. *)
Recorded ==
  IF FullPage /\ pagesLeft = 1 THEN Bigger(0, ask.through - 1) ELSE ask.through

(* recordFederationAckCheckpoint. *)
Checkpointed ==
  IF checkpoint.epoch = page.epoch /\ checkpoint.through >= Recorded
    THEN checkpoint ELSE [epoch |-> page.epoch, through |-> Recorded]

(* The acknowledgment is answered: the row and the checkpoint record it. *)
AckReturns ==
  /\ phase = "acked"
  /\ ackedHome' = IF rowEpoch = page.epoch THEN Bigger(ackedHome, Recorded) ELSE Recorded
  /\ UNCHANGED <<protocol, serverVars, processVars, inbox, refused, worker, task,
                 stopVars, late, faults>>
  /\ EndPage(Checkpointed)

-----------------------------------------------------------------------------
(* worker-stop of the federated worker.                                      *)

(* worker-stop at home: a stop of this process that is under way is not
   repeated, one a dead process left behind is.  Bound: one request on its way
   to the worker's server or being carried out there. *)
BeginStop ==
  /\ worker = "ready" \/ (worker = "stopping" /\ stopCall = "none")
  /\ stop = "none" /\ stops < MaxStops
  /\ worker' = "stopping"
  /\ stopCall' = "asked" /\ stop' = "sent" /\ stops' = stops + 1
  /\ UNCHANGED <<protocol, serverVars, processVars, inbox, refused, ackedHome,
                 rowEpoch, task, syncVars, cacheVars, late, faults>>

(* The reply reaches a home that still waits for it. *)
Answer(state) == stopCall' = IF stopCall = "asked" THEN state ELSE stopCall

(* federationStop begins: a settled attachment is returned as it is, one that
   may be live becomes stopping while its terminal is closed, any other is an
   error. *)
StopArrives ==
  /\ stop = "sent"
  /\ IF attachment = "ready"
       THEN attachment' = "stopping" /\ stop' = "closing" /\ UNCHANGED stopCall
       ELSE /\ UNCHANGED attachment /\ stop' = "none"
            /\ Answer(IF attachment \in Outcomes \cup {"stopped"}
                        THEN attachment ELSE "error")
  /\ UNCHANGED <<protocol, queue, ackd, receipts, processVars, homeVars, syncVars,
                 cacheVars, stops, late, faults>>

(* The terminal was closed and its process seen to end, or not. *)
TerminalClosed ==
  /\ stop = "closing"
  /\ attachment' \in (IF attachment = "stopping" THEN {"stopped", "stop_unknown"}
                                                  ELSE {attachment})
  /\ Answer(attachment') /\ stop' = "none"
  /\ UNCHANGED <<protocol, queue, ackd, receipts, processVars, homeVars, syncVars,
                 cacheVars, stops, late, faults>>

(* What a reply makes of the worker at home. *)
StopVerdict(reply) ==
  IF worker # "stopping" THEN worker
  ELSE IF reply = "stopped" THEN "stopped"
  ELSE IF reply \in Outcomes THEN "ready"
  ELSE "stop_unknown"

StopReturns ==
  /\ stopCall \notin {"none", "asked"}
  /\ worker' = StopVerdict(stopCall)
  /\ stopCall' = "none"
  /\ UNCHANGED <<protocol, serverVars, processVars, inbox, refused, ackedHome,
                 rowEpoch, task, syncVars, cacheVars, stop, stops, late, faults>>

-----------------------------------------------------------------------------
(* The operator at home.                                                     *)

(* worker-show: the observed attachment settles a stop whose outcome is not
   known, and the row learns the epoch that answered, which the server may have
   left since; an observation overtaken by a newer epoch of the row is dropped. *)
Show ==
  /\ worker' = IF attachment = "stopped" /\ worker \in {"stopping", "stop_unknown"}
                 THEN "stopped" ELSE worker
  /\ rowEpoch' \in rowEpoch..epoch
  /\ UNCHANGED <<protocol, serverVars, processVars, inbox, refused, ackedHome, task,
                 syncVars, cacheVars, stopVars, late, faults>>

(* worker-abandon. *)
Abandon ==
  /\ worker \in Settleable \/ (worker = "stopping" /\ stopCall = "none")
  /\ worker' = "abandoned"
  /\ UNCHANGED <<protocol, serverVars, processVars, inbox, refused, ackedHome,
                 rowEpoch, task, syncVars, cacheVars, stopVars, late, faults>>

(* task-update takes the settled Task elsewhere, or back. *)
MoveTask ==
  /\ worker \in Outcomes
  /\ task' = IF task = "moved" THEN "back" ELSE "moved"
  /\ UNCHANGED <<protocol, serverVars, processVars, inbox, refused, ackedHome,
                 rowEpoch, worker, syncVars, cacheVars, stopVars, late, faults>>

-----------------------------------------------------------------------------
(* Faults.                                                                   *)

OneMoreFault == faults < MaxFaults /\ faults' = faults + 1

(* A call of the sync fails before it is executed, or after: the sync throws,
   and an acknowledgment may still be on its way. *)
CallFails ==
  /\ OneMoreFault
  /\ phase \in {"begin", "pull", "import", "ack", "acked"}
  /\ late' \in (IF phase = "ack" THEN {late, late \cup {ask}} ELSE {late})
  /\ UNCHANGED <<protocol, serverVars, processVars, homeVars, stopVars>>
  /\ AbandonSync

(* The home's process dies and another starts: its memory is gone, its calls
   may still be executed. *)
HomeProcessDies ==
  /\ late' \in (IF phase = "ack" THEN {late, late \cup {ask}} ELSE {late})
  /\ phase' = "idle" /\ pagesLeft' = 0
  /\ sync' = NoSync /\ page' = NoPage /\ ask' = NoAsk
  /\ known' = 0 /\ cap' = "unasked" /\ checkpoint' = NoCheckpoint
  /\ stopCall' = "none"
  /\ UNCHANGED <<protocol, serverVars, processVars, ackedHome, rowEpoch, task, stop,
                 stops>>

HomeRestarts ==
  /\ OneMoreFault
  /\ HomeProcessDies
  /\ UNCHANGED <<inbox, refused, worker>>

(* It dies between two items of a page. *)
HomeDiesImporting ==
  /\ OneMoreFault
  /\ phase = "import"
  /\ \E n \in 1..Importable : Import(n)
  /\ HomeProcessDies

(* The worker's server restarts, perhaps with another version: a stop being
   carried out is forgotten. *)
ServerProcessDies ==
  /\ epoch < MaxEpoch
  /\ epoch' = epoch + 1
  /\ capable' \in (IF protocol = "settling" THEN BOOLEAN ELSE {FALSE})
  /\ stop' = IF stop = "closing" THEN "none" ELSE stop

ServerRestarts ==
  /\ OneMoreFault
  /\ ServerProcessDies
  /\ UNCHANGED <<protocol, serverVars, homeVars, syncVars, cacheVars, stopCall, stops,
                 late>>

(* It dies between the receipt of an acknowledgment and its outcome, before or
   after the acknowledgment is committed. *)
ServerDiesAcknowledging ==
  /\ OneMoreFault
  /\ phase = "ack" /\ ReceiptOf(ask) = {}
  /\ receipts' = receipts \cup {[ask |-> ask, done |-> FALSE]}
  /\ \/ Acknowledgeable(ask) /\ Acknowledge(ask)
     \/ UNCHANGED <<attachment, ackd>>
  /\ ServerProcessDies
  /\ UNCHANGED <<protocol, queue, homeVars, stopCall, stops, late>>
  /\ AbandonSync

(* The home gives the stop up: the worker may be running or not. *)
StopFails ==
  /\ stopCall # "none"
  /\ IF stop = "none" /\ stopCall = "asked" THEN UNCHANGED faults ELSE OneMoreFault
  /\ stop' \in (IF stop = "sent" THEN {"sent", "none"} ELSE {stop})
  /\ stopCall' = "none"
  /\ worker' = IF worker = "stopping" THEN "stop_unknown" ELSE worker
  /\ UNCHANGED <<protocol, serverVars, processVars, inbox, refused, ackedHome,
                 rowEpoch, task, syncVars, cacheVars, stops, late>>

-----------------------------------------------------------------------------
Next ==
  \/ \E kind \in Kinds, same \in BOOLEAN : Enqueue(kind, same)
  \/ EnqueueSetupStatus
  \/ Tick \/ ShowSyncs \/ BeginPage \/ PullArrives \/ ImportPage \/ ImportThrows
  \/ AckArrives \/ AckRefused \/ LateAckArrives \/ LateAckVanishes \/ AckReturns
  \/ BeginStop \/ StopArrives \/ TerminalClosed \/ StopReturns \/ StopFails
  \/ Show \/ Abandon \/ MoveTask
  \/ CallFails \/ HomeRestarts \/ HomeDiesImporting
  \/ ServerRestarts \/ ServerDiesAcknowledging

Spec == Init /\ [][Next]_vars

(* The home's two timers fire for ever, and a call of the sync is answered, refused
   or fails within fifteen seconds: the sync makes progress as long as it has
   something to do.  Nothing is assumed of workers, operators, faults or of calls
   already given up. *)
SyncStep ==
  \/ Tick \/ BeginPage \/ PullArrives \/ ImportPage \/ ImportThrows
  \/ AckArrives \/ AckRefused \/ AckReturns

FairSpec == Spec /\ WF_vars(SyncStep)

-----------------------------------------------------------------------------
(* Properties.                                                               *)

Asks == [id : Nat, through : Nat, accepted : SUBSET Nat, rejected : SUBSET Nat]

(* Every column and variable has its type, and the cursors stay within what there
   is to count: no more is imported than was queued, nor recorded as acknowledged
   than was imported. *)
TypeOK ==
  /\ protocol \in Protocols
  /\ queue \in Seq(Kinds) /\ Len(queue) <= MaxItems
  /\ ackd \in 0..Len(queue)
  /\ attachment \in Live \cup Outcomes \cup {"stopped"}
  /\ receipts \subseteq [ask : Asks, done : BOOLEAN]
  /\ epoch \in 1..MaxEpoch /\ capable \in BOOLEAN
  /\ inbox \in Seq(Kinds) /\ Len(inbox) <= Len(queue)
  /\ refused \subseteq 1..Len(inbox)
  /\ ackedHome \in 0..Len(inbox)
  /\ rowEpoch \in Nat
  /\ worker \in Live \cup Outcomes \cup {"stopped", "abandoned"}
  /\ task \in {"still", "moved", "back"}
  /\ phase \in {"idle", "begin", "pull", "import", "ack", "acked"}
  /\ pagesLeft \in 0..MaxPages
  /\ sync \in [epoch : Nat, supported : BOOLEAN, capEpoch : Nat]
  /\ page \in [from : Nat \ {0}, items : Seq(Kinds), epoch : Nat]
  /\ ask \in Asks /\ late \subseteq Asks
  /\ known \in Nat /\ cap \in {"unasked", "yes", "no"}
  /\ checkpoint \in [epoch : Nat, through : Nat]
  /\ stopCall \in {"none", "asked", "error", "stopped"} \cup Live \cup Outcomes
  /\ stop \in {"none", "sent", "closing"}
  /\ stops \in 0..MaxStops /\ faults \in 0..MaxFaults

(* The worker's server never drops from its replay an item the home has not
   imported, and the home never believes acknowledged what is not: across lost,
   late and repeated acknowledgments, barriers, capability changes and restarts of
   either side (the acknowledgment cursor of federation-sync.ts). *)
NothingAckedUnseen ==
  /\ ackd <= Len(inbox)
  /\ ackedHome <= ackd

(* With a settling home the worker's server shows a worker as succeeded or failed
   only when the Run's home holds that very outcome, whatever stops, abandons, late
   acknowledgments and conflicting reports cross it. *)
ServersAgree ==
  protocol = "settling" /\ attachment \in Outcomes => worker = attachment

(* A settling home's acknowledgment never swallows a report: each acknowledged one
   has settled the attachment or lies rejected in the home's mailbox, unless the
   operator has moved the Task in between.  A report that took the place of a
   heartbeat after that heartbeat was imported is the case that is easy to miss. *)
ReportsGetVerdicts ==
  protocol = "settling" =>
    \A s \in 1..ackd : queue[s] \in Outcomes =>
      \/ attachment = queue[s]
      \/ s \in refused
      \/ task # "still"

(* The relay implements the abstract delivery of reports, for a settling home and
   while no report takes a heartbeat's place. *)
OpenOr(state, live) == IF state \in live THEN "open"
                       ELSE IF state \in Outcomes THEN state ELSE "withdrawn"

Abstract == INSTANCE ReportDelivery WITH
  Mail <- MailKinds, Outcomes <- Outcomes,
  sent <- queue, received <- inbox,
  verdict <- OpenOr(worker, Live), mirrored <- OpenOr(attachment, Live)

ImplementsDelivery == Abstract!Spec

(* No acknowledgment died between its receipt and its outcome. *)
Untorn == \A r \in receipts : r.done

(* Whatever the worker queued while its Dispatch is live reaches the home in the
   end, a runtime that loses lifecycle settlement for a while and every single loss
   included, provided the runtime can settle in the end. *)
Delivery ==
  []Untorn /\ (protocol = "legacy" \/ <>[]capable) =>
    \A s \in Sequences : (Len(queue) >= s) ~> (Len(inbox) >= s \/ worker \notin Live)

(* The request id of the acknowledgment the home will send next has been used for
   another payload, or its first use has no recorded outcome. *)
IdSpent ==
  \E r \in receipts : r.ask.id = Len(inbox) /\ (r.ask.through < Len(inbox) \/ ~r.done)

(* What may keep a settled home from settling the worker's server: a stop got there
   first, the settling report was refused before, the Task was moved, or the
   request id is spent. *)
VerdictBlocked(o) ==
  \/ attachment \in {"stopping", "stopped"}
  \/ \E s \in refused : inbox[s] = o
  \/ task # "still"
  \/ IdSpent

(* An outcome settled at home reaches the worker's server in the end, through lost
   pulls, lost acknowledgments and restarts, or one of the named obstacles exists.  *)
VerdictReachesServer ==
  protocol = "settling" /\ <>[]capable =>
    \A o \in Outcomes : (worker = o) ~> (attachment = o \/ VerdictBlocked(o))

(* "Federated relay sequence N was committed without its message" is the error of a
   broken database: every sequence the home has imported holds the message the
   worker's server has queued under it (federation-relay-import.ts:54). *)
CommittedHasMessage == \A s \in 1..Len(inbox) : inbox[s] = queue[s]

(* A lost acknowledgment is retried until the home records it, so that a Dispatch
   does not stay eligible for ever (federation.test.ts: "retries a lost relay
   acknowledgment"): even when one answer is all that goes wrong. *)
NothingElseWrong ==
  /\ Untorn /\ capable /\ epoch = 1
  /\ task = "still" /\ worker # "abandoned"

Acked ==
  []NothingElseWrong => (ackedHome < Len(inbox)) ~> (ackedHome = Len(inbox))
=============================================================================
