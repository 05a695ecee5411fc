------------------------------ MODULE DurablePush ------------------------------
(***************************************************************************)
(* The push gateway keeps one row for every notification owed to a phone   *)
(* and lets concurrent drains claim rows under leases, send them and       *)
(* delete or reschedule them.  A dismissal cancels the alerts it is about  *)
(* that nobody is sending, and is itself delivered after those somebody is.*)
(*                                                                         *)
(* Transactions are PostgreSQL's at READ COMMITTED: a statement sees what  *)
(* is committed when it runs, row locks and transaction-scoped advisory    *)
(* locks last until the transaction ends, and a statement on a locked row  *)
(* waits and evaluates its condition anew.  Every statement of a claim is  *)
(* a step.  The times a transaction passes may be as old as MaxWait.       *)
(***************************************************************************)
EXTENDS Integers, FiniteSets

CONSTANTS
  Alerts, Dismissals,  \* the events of one host
  Cancels,             \* the alerts a dismissal is about, none newer than itself
  Devices,             \* registrations
  Rows,                \* which event goes to which device
  Id,                  \* the random id of each row
  Drains,              \* drains, of any number of workers
  Attempts,            \* candidates a claim tries
  Lease,               \* how long a lease lasts (30 seconds)
  TTL,                 \* how long an event may be delivered (5 minutes)
  MaxWait,             \* bound: between taking the time and using it
  MaxDelay,            \* bound: delay of a retry
  MaxTime,             \* bound: the clock
  MaxLeases            \* bound: leases of one row

ASSUME PushConstants ==
  /\ Cancels \in [Dismissals -> SUBSET Alerts]
  /\ Alerts \cap Dismissals = {}
  /\ Rows \subseteq (Alerts \cup Dismissals) \X Devices
  /\ Id \in [Rows -> Nat]
  /\ \A r, q \in Rows : Id[r] = Id[q] => r = q
  /\ {Lease, TTL, MaxDelay} \subseteq Nat \ {0}
  /\ {Attempts, MaxWait, MaxTime, MaxLeases} \subseteq Nat

VARIABLES
  clock,
  expires,     \* push_events: when an event expires, 0 before it is accepted
  recipients,  \* push_event_recipients
  dismissed,   \* push_dismissed_events: the alerts that are dismissed
  batch,       \* push_delivery_batches, by the event and the device
  accepting,   \* the acceptance of a dismissal under way, under the host's lock
  drain,       \* what each drain is doing
  lapsed,      \* history: drains that hold a delivery whose lease has run out
  told         \* history: dismissals some drain has been given

vars == <<clock, expires, recipients, dismissed, batch, accepting, drain, lapsed, told>>
events == <<expires, recipients, dismissed>>

Events == Alerts \cup Dismissals
Pending == DOMAIN batch

Device(r) == r[2]
Expires(r) == expires[r[1]]

NoAccept == [at |-> "none"]
Idle == [at |-> "idle"]

Init ==
  /\ clock = 0
  /\ expires = [e \in Events |-> 0] /\ recipients = {} /\ dismissed = {}
  /\ batch = [r \in {} |-> Idle]
  /\ accepting = NoAccept
  /\ drain = [w \in Drains |-> Idle]
  /\ lapsed = {} /\ told = {}

(* A time a transaction took when it began. *)
Times == {t \in clock - MaxWait .. clock : t >= 0}

-----------------------------------------------------------------------------
(* Row locks.                                                              *)

Claiming == {"candidate", "device", "head", "judge", "lease"}

(* Rows a transaction has locked until it ends. *)
Locked ==
  (UNION {drain[w].rows : w \in {v \in Drains : drain[v].at \in Claiming}})
    \cup (IF accepting.at = "delete" THEN accepting.rows ELSE {})

DeviceLocked(d, w) ==
  \E v \in Drains \ {w} : drain[v].at \in Claiming /\ d \in drain[v].devices

-----------------------------------------------------------------------------
(* Accepting.                                                              *)

NewBatch(now) == [due |-> now, created |-> now, until |-> 0, token |-> 0, leases |-> 0]

Without(rows) == [r \in Pending \ rows |-> batch[r]]

(* A new event expires after its time to live, or sooner if the host says so; it
   may be accepted again for another device. *)
Lives(e, now, x) ==
  IF expires[e] = 0 THEN x \in now + 1 .. now + TTL ELSE x = expires[e] /\ x > now

(* A dismissed alert is recorded as an event and not queued. *)
AcceptAlert(e, d) ==
  /\ accepting = NoAccept
  /\ <<e, d>> \in Rows \ recipients
  /\ \E now \in Times, x \in 1 .. clock + TTL :
       /\ Lives(e, now, x)
       /\ expires' = [expires EXCEPT ![e] = x]
       /\ IF e \in dismissed
            THEN UNCHANGED <<recipients, batch>>
            ELSE /\ recipients' = recipients \cup {<<e, d>>}
                 /\ batch' = [r \in Pending \cup {<<e, d>>} |->
                                IF r = <<e, d>> THEN NewBatch(now) ELSE batch[r]]
  /\ UNCHANGED <<clock, dismissed, accepting, drain, lapsed, told>>

(* The dismissal is noted, uncommitted, and the alerts it is about that nobody has
   leased are listed. *)
ListAlerts(e, d) ==
  /\ accepting = NoAccept
  /\ <<e, d>> \in Rows \ recipients
  /\ \E now \in Times, x \in 1 .. clock + TTL :
       /\ Lives(e, now, x)
       /\ accepting' = [at |-> "list", event |-> e, device |-> d, now |-> now, expires |-> x,
                        rows |-> {r \in Pending : /\ r[1] \in Cancels[e] /\ Device(r) = d
                                                  /\ batch[r].until <= now}]
  /\ UNCHANGED <<clock, events, batch, drain, lapsed, told>>

(* Fault: every listed alert is deleted, leased meanwhile or not. *)
DeletableListed(r) == TRUE

(* The lease guard of the delete, evaluated when the row is unlocked. *)
Deletable(r) == batch[r].until <= accepting.now

DeleteAlerts ==
  /\ accepting.at = "list"
  /\ accepting.rows \cap Locked = {}
  /\ accepting' = [accepting EXCEPT !.at = "delete",
                     !.rows = {r \in accepting.rows \cap Pending : Deletable(r)}]
  /\ UNCHANGED <<clock, events, batch, drain, lapsed, told>>

(* Fault: the recipient is not recorded. *)
CommitUnrecorded ==
  LET r == <<accepting.event, accepting.device>>
      kept == Without(accepting.rows)
  IN  /\ accepting.at = "delete"
      /\ expires' = [expires EXCEPT ![accepting.event] = accepting.expires]
      /\ dismissed' = dismissed \cup Cancels[accepting.event]
      /\ batch' = [q \in DOMAIN kept \cup {r} |->
                     IF q = r THEN NewBatch(accepting.now) ELSE kept[q]]
      /\ accepting' = NoAccept
      /\ UNCHANGED <<clock, recipients, drain, lapsed, told>>

CommitDismissal ==
  LET r == <<accepting.event, accepting.device>>
      kept == Without(accepting.rows)
  IN  /\ accepting.at = "delete"
      /\ expires' = [expires EXCEPT ![accepting.event] = accepting.expires]
      /\ recipients' = recipients \cup {r}
      /\ dismissed' = dismissed \cup Cancels[accepting.event]
      /\ batch' = [q \in DOMAIN kept \cup {r} |->
                     IF q = r THEN NewBatch(accepting.now) ELSE kept[q]]
      /\ accepting' = NoAccept
      /\ UNCHANGED <<clock, drain, lapsed, told>>

AbortDismissal ==
  /\ accepting # NoAccept /\ accepting' = NoAccept
  /\ UNCHANGED <<clock, events, batch, drain, lapsed, told>>

-----------------------------------------------------------------------------
(* Claiming.                                                               *)

(* ORDER BY due_at, created_at, batch_id *)
Before(q, r) ==
  \/ batch[q].due < batch[r].due
  \/ /\ batch[q].due = batch[r].due
     /\ \/ batch[q].created < batch[r].created
        \/ batch[q].created = batch[r].created /\ Id[q] < Id[r]

Alive(r, now) == Expires(r) > now /\ batch[r].due > now - TTL

(* A lease on any delivery of the device is running. *)
Busy(d, now) == \E q \in Pending : Device(q) = d /\ batch[q].until > now

Claimable(r, now, skipped) ==
  /\ Alive(r, now) /\ batch[r].due <= now
  /\ batch[r].until <= now /\ ~Busy(Device(r), now)
  /\ Device(r) \notin skipped

NewClaim(now) == [now |-> now, rows |-> {}, devices |-> {}, skipped |-> {}]

(* History: the places of the rows of its device that sort before r. *)
Ahead(r, now) ==
  {<<q, batch[q].due>> :
     q \in {q \in Pending : Device(q) = Device(r) /\ Alive(q, now) /\ Before(q, r)}}

Picking(c, r) ==
  [at |-> "device", now |-> c.now, rows |-> c.rows \cup {r}, devices |-> c.devices,
   skipped |-> c.skipped, row |-> r, ahead |-> Ahead(r, c.now)]

(* FOR UPDATE SKIP LOCKED: the first claimable row that is not locked, or nothing. *)
SelectCandidate(w) ==
  /\ drain[w].at \in {"idle", "candidate"}
  /\ \E c \in IF drain[w] = Idle THEN {NewClaim(now) : now \in Times} ELSE {drain[w]} :
       LET open == IF Cardinality(c.skipped) >= Attempts THEN {}
                   ELSE {r \in Pending : Claimable(r, c.now, c.skipped) /\ r \notin Locked}
       IN  \/ open = {} /\ drain' = [drain EXCEPT ![w] = Idle]
           \/ \E r \in open : /\ \A q \in open \ {r} : Before(r, q)
                              /\ drain' = [drain EXCEPT ![w] = Picking(c, r)]
  /\ UNCHANGED <<clock, events, batch, accepting, lapsed, told>>

(* Try another device; the locks taken so far are kept. *)
Skipping(c) ==
  [at |-> "candidate", now |-> c.now, rows |-> c.rows, devices |-> c.devices,
   skipped |-> c.skipped \cup {Device(c.row)}]

LockDevice(w) ==
  LET c == drain[w]
  IN  /\ c.at = "device"
      /\ drain' = [drain EXCEPT ![w] =
           IF DeviceLocked(Device(c.row), w) THEN Skipping(c)
           ELSE [c EXCEPT !.at = "head", !.devices = @ \cup {Device(c.row)}]]
      /\ UNCHANGED <<clock, events, batch, accepting, lapsed, told>>

(* Fault: the first row that was not locked will do. *)
HeadUnlocked(r, now) == ~Busy(Device(r), now)

(* Fault: the device is not asked for a lease again. *)
HeadOnly(r, now) ==
  \A q \in Pending : Device(q) = Device(r) /\ Alive(q, now) => ~Before(q, r)

(* The row is the first of its device, locked rows included, and no lease on the
   device is running. *)
OwnsHead(r, now) ==
  /\ ~Busy(Device(r), now)
  /\ \A q \in Pending : Device(q) = Device(r) /\ Alive(q, now) => ~Before(q, r)

CheckHead(w) ==
  LET c == drain[w]
  IN  /\ c.at = "head"
      /\ drain' = [drain EXCEPT ![w] =
           IF OwnsHead(c.row, c.now) THEN [c EXCEPT !.at = "judge"] ELSE Skipping(c)]
      /\ UNCHANGED <<clock, events, batch, accepting, lapsed, told>>

(* Fault: a claim does not ask whether its alert was dismissed. *)
NeverDismissed(r) == FALSE

Dismissed(r) == r[1] \in dismissed

(* A dismissed alert is deleted and the claim is over. *)
JudgeAlert(w) ==
  LET c == drain[w]
  IN  /\ c.at = "judge"
      /\ IF Dismissed(c.row)
           THEN /\ batch' = Without({c.row})
                /\ drain' = [drain EXCEPT ![w] = Idle]
           ELSE /\ drain' = [drain EXCEPT ![w] = [c EXCEPT !.at = "lease"]]
                /\ UNCHANGED batch
      /\ UNCHANGED <<clock, events, accepting, lapsed, told>>

(* The lease is written and the claim commits.  A token is one of its row's leases. *)
LeaseRow(w) ==
  LET c == drain[w]
      n == batch[c.row].leases + 1
  IN  /\ c.at = "lease" /\ n <= MaxLeases
      /\ batch' = [batch EXCEPT ![c.row].until = c.now + Lease, ![c.row].token = n,
                                ![c.row].leases = n]
      /\ drain' = [drain EXCEPT ![w] = [at |-> "deliver", row |-> c.row, token |-> n]]
      /\ lapsed' = IF c.now + Lease <= clock THEN lapsed \cup {w} ELSE lapsed
      /\ told' = IF c.row[1] \in Dismissals THEN told \cup {c.row} ELSE told
      /\ UNCHANGED <<clock, events, accepting>>

-----------------------------------------------------------------------------
(* Delivering.                                                             *)

Delivers(w) == drain[w].at = "deliver"

(* The row still bears the token of the drain's lease. *)
Holds(w) ==
  Delivers(w) /\ drain[w].row \in Pending /\ batch[drain[w].row].token = drain[w].token

(* A write keyed by row and token waits for the row's lock. *)
Unlocked(w) == drain[w].row \notin Locked

Renew(w) ==
  /\ Holds(w) /\ Unlocked(w)
  /\ \E now \in Times :
       /\ batch' = [batch EXCEPT ![drain[w].row].until = now + Lease]
       /\ lapsed' = IF now + Lease <= clock THEN lapsed \cup {w} ELSE lapsed
  /\ UNCHANGED <<clock, events, accepting, drain, told>>

Ends(w) ==
  /\ drain' = [drain EXCEPT ![w] = Idle]
  /\ lapsed' = lapsed \ {w}
  /\ UNCHANGED <<clock, events, accepting, told>>

(* Sent, refused for good, or expired. *)
FinishDelivery(w) ==
  /\ Delivers(w) /\ Unlocked(w)
  /\ batch' = IF Holds(w) THEN Without({drain[w].row}) ELSE batch
  /\ Ends(w)

(* Refused for now, or the finish of a delivery failed; not rescheduled to or past
   the row's expiry. *)
RetryDelivery(w) ==
  /\ Delivers(w) /\ Unlocked(w)
  /\ \E due \in clock + 1 .. clock + MaxDelay :
       /\ due < Expires(drain[w].row)
       /\ batch' = IF Holds(w)
                     THEN [batch EXCEPT ![drain[w].row].due = due, ![drain[w].row].until = 0,
                                        ![drain[w].row].token = 0]
                     ELSE batch
  /\ Ends(w)

(* The worker dies or a statement fails: a claim is rolled back, a lease stays. *)
Stops(w) ==
  /\ drain[w] # Idle
  /\ UNCHANGED batch
  /\ Ends(w)

Prune(r) ==
  /\ Expires(r) <= clock /\ batch[r].until <= clock /\ r \notin Locked
  /\ batch' = Without({r})
  /\ UNCHANGED <<clock, events, accepting, drain, lapsed, told>>

Tick ==
  /\ clock < MaxTime /\ clock' = clock + 1
  /\ lapsed' = lapsed \cup
       {w \in Drains : Delivers(w) /\ (Holds(w) => batch[drain[w].row].until <= clock + 1)}
  /\ UNCHANGED <<events, batch, accepting, drain, told>>

Next ==
  \/ \E d \in Devices : \/ \E e \in Alerts : AcceptAlert(e, d)
                        \/ \E e \in Dismissals : ListAlerts(e, d)
  \/ DeleteAlerts \/ CommitDismissal \/ AbortDismissal
  \/ \E w \in Drains :
       \/ SelectCandidate(w) \/ LockDevice(w) \/ CheckHead(w)
       \/ JudgeAlert(w) \/ LeaseRow(w)
       \/ Renew(w) \/ FinishDelivery(w) \/ RetryDelivery(w) \/ Stops(w)
  \/ \E r \in Pending : Prune(r)
  \/ Tick

Spec == Init /\ [][Next]_vars

-----------------------------------------------------------------------------
(* Properties.                                                             *)

TypeOK ==
  /\ clock \in 0..MaxTime
  /\ expires \in [Events -> Nat]
  /\ recipients \subseteq Rows /\ dismissed \subseteq Alerts
  /\ Pending \subseteq recipients
  /\ \A r \in Pending :
       /\ batch[r] \in [due : Nat, created : Nat, until : Nat, token : Nat, leases : 0..MaxLeases]
       /\ batch[r].token \in {0, batch[r].leases}
  /\ lapsed \subseteq {w \in Drains : Delivers(w)}
  /\ told \subseteq recipients

(* A phone has one delivery in flight: two drains deliver to one device only if the
   lease of one of them has run out ("keeps at most one delivery per phone in
   flight", docs/push-gateway.md; claim and ownsDeviceHead in durable-push-store.ts). *)
OneInFlight ==
  \A w, v \in Drains :
    w # v /\ Delivers(w) /\ Delivers(v) /\ Device(drain[w].row) = Device(drain[v].row)
      => w \in lapsed \/ v \in lapsed

(* A dismissal has the last word: no drain delivers an alert any drain was given the
   dismissal of, but one whose lease ran out; neither a claim racing the acceptance
   nor a retry brings the alert back (push-queued-dismissal.ts). *)
DismissalIsLast ==
  \A w \in Drains : Delivers(w) =>
    \A q \in told :
      Device(q) = Device(drain[w].row) /\ drain[w].row[1] \in Cancels[q[1]] => w \in lapsed

(* No claim leases a row over one that was ahead of it on the device when the row was
   picked, locked by another claim, and that is still there ("Under the device lock, a
   fresh read sees every committed lease and every uncommitted head"). *)
NoOvertaking ==
  [][\A w \in Drains :
       drain[w].at = "lease" /\ drain'[w].at = "deliver" =>
         \A q \in Pending : <<q, batch[q].due>> \notin drain[w].ahead]_vars

(* While its lease runs a delivery is deleted, rescheduled or given away by its own
   drain only: not by a dismissal that listed it before it was leased, not by the
   late finish of an earlier holder, not by a prune. *)
LiveLeaseUndisturbed ==
  [][\A w \in Drains :
       Holds(w) /\ batch[drain[w].row].until > clock /\ drain'[w] = drain[w]
         => Holds(w)']_vars
=============================================================================
