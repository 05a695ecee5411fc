--------------------------- MODULE DurablePushProofs ---------------------------
(***************************************************************************)
(* The push gateway's deliveries, for any number of drains, devices,       *)
(* events, leases and any length of lease, wait and delay.                 *)
(*                                                                         *)
(* A claim decides on reads that are old by the time it commits.  The row  *)
(* it picked is locked, so what it read of that row still holds (Claims);  *)
(* the device is locked, so no other claim leases there, and all who were  *)
(* delivering when it found the device idle had lost their leases, which   *)
(* renewing late does not undo.  A lease is told apart from those before it*)
(* by its token, and a row once accepted is never accepted again (Tokens). *)
(***************************************************************************)
EXTENDS DurablePush, TLAPS

Held == {"device", "head", "judge", "lease"}
Checked == {"judge", "lease"}

Candidates ==
  [at : {"candidate"}, now : Nat, rows : SUBSET Rows, devices : SUBSET Devices,
   skipped : SUBSET Devices]
Picks ==
  [at : Held, now : Nat, rows : SUBSET Rows, devices : SUBSET Devices,
   skipped : SUBSET Devices, row : Rows, ahead : SUBSET (Rows \X Nat)]
Deliveries == [at : {"deliver"}, row : Rows, token : Nat]
Accepts ==
  [at : {"list", "delete"}, event : Dismissals, device : Devices, now : Nat,
   expires : Nat, rows : SUBSET Rows]

Types ==
  /\ TypeOK
  /\ drain \in [Drains -> {Idle} \cup Candidates \cup Picks \cup Deliveries]
  /\ accepting \in {NoAccept} \cup Accepts

(* Times taken are past; an accepted row is recorded with all that goes with it. *)
Accepted ==
  /\ \A w \in Drains : drain[w].at \in Claiming => drain[w].now <= clock
  /\ \A r \in recipients : Expires(r) # 0
  /\ \A r \in recipients : r[1] \in Dismissals => Cancels[r[1]] \subseteq dismissed
  /\ \A r \in told : r[1] \in Dismissals
  /\ accepting # NoAccept =>
       /\ accepting.now <= clock
       /\ <<accepting.event, accepting.device>> \in Rows \ recipients
       /\ expires[accepting.event] \in {0, accepting.expires} /\ accepting.expires # 0
  /\ accepting.at = "delete" => \A r \in accepting.rows : batch[r].until <= accepting.now

(* A lock has one owner. *)
Locks ==
  /\ \A w \in Drains : drain[w].at \in Claiming => drain[w].rows \subseteq Pending
  /\ \A w, v \in Drains :
       w # v /\ drain[w].at \in Claiming /\ drain[v].at \in Claiming =>
         /\ drain[w].rows \cap drain[v].rows = {}
         /\ drain[w].devices \cap drain[v].devices = {}
  /\ accepting.at = "delete" =>
       /\ accepting.rows \subseteq Pending
       /\ \A w \in Drains : drain[w].at \in Claiming => drain[w].rows \cap accepting.rows = {}

(* What a claim read still holds, as far as it matters. *)
PickHolds(c) ==
  /\ c.row \in c.rows
  /\ batch[c.row].until <= c.now /\ batch[c.row].due <= c.now
  /\ \A p \in c.ahead : p[1] \in recipients /\ p[2] <= c.now
  /\ c.at # "device" => Device(c.row) \in c.devices
  /\ c.at \notin Checked =>
       \A q \in Pending : <<q, batch[q].due>> \in c.ahead =>
         Device(q) = Device(c.row) /\ Alive(q, c.now) /\ Before(q, c.row)
  /\ c.at \in Checked =>
       /\ \A q \in Pending : <<q, batch[q].due>> \notin c.ahead
       /\ \A v \in Drains : Delivers(v) /\ Device(drain[v].row) = Device(c.row) => v \in lapsed
  /\ c.at = "lease" =>
       \A q \in told : Device(q) = Device(c.row) => c.row[1] \notin Cancels[q[1]]

Claims == \A w \in Drains : drain[w].at \in Held => PickHolds(drain[w])

(* A row's leases are told apart. *)
Tokens ==
  \A w \in Drains : Delivers(w) =>
    /\ drain[w].row \in recipients /\ drain[w].token # 0
    /\ drain[w].row \in Pending => drain[w].token <= batch[drain[w].row].leases
    /\ \A v \in Drains \ {w} :
         Delivers(v) /\ drain[v].row = drain[w].row => drain[v].token # drain[w].token

(* A lease that has not run out is still there. *)
Live ==
  \A w \in Drains : Delivers(w) /\ w \notin lapsed =>
    Holds(w) /\ batch[drain[w].row].until > clock

Inv ==
  Types /\ Accepted /\ Locks /\ Claims /\ Tokens /\ Live /\ OneInFlight /\ DismissalIsLast

-----------------------------------------------------------------------------

(* What a drain is doing, told by its name. *)
LEMMA DrainShapes ==
  ASSUME Types, NEW w \in Drains
  PROVE  /\ drain[w].at = "candidate" => drain[w] \in Candidates
         /\ drain[w].at \in Held => drain[w] \in Picks
         /\ drain[w].at = "deliver" => drain[w] \in Deliveries
         /\ drain[w].at \in {"idle", "deliver"} \cup Claiming
<1>1. drain[w] \in {Idle} \cup Candidates \cup Picks \cup Deliveries
  BY DEF Types
<1> QED BY <1>1 DEF Idle, Candidates, Picks, Deliveries, Held, Claiming

LEMMA LockedRows ==
  /\ \A w \in Drains : drain[w].at \in Claiming => drain[w].rows \subseteq Locked
  /\ accepting.at = "delete" => accepting.rows \subseteq Locked
BY DEF Locked

LEMMA RowTypes ==
  ASSUME TypeOK, NEW r \in Pending
  PROVE  /\ r \in recipients /\ r \in Rows
         /\ batch[r].due \in Nat /\ batch[r].created \in Nat /\ batch[r].until \in Nat
         /\ batch[r].token \in Nat /\ batch[r].leases \in 0..MaxLeases
<1>1. batch[r] \in [due : Nat, created : Nat, until : Nat, token : Nat, leases : 0..MaxLeases]
  BY DEF TypeOK
<1> QED BY <1>1 DEF TypeOK

LEMMA InitInv == ASSUME PushConstants PROVE Init => Inv
<1> SUFFICES ASSUME Init PROVE Inv OBVIOUS
<1>0. Pending = {} /\ Idle.at = "idle" /\ accepting.at = "none"
  BY DEF Init, Pending, Idle, NoAccept
<1>1. Types
  BY <1>0 DEF Init, PushConstants, Types, TypeOK, Delivers
<1>2. Accepted /\ Locks /\ Claims /\ Tokens /\ Live /\ OneInFlight /\ DismissalIsLast
  BY <1>0
  DEF Init, Accepted, Locks, Claims, Tokens, Live, OneInFlight, DismissalIsLast, Delivers,
      Claiming, Held
<1> QED BY <1>1, <1>2 DEF Inv

-----------------------------------------------------------------------------
(* Steps that move no claim on. *)

(* Drains stay as they are or end; rows appear for the first time, disappear or move to
   a later time, but not under a claim's lock, nor under a lease that has not run
   out. *)
LEMMA DrainsStay ==
  ASSUME Inv, Types', Accepted', Live',
         clock' \in Nat, clock <= clock', told' = told, recipients \subseteq recipients',
         \A v \in Drains : drain'[v] = drain[v] \/ drain'[v] = Idle,
         \A v \in lapsed : drain'[v] = drain[v] => v \in lapsed',
         \A r \in recipients : Expires(r)' = Expires(r),
         \A q \in Pending' : q \in Pending \/ q \notin recipients,
         \A q \in Pending \cap Pending' :
           /\ batch'[q].created = batch[q].created /\ batch'[q].leases = batch[q].leases
           /\ batch'[q].due = batch[q].due \/ batch'[q].due > clock,
         \A v \in Drains : drain[v].at \in Claiming /\ drain'[v] = drain[v] =>
           \A q \in drain[v].rows : q \in Pending' /\ batch'[q] = batch[q],
         accepting'.at = "delete" =>
           /\ accepting'.rows \subseteq Pending'
           /\ \A v \in Drains : drain'[v].at \in Claiming =>
                drain'[v].rows \cap accepting'.rows = {}
  PROVE  Inv'
<1>0. Idle.at = "idle"
  BY DEF Idle
<1>1. Locks'
  BY <1>0 DEF Inv, Locks, Claiming
<1>2. ASSUME NEW w \in Drains, NEW c, c = drain[w], c.at \in Held, drain'[w] = c
      PROVE  PickHolds(c)'
  <2>1. /\ c \in Picks /\ c.row \in c.rows /\ c.row \in Pending /\ c.row \in Pending'
        /\ batch'[c.row] = batch[c.row] /\ c.now \in Nat /\ c.now <= clock /\ clock \in Nat
        /\ c.row \in recipients
    <3>1. c \in Picks /\ c.at \in Claiming
      BY <1>2, DrainShapes DEF Inv, Held, Claiming
    <3>2. c.row \in c.rows /\ c.row \in Pending
      BY <1>2, <3>1 DEF Inv, Claims, PickHolds, Locks
    <3>3. c.now \in Nat /\ c.now <= clock /\ clock \in Nat
      BY <1>2, <3>1 DEF Inv, Accepted, Picks, Types, TypeOK
    <3> QED BY <1>2, <3>1, <3>2, <3>3, RowTypes DEF Inv, Types
  <2>2. PickHolds(c)
    BY <1>2 DEF Inv, Claims
  <2>3. ASSUME NEW q \in Pending', <<q, batch'[q].due>> \in c.ahead
        PROVE  /\ q \in Pending /\ batch'[q].due = batch[q].due
               /\ batch'[q].created = batch[q].created
               /\ Expires(q)' = Expires(q)
    <3>1. q \in recipients /\ batch'[q].due <= c.now
      BY <2>2, <2>3 DEF PickHolds
    <3>2. q \in Pending
      BY <3>1
    <3>3. batch'[q].due \in Nat
      BY RowTypes DEF Types, TypeOK
    <3> QED BY <2>1, <3>1, <3>2, <3>3, RowTypes DEF Inv, Types
  <2>4. /\ \A p \in c.ahead : p[1] \in recipients' /\ p[2] <= c.now
        /\ c.at # "device" => Device(c.row) \in c.devices
    BY <2>2 DEF PickHolds
  <2>5. ASSUME c.at \notin Checked, NEW q \in Pending', <<q, batch'[q].due>> \in c.ahead
        PROVE  Device(q) = Device(c.row) /\ Alive(q, c.now)' /\ Before(q, c.row)'
    <3>1. /\ q \in Pending /\ batch'[q].due = batch[q].due
          /\ batch'[q].created = batch[q].created /\ Expires(q)' = Expires(q)
      BY <2>3, <2>5
    <3>2. Device(q) = Device(c.row) /\ Alive(q, c.now) /\ Before(q, c.row)
      BY <2>2, <2>5, <3>1 DEF PickHolds
    <3> QED BY <2>1, <3>1, <3>2 DEF Alive, Before
  <2>6. c.at \in Checked =>
          /\ \A q \in Pending' : <<q, batch'[q].due>> \notin c.ahead
          /\ \A v \in Drains :
               drain'[v].at = "deliver" /\ Device(drain'[v].row) = Device(c.row) => v \in lapsed'
    BY <1>0, <2>2, <2>3 DEF PickHolds, Delivers
  <2>7. c.at = "lease" => \A q \in told : Device(q) = Device(c.row) => c.row[1] \notin Cancels[q[1]]
    BY <2>2 DEF PickHolds
  <2>8. batch'[c.row].until <= c.now /\ batch'[c.row].due <= c.now
    BY <2>1, <2>2 DEF PickHolds
  <2> QED BY <2>1, <2>4, <2>5, <2>6, <2>7, <2>8 DEF PickHolds, Device, Delivers
<1>3. Claims'
  BY <1>0, <1>2 DEF Claims, Held
<1>4. Tokens'
  <2> SUFFICES ASSUME NEW w \in Drains, drain'[w].at = "deliver"
               PROVE  /\ drain'[w].row \in recipients' /\ drain'[w].token # 0
                      /\ drain'[w].row \in Pending' => drain'[w].token <= batch'[drain'[w].row].leases
                      /\ \A v \in Drains \ {w} :
                           drain'[v].at = "deliver" /\ drain'[v].row = drain'[w].row
                             => drain'[v].token # drain'[w].token
    BY DEF Tokens, Delivers
  <2>1. drain'[w] = drain[w]
    BY <1>0
  <2>2. /\ drain[w].row \in recipients /\ drain[w].token # 0
        /\ drain[w].row \in Pending => drain[w].token <= batch[drain[w].row].leases
    BY <2>1 DEF Inv, Tokens, Delivers
  <2>3. \A v \in Drains \ {w} :
          drain'[v].at = "deliver" /\ drain'[v].row = drain'[w].row
            => drain'[v].token # drain'[w].token
    BY <1>0, <2>1 DEF Inv, Tokens, Delivers
  <2> QED BY <2>1, <2>2, <2>3
<1>5. OneInFlight' /\ DismissalIsLast'
  BY <1>0 DEF Inv, OneInFlight, DismissalIsLast, Delivers, Device
<1> QED BY <1>1, <1>3, <1>4, <1>5 DEF Inv

(* A lease that has not run out survives where its row keeps its token and its end. *)
LEMMA LiveStays ==
  ASSUME Inv, clock' = clock,
         \A v \in Drains : drain'[v] = drain[v] \/ drain'[v] = Idle,
         \A v \in lapsed : drain'[v] = drain[v] => v \in lapsed',
         \A v \in Drains : drain'[v] = drain[v] /\ Holds(v) =>
           \/ /\ drain[v].row \in Pending'
              /\ batch'[drain[v].row].token = batch[drain[v].row].token
              /\ batch'[drain[v].row].until = batch[drain[v].row].until
           \/ batch[drain[v].row].until <= clock
  PROVE  Live'
<1> SUFFICES ASSUME NEW w \in Drains, drain'[w].at = "deliver", w \notin lapsed'
             PROVE  /\ drain'[w].row \in Pending'
                    /\ batch'[drain'[w].row].token = drain'[w].token
                    /\ batch'[drain'[w].row].until > clock'
  BY DEF Live, Holds, Delivers
<1>1. drain'[w] = drain[w]
  BY DEF Idle
<1>2. Holds(w) /\ batch[drain[w].row].until > clock
  BY <1>1 DEF Inv, Live, Delivers
<1>3. batch[drain[w].row].until \in Nat /\ clock \in Nat
  BY <1>2, RowTypes DEF Holds, Inv, Types, TypeOK
<1> QED BY <1>1, <1>2, <1>3 DEF Holds

LEMMA TimesPast ==
  ASSUME PushConstants, TypeOK, NEW now \in Times
  PROVE  now \in Nat /\ now <= clock /\ clock \in Nat
BY DEF PushConstants, TypeOK, Times

LEMMA AcceptAlertInv ==
  ASSUME PushConstants, Inv, NEW e \in Alerts, NEW d \in Devices, AcceptAlert(e, d)
  PROVE  Inv'
<1> DEFINE r0 == <<e, d>>
<1>1. /\ accepting = NoAccept /\ r0 \in Rows \ recipients
      /\ UNCHANGED <<clock, dismissed, accepting, drain, lapsed, told>>
      /\ accepting.at = "none" /\ r0[1] = e
  BY DEF AcceptAlert, NoAccept
<1>2. PICK now \in Times, x \in 1 .. clock + TTL :
        /\ Lives(e, now, x)
        /\ expires' = [expires EXCEPT ![e] = x]
        /\ IF e \in dismissed
             THEN UNCHANGED <<recipients, batch>>
             ELSE /\ recipients' = recipients \cup {r0}
                  /\ batch' = [r \in Pending \cup {r0} |->
                                 IF r = r0 THEN NewBatch(now) ELSE batch[r]]
  BY DEF AcceptAlert
<1>3. /\ now \in Nat /\ clock \in Nat /\ x \in Nat /\ x # 0 /\ e \in Events
      /\ expires \in [Events -> Nat] /\ r0 \notin Pending
  BY <1>1, TimesPast DEF Inv, Types, TypeOK, PushConstants, Events
<1>4. /\ \A r \in recipients : Expires(r)' = Expires(r)
      /\ \A r \in recipients' : Expires(r)' # 0
  <2>1. expires[e] = 0 \/ x = expires[e]
    BY <1>2 DEF Lives
  <2>2. \A r \in recipients : expires[r[1]] # 0 /\ r[1] \in Events
    BY DEF Inv, Accepted, Expires, Types, TypeOK, PushConstants, Events
  <2>3. \A r \in recipients : Expires(r)' = Expires(r)
    BY <1>2, <1>3, <2>1, <2>2 DEF Expires
  <2>4. expires'[e] = x
    BY <1>2, <1>3
  <2> QED BY <1>1, <1>2, <1>3, <2>2, <2>3, <2>4 DEF Expires
<1>5. /\ recipients \subseteq recipients' /\ Pending \subseteq Pending'
      /\ Pending' \subseteq Pending \cup {r0} /\ Pending' \subseteq recipients'
      /\ recipients' \subseteq recipients \cup {r0}
      /\ \A q \in Pending : batch'[q] = batch[q]
      /\ \A q \in Pending' : q \in Pending \/ batch'[q] = NewBatch(now)
  BY <1>1, <1>2, <1>3 DEF Pending, Inv, Types, TypeOK
<1>6. Types'
  <2>1. /\ NewBatch(now) \in [due : Nat, created : Nat, until : Nat, token : Nat, leases : 0..MaxLeases]
        /\ NewBatch(now).token = 0
    BY <1>3 DEF NewBatch, PushConstants
  <2>2. expires' \in [Events -> Nat]
    BY <1>2, <1>3
  <2> QED BY <1>1, <1>5, <2>1, <2>2 DEF Inv, Types, TypeOK, Delivers
<1>7. Accepted'
  <2>1. \A r \in recipients' : r[1] \in Dismissals => Cancels[r[1]] \subseteq dismissed'
    BY <1>1, <1>5 DEF Inv, Accepted, PushConstants
  <2> QED BY <1>1, <1>4, <2>1 DEF Inv, Accepted
<1>8. Live'
  BY <1>1, <1>5, LiveStays DEF Holds
<1>9. \A v \in Drains : drain[v].at \in Claiming => drain[v].rows \subseteq Pending
  BY DEF Inv, Locks
<1> QED BY <1>1, <1>3, <1>4, <1>5, <1>6, <1>7, <1>8, <1>9, DrainsStay

(* Acceptance changes rows and events at its end only. *)
LEMMA ListAlertsInv ==
  ASSUME PushConstants, Inv, NEW e \in Dismissals, NEW d \in Devices, ListAlerts(e, d)
  PROVE  Inv'
<1>1. /\ <<e, d>> \in Rows \ recipients
      /\ UNCHANGED <<clock, expires, recipients, dismissed, batch, drain, lapsed, told>>
  BY DEF ListAlerts, events
<1>2. PICK now \in Times, x \in 1 .. clock + TTL :
        /\ Lives(e, now, x)
        /\ accepting' = [at |-> "list", event |-> e, device |-> d, now |-> now, expires |-> x,
                         rows |-> {r \in Pending : /\ r[1] \in Cancels[e] /\ Device(r) = d
                                                   /\ batch[r].until <= now}]
  BY DEF ListAlerts
<1>3. now \in Nat /\ now <= clock /\ x \in Nat /\ x # 0 /\ clock \in Nat
  BY <1>2, TimesPast DEF Inv, Types, PushConstants, TypeOK
<1>4. /\ accepting' \in Accepts /\ accepting'.at = "list" /\ accepting'.event = e
      /\ accepting'.device = d /\ accepting'.now = now /\ accepting'.expires = x
  <2>1. {r \in Pending : r[1] \in Cancels[e] /\ Device(r) = d /\ batch[r].until <= now} \subseteq Rows
    BY DEF Inv, Types, TypeOK
  <2> QED BY <1>2, <1>3, <2>1 DEF Accepts
<1>5. Pending' = Pending
  BY <1>1 DEF Pending
<1>6. Types'
  BY <1>1, <1>4, <1>5 DEF Inv, Types, TypeOK, Delivers
<1>7. Accepted'
  <2>1. expires[e] \in {0, x}
    BY <1>2 DEF Lives
  <2> QED BY <1>1, <1>3, <1>4, <2>1 DEF Inv, Accepted, Expires
<1>8. Live'
  BY <1>1, <1>5, LiveStays DEF Holds
<1>9. \A v \in Drains : drain[v].at \in Claiming => drain[v].rows \subseteq Pending
  BY DEF Inv, Locks
<1> QED BY <1>1, <1>3, <1>4, <1>5, <1>6, <1>7, <1>8, <1>9, DrainsStay DEF Expires

LEMMA DeleteAlertsInv ==
  ASSUME PushConstants, Inv, DeleteAlerts
  PROVE  Inv'
<1> DEFINE rows == {r \in accepting.rows \cap Pending : Deletable(r)}
<1>1. /\ UNCHANGED <<clock, expires, recipients, dismissed, batch, drain, lapsed, told>>
      /\ accepting.at = "list" /\ accepting.rows \cap Locked = {}
      /\ accepting' = [accepting EXCEPT !.at = "delete", !.rows = rows]
  BY DEF DeleteAlerts, events
<1>2. accepting \in Accepts /\ accepting # NoAccept /\ clock \in Nat
  BY <1>1 DEF Inv, Types, TypeOK, NoAccept
<1>3. /\ accepting' \in Accepts /\ accepting'.at = "delete" /\ accepting'.rows = rows
      /\ accepting'.event = accepting.event /\ accepting'.device = accepting.device
      /\ accepting'.now = accepting.now /\ accepting'.expires = accepting.expires
  BY <1>1, <1>2 DEF Accepts
<1>4. /\ rows \subseteq Pending /\ rows \cap Locked = {}
      /\ \A r \in rows : batch[r].until <= accepting.now
  BY <1>1 DEF Deletable
<1> HIDE DEF rows
<1>5. Pending' = Pending
  BY <1>1 DEF Pending
<1>6. Types'
  BY <1>1, <1>3, <1>5 DEF Inv, Types, TypeOK, Delivers
<1>7. Accepted'
  BY <1>1, <1>2, <1>3, <1>4 DEF Inv, Accepted, Expires
<1>8. Live'
  BY <1>1, <1>5, LiveStays DEF Holds
<1>9. \A v \in Drains : drain[v].at \in Claiming =>
        drain[v].rows \subseteq Pending /\ drain[v].rows \cap rows = {}
  BY <1>4, LockedRows DEF Inv, Locks
<1> QED BY <1>1, <1>2, <1>3, <1>4, <1>5, <1>6, <1>7, <1>8, <1>9, DrainsStay DEF Expires

LEMMA CommitDismissalInv ==
  ASSUME PushConstants, Inv, CommitDismissal
  PROVE  Inv'
<1> DEFINE e == accepting.event
           r0 == <<e, accepting.device>>
           rows == accepting.rows
           new == NewBatch(accepting.now)
<1>1. /\ UNCHANGED <<clock, drain, lapsed, told>> /\ accepting.at = "delete"
      /\ expires' = [expires EXCEPT ![e] = accepting.expires]
      /\ recipients' = recipients \cup {r0}
      /\ dismissed' = dismissed \cup Cancels[e]
      /\ batch' = [q \in (Pending \ rows) \cup {r0} |-> IF q = r0 THEN new ELSE Without(rows)[q]]
      /\ accepting' = NoAccept /\ NoAccept.at = "none"
  BY DEF CommitDismissal, Without, NoAccept
<1>2. /\ accepting \in Accepts /\ accepting # NoAccept /\ e \in Dismissals /\ e \in Events
      /\ accepting.now \in Nat /\ accepting.now <= clock /\ clock \in Nat
      /\ accepting.expires \in Nat /\ expires \in [Events -> Nat] /\ Cancels[e] \subseteq Alerts
  BY <1>1 DEF Inv, Types, TypeOK, NoAccept, Accepts, Accepted, PushConstants, Events
<1>3. /\ r0 \in Rows \ recipients /\ r0 \notin Pending /\ r0[1] = e
      /\ expires[e] \in {0, accepting.expires} /\ accepting.expires # 0
      /\ rows \subseteq Pending /\ \A r \in rows : batch[r].until <= clock
  <2>1. /\ r0 \in Rows \ recipients
        /\ expires[e] \in {0, accepting.expires} /\ accepting.expires # 0
    BY <1>2 DEF Inv, Accepted
  <2>2. rows \subseteq Pending /\ \A r \in rows : batch[r].until <= accepting.now
    BY <1>1 DEF Inv, Locks, Accepted
  <2>3. \A r \in rows : batch[r].until \in Nat
    BY <2>2, RowTypes DEF Inv, Types
  <2> QED BY <1>2, <2>1, <2>2, <2>3 DEF Inv, Types, TypeOK
<1>4. \A v \in Drains : drain[v].at \in Claiming =>
        drain[v].rows \subseteq Pending /\ drain[v].rows \cap rows = {}
  BY <1>1 DEF Inv, Locks
<1>5. /\ \A r \in recipients : Expires(r)' = Expires(r)
      /\ \A r \in recipients' : Expires(r)' # 0
  <2>1. \A r \in recipients : expires[r[1]] # 0 /\ r[1] \in Events
    BY DEF Inv, Accepted, Expires, Types, TypeOK, PushConstants, Events
  <2>2. \A f \in Events : expires'[f] = IF f = e THEN accepting.expires ELSE expires[f]
    BY <1>1, <1>2
  <2> QED BY <1>1, <1>2, <1>3, <2>1, <2>2 DEF Expires
<1>6. /\ Pending' = (Pending \ rows) \cup {r0} /\ Pending' \subseteq recipients'
      /\ \A q \in Pending \ rows : batch'[q] = batch[q]
      /\ batch'[r0] = new
  BY <1>1, <1>3 DEF Pending, Without, Inv, Types, TypeOK
<1>7. /\ new \in [due : Nat, created : Nat, until : Nat, token : Nat, leases : 0..MaxLeases]
      /\ new.token = 0
  BY <1>2 DEF NewBatch, PushConstants
<1> HIDE DEF rows, new, r0, e
<1>8. Types'
  <2>1. expires' \in [Events -> Nat] /\ dismissed' \subseteq Alerts /\ recipients' \subseteq Rows
    BY <1>1, <1>2, <1>3 DEF Inv, Types, TypeOK
  <2> QED BY <1>1, <1>6, <1>7, <2>1 DEF Inv, Types, TypeOK, Delivers
<1>9. Accepted'
  <2>1. \A r \in recipients' : r[1] \in Dismissals => Cancels[r[1]] \subseteq dismissed'
    BY <1>1, <1>3 DEF Inv, Accepted
  <2> QED BY <1>1, <1>5, <2>1 DEF Inv, Accepted
<1>10. Live'
  BY <1>1, <1>3, <1>6, LiveStays DEF Holds
<1>11. \A v \in Drains : drain[v].at \in Claiming =>
         \A q \in drain[v].rows : q \in Pending' /\ batch'[q] = batch[q]
  BY <1>4, <1>6
<1>12. /\ \A q \in Pending' : q \in Pending \/ q \notin recipients
       /\ \A q \in Pending \cap Pending' : batch'[q] = batch[q]
  BY <1>3, <1>6
<1>13. /\ recipients \subseteq recipients' /\ accepting'.at = "none"
       /\ clock' \in Nat /\ clock <= clock' /\ told' = told /\ drain' = drain
       /\ lapsed' = lapsed
  BY <1>1, <1>2
<1> QED BY <1>5, <1>8, <1>9, <1>10, <1>11, <1>12, <1>13, DrainsStay

LEMMA AbortDismissalInv ==
  ASSUME PushConstants, Inv, AbortDismissal
  PROVE  Inv'
<1>1. /\ UNCHANGED <<clock, expires, recipients, dismissed, batch, drain, lapsed, told>>
      /\ accepting' = NoAccept /\ NoAccept.at = "none" /\ clock \in Nat
  BY DEF AbortDismissal, events, NoAccept, Inv, Types, TypeOK
<1>2. Pending' = Pending
  BY <1>1 DEF Pending
<1>3. Types' /\ Accepted'
  BY <1>1, <1>2 DEF Inv, Types, TypeOK, Delivers, Accepted, Expires
<1>4. Live'
  BY <1>1, <1>2, LiveStays DEF Holds
<1>5. \A v \in Drains : drain[v].at \in Claiming => drain[v].rows \subseteq Pending
  BY DEF Inv, Locks
<1> QED BY <1>1, <1>2, <1>3, <1>4, <1>5, DrainsStay DEF Expires

Batches == [due : Nat, created : Nat, until : Nat, token : Nat, leases : 0..MaxLeases]

(* One row changes or goes, that no remaining claim and no acceptance has locked; a
   drain may end with it. *)
LEMMA RowChanges ==
  ASSUME PushConstants, Inv, NEW r0,
         UNCHANGED <<clock, expires, recipients, dismissed, accepting, told>>,
         drain' = drain \/ \E w \in Drains : drain' = [drain EXCEPT ![w] = Idle],
         lapsed' \subseteq {v \in Drains : drain'[v].at = "deliver"},
         \A v \in lapsed : drain'[v] = drain[v] => v \in lapsed',
         Pending' \subseteq Pending,
         \A q \in Pending \ {r0} : q \in Pending' /\ batch'[q] = batch[q],
         r0 \in Pending' =>
           /\ batch'[r0] \in Batches /\ batch'[r0].token \in {0, batch'[r0].leases}
           /\ batch'[r0].created = batch[r0].created /\ batch'[r0].leases = batch[r0].leases
           /\ batch'[r0].due = batch[r0].due \/ batch'[r0].due > clock,
         \/ batch' = batch
         \/ /\ \A v \in Drains :
                 drain[v].at \in Claiming /\ drain'[v] = drain[v] => r0 \notin drain[v].rows
            /\ accepting.at = "delete" => r0 \notin accepting.rows,
         Live'
  PROVE  Inv'
<1>0. /\ clock \in Nat /\ Idle.at = "idle"
      /\ \A v \in Drains : drain'[v] = drain[v] \/ drain'[v] = Idle
  BY DEF Inv, Types, TypeOK, Idle
<1>1. Types'
  <2>1. drain' \in [Drains -> {Idle} \cup Candidates \cup Picks \cup Deliveries]
    BY DEF Inv, Types
  <2>2. \A q \in Pending' : batch'[q] \in Batches /\ batch'[q].token \in {0, batch'[q].leases}
    BY DEF Inv, Types, TypeOK, Batches
  <2> QED BY <2>1, <2>2 DEF Inv, Types, TypeOK, Batches, Delivers
<1>2. accepting.at = "delete" =>
        /\ accepting.rows \subseteq Pending'
        /\ \A r \in accepting.rows : batch'[r] = batch[r]
        /\ \A v \in Drains : drain'[v].at \in Claiming => drain'[v].rows \cap accepting.rows = {}
  BY <1>0 DEF Inv, Locks, Claiming, Pending
<1>3. Accepted'
  BY <1>0, <1>2 DEF Inv, Accepted, Expires, Claiming
<1>4. \A v \in Drains : drain[v].at \in Claiming /\ drain'[v] = drain[v] =>
        \A q \in drain[v].rows : q \in Pending' /\ batch'[q] = batch[q]
  BY DEF Inv, Locks, Pending
<1>5. /\ \A q \in Pending' : q \in Pending \/ q \notin recipients
      /\ \A q \in Pending \cap Pending' :
           /\ batch'[q].created = batch[q].created /\ batch'[q].leases = batch[q].leases
           /\ batch'[q].due = batch[q].due \/ batch'[q].due > clock
  OBVIOUS
<1>6. \A r \in recipients : Expires(r)' = Expires(r)
  BY DEF Expires
<1> QED BY <1>0, <1>1, <1>2, <1>3, <1>4, <1>5, <1>6, DrainsStay

LEMMA StopsInv ==
  ASSUME PushConstants, Inv, NEW w \in Drains, Stops(w)
  PROVE  Inv'
<1>1. /\ UNCHANGED <<clock, expires, recipients, dismissed, batch, accepting, told>>
      /\ drain' = [drain EXCEPT ![w] = Idle] /\ lapsed' = lapsed \ {w}
      /\ Idle.at = "idle" /\ w \notin lapsed'
  BY DEF Stops, Ends, events, Idle
<1>2. /\ Pending' = Pending
      /\ \A v \in Drains : drain'[v] = IF v = w THEN Idle ELSE drain[v]
  BY <1>1 DEF Pending, Inv, Types
<1>3. lapsed' \subseteq {v \in Drains : drain'[v].at = "deliver"}
  BY <1>1, <1>2 DEF Inv, Types, TypeOK, Delivers
<1>4. \A v \in lapsed : drain'[v] = drain[v] => v \in lapsed'
  BY <1>1, <1>2 DEF Inv, Types, TypeOK, Delivers
<1>5. Live'
  BY <1>1, <1>2, <1>4, LiveStays DEF Holds
<1>6. \A q \in Pending : /\ batch[q] \in Batches /\ batch[q].token \in {0, batch[q].leases}
  BY DEF Inv, Types, TypeOK, Batches
<1> QED BY <1>1, <1>2, <1>3, <1>4, <1>5, <1>6, RowChanges

(* Whoever else delivers a row is told apart from the holder of its lease. *)
LEMMA OneHolder ==
  ASSUME Inv, NEW w \in Drains, NEW v \in Drains, Holds(w), Holds(v),
         drain[w].row = drain[v].row
  PROVE  w = v
BY DEF Inv, Tokens, Holds

LEMMA FinishDeliveryInv ==
  ASSUME PushConstants, Inv, NEW w \in Drains, FinishDelivery(w)
  PROVE  Inv'
<1> DEFINE r0 == drain[w].row
<1>1. /\ UNCHANGED <<clock, expires, recipients, dismissed, accepting, told>>
      /\ drain' = [drain EXCEPT ![w] = Idle] /\ lapsed' = lapsed \ {w}
      /\ drain[w].at = "deliver" /\ r0 \notin Locked
      /\ batch' = IF Holds(w) THEN [r \in Pending \ {r0} |-> batch[r]] ELSE batch
      /\ Idle.at = "idle" /\ w \notin lapsed'
  BY DEF FinishDelivery, Ends, events, Idle, Delivers, Unlocked, Without
<1> HIDE DEF r0
<1>2. \A v \in Drains : drain'[v] = IF v = w THEN Idle ELSE drain[v]
  BY <1>1 DEF Inv, Types
<1>3. lapsed' \subseteq {v \in Drains : drain'[v].at = "deliver"}
  BY <1>1, <1>2 DEF Inv, Types, TypeOK, Delivers
<1>4. \A v \in lapsed : drain'[v] = drain[v] => v \in lapsed'
  BY <1>1, <1>2
<1>5. /\ Pending' \subseteq Pending
      /\ \A q \in Pending \ {r0} : q \in Pending' /\ batch'[q] = batch[q]
      /\ r0 \in Pending' => batch' = batch
      /\ ~Holds(w) => batch' = batch /\ Pending' = Pending
  BY <1>1 DEF Pending
<1>6. Live'
  <2>1. ASSUME NEW v \in Drains, drain'[v] = drain[v], Holds(v)
        PROVE  /\ drain[v].row \in Pending'
               /\ batch'[drain[v].row].token = batch[drain[v].row].token
               /\ batch'[drain[v].row].until = batch[drain[v].row].until
    <3>1. v # w /\ drain[v].row \in Pending
      BY <1>1, <1>2, <2>1 DEF Holds
    <3>2. drain[v].row # r0 \/ ~Holds(w)
      BY <2>1, <3>1, OneHolder DEF r0
    <3> QED BY <1>5, <3>1, <3>2
  <2>2. clock' = clock /\ \A v \in Drains : drain'[v] = drain[v] \/ drain'[v] = Idle
    BY <1>1, <1>2
  <2> QED BY <1>4, <2>1, <2>2, LiveStays
<1>7. /\ \A v \in Drains : drain[v].at \in Claiming => r0 \notin drain[v].rows
      /\ accepting.at = "delete" => r0 \notin accepting.rows
  BY <1>1, LockedRows
<1>8. r0 \in Pending => batch[r0] \in Batches /\ batch[r0].token \in {0, batch[r0].leases}
  BY DEF Inv, Types, TypeOK, Batches
<1>9. r0 \in Pending' =>
        /\ batch'[r0] \in Batches /\ batch'[r0].token \in {0, batch'[r0].leases}
        /\ batch'[r0].created = batch[r0].created /\ batch'[r0].leases = batch[r0].leases
        /\ batch'[r0].due = batch[r0].due
  BY <1>5, <1>8
<1> QED BY <1>1, <1>3, <1>4, <1>5, <1>6, <1>7, <1>9, RowChanges

LEMMA RetryDeliveryInv ==
  ASSUME PushConstants, Inv, NEW w \in Drains, RetryDelivery(w)
  PROVE  Inv'
<1> DEFINE r0 == drain[w].row
<1>1. /\ UNCHANGED <<clock, expires, recipients, dismissed, accepting, told>>
      /\ drain' = [drain EXCEPT ![w] = Idle] /\ lapsed' = lapsed \ {w}
      /\ drain[w].at = "deliver" /\ r0 \notin Locked
      /\ Idle.at = "idle" /\ w \notin lapsed'
  BY DEF RetryDelivery, Ends, events, Idle, Delivers, Unlocked
<1>a. PICK due \in clock + 1 .. clock + MaxDelay :
        batch' = IF Holds(w)
                   THEN [batch EXCEPT ![r0].due = due, ![r0].until = 0, ![r0].token = 0]
                   ELSE batch
  BY DEF RetryDelivery
<1>b. due \in Nat /\ due > clock
  BY DEF Inv, Types, TypeOK, PushConstants
<1> HIDE DEF r0
<1>2. \A v \in Drains : drain'[v] = IF v = w THEN Idle ELSE drain[v]
  BY <1>1 DEF Inv, Types
<1>3. lapsed' \subseteq {v \in Drains : drain'[v].at = "deliver"}
  BY <1>1, <1>2 DEF Inv, Types, TypeOK, Delivers
<1>4. \A v \in lapsed : drain'[v] = drain[v] => v \in lapsed'
  BY <1>1, <1>2
<1>5. /\ Pending' = Pending
      /\ \A q \in Pending \ {r0} : batch'[q] = batch[q]
      /\ ~Holds(w) => batch' = batch
  BY <1>a DEF Pending
<1>6. Live'
  <2>1. ASSUME NEW v \in Drains, drain'[v] = drain[v], Holds(v)
        PROVE  /\ drain[v].row \in Pending'
               /\ batch'[drain[v].row].token = batch[drain[v].row].token
               /\ batch'[drain[v].row].until = batch[drain[v].row].until
    <3>1. v # w /\ drain[v].row \in Pending
      BY <1>1, <1>2, <2>1 DEF Holds
    <3>2. drain[v].row # r0 \/ ~Holds(w)
      BY <2>1, <3>1, OneHolder DEF r0
    <3> QED BY <1>5, <3>1, <3>2
  <2>2. clock' = clock /\ \A v \in Drains : drain'[v] = drain[v] \/ drain'[v] = Idle
    BY <1>1, <1>2
  <2> QED BY <1>4, <2>1, <2>2, LiveStays
<1>7. /\ \A v \in Drains : drain[v].at \in Claiming => r0 \notin drain[v].rows
      /\ accepting.at = "delete" => r0 \notin accepting.rows
  BY <1>1, LockedRows
<1>8. r0 \in Pending => batch[r0] \in Batches /\ batch[r0].token \in {0, batch[r0].leases}
  BY DEF Inv, Types, TypeOK, Batches
<1>9. r0 \in Pending' =>
        /\ batch'[r0] \in Batches /\ batch'[r0].token \in {0, batch'[r0].leases}
        /\ batch'[r0].created = batch[r0].created /\ batch'[r0].leases = batch[r0].leases
        /\ batch'[r0].due = batch[r0].due \/ batch'[r0].due > clock
  BY <1>a, <1>b, <1>5, <1>8 DEF Batches, Pending
<1> QED BY <1>1, <1>3, <1>4, <1>5, <1>6, <1>7, <1>9, RowChanges

LEMMA RenewInv ==
  ASSUME PushConstants, Inv, NEW w \in Drains, Renew(w)
  PROVE  Inv'
<1> DEFINE r0 == drain[w].row
<1>1. /\ UNCHANGED <<clock, expires, recipients, dismissed, accepting, told, drain>>
      /\ Holds(w) /\ r0 \in Pending /\ r0 \notin Locked /\ drain[w].at = "deliver"
  BY DEF Renew, events, Unlocked, Holds, Delivers
<1>a. PICK now \in Times :
        /\ batch' = [batch EXCEPT ![r0].until = now + Lease]
        /\ lapsed' = IF now + Lease <= clock THEN lapsed \cup {w} ELSE lapsed
  BY DEF Renew
<1>b. now \in Nat /\ Lease \in Nat /\ clock \in Nat
  BY TimesPast DEF Inv, Types, TypeOK, PushConstants
<1> HIDE DEF r0
<1>3. lapsed' \subseteq {v \in Drains : drain'[v].at = "deliver"} /\ lapsed \subseteq lapsed'
  BY <1>1, <1>a DEF Inv, Types, TypeOK, Delivers
<1>5. /\ Pending' = Pending
      /\ \A q \in Pending \ {r0} : batch'[q] = batch[q]
  BY <1>a DEF Pending
<1>8. batch[r0] \in Batches /\ batch[r0].token \in {0, batch[r0].leases}
  BY <1>1 DEF Inv, Types, TypeOK, Batches
<1>9. /\ batch'[r0] \in Batches /\ batch'[r0].token \in {0, batch'[r0].leases}
      /\ batch'[r0].created = batch[r0].created /\ batch'[r0].leases = batch[r0].leases
      /\ batch'[r0].due = batch[r0].due /\ batch'[r0].token = batch[r0].token
      /\ batch'[r0].until = now + Lease
  BY <1>1, <1>a, <1>b, <1>5, <1>8 DEF Batches, Pending
<1>6. Live'
  <2> SUFFICES ASSUME NEW v \in Drains, drain[v].at = "deliver", v \notin lapsed'
               PROVE  /\ drain[v].row \in Pending'
                      /\ batch'[drain[v].row].token = drain[v].token
                      /\ batch'[drain[v].row].until > clock
    BY <1>1 DEF Live, Holds, Delivers
  <2>1. Holds(v) /\ batch[drain[v].row].until > clock
    BY <1>3 DEF Inv, Live, Delivers
  <2>2. CASE v = w
    BY <1>1, <1>a, <1>b, <1>5, <1>9, <2>1, <2>2 DEF Holds, r0
  <2>3. CASE v # w
    <3>1. drain[v].row # r0
      BY <1>1, <2>1, <2>3, OneHolder DEF r0
    <3> QED BY <1>5, <2>1, <3>1 DEF Holds
  <2> QED BY <2>2, <2>3
<1>7. /\ \A v \in Drains : drain[v].at \in Claiming => r0 \notin drain[v].rows
      /\ accepting.at = "delete" => r0 \notin accepting.rows
  BY <1>1, LockedRows
<1> QED BY <1>1, <1>3, <1>5, <1>6, <1>7, <1>9, RowChanges

LEMMA PruneInv ==
  ASSUME PushConstants, Inv, NEW r0 \in Pending, Prune(r0)
  PROVE  Inv'
<1>1. /\ UNCHANGED <<clock, expires, recipients, dismissed, accepting, told, drain, lapsed>>
      /\ batch[r0].until <= clock /\ r0 \notin Locked
      /\ batch' = [r \in Pending \ {r0} |-> batch[r]]
  BY DEF Prune, events, Without
<1>2. /\ Pending' = Pending \ {r0}
      /\ \A q \in Pending \ {r0} : batch'[q] = batch[q]
  BY <1>1 DEF Pending
<1>3. lapsed' \subseteq {v \in Drains : drain'[v].at = "deliver"}
  BY <1>1 DEF Inv, Types, TypeOK, Delivers
<1>4. Live'
  BY <1>1, <1>2, LiveStays DEF Holds
<1>5. /\ \A v \in Drains : drain[v].at \in Claiming => r0 \notin drain[v].rows
      /\ accepting.at = "delete" => r0 \notin accepting.rows
  BY <1>1, LockedRows
<1> QED BY <1>1, <1>2, <1>3, <1>4, <1>5, RowChanges

LEMMA TickInv ==
  ASSUME PushConstants, Inv, Tick
  PROVE  Inv'
<1>1. /\ UNCHANGED <<expires, recipients, dismissed, batch, accepting, drain, told>>
      /\ clock' = clock + 1 /\ clock \in Nat /\ clock' \in 0..MaxTime
      /\ lapsed' = lapsed \cup
           {w \in Drains : Delivers(w) /\ (Holds(w) => batch[drain[w].row].until <= clock + 1)}
  BY DEF Tick, events, Inv, Types, TypeOK, PushConstants
<1>2. Pending' = Pending
  BY <1>1 DEF Pending
<1>3. Types'
  BY <1>1, <1>2 DEF Inv, Types, TypeOK, Delivers
<1>4. Accepted'
  <2>1. \A w \in Drains : drain[w].at \in Claiming => drain[w].now \in Nat /\ drain[w].now <= clock
    BY DrainShapes DEF Inv, Accepted, Claiming, Held, Candidates, Picks
  <2>2. accepting # NoAccept => accepting.now \in Nat /\ accepting.now <= clock
    BY DEF Inv, Types, Accepted, Accepts
  <2> QED BY <1>1, <2>1, <2>2 DEF Inv, Accepted, Expires
<1>5. Live'
  <2> SUFFICES ASSUME NEW v \in Drains, Delivers(v), v \notin lapsed'
               PROVE  Holds(v) /\ batch[drain[v].row].until > clock'
    BY <1>1, <1>2 DEF Live, Holds, Delivers
  <2>1. Holds(v) /\ ~(batch[drain[v].row].until <= clock + 1)
    BY <1>1
  <2>2. batch[drain[v].row].until \in Nat
    BY <2>1, RowTypes DEF Holds, Inv, Types
  <2> QED BY <1>1, <2>1, <2>2
<1>6. \A v \in Drains : drain[v].at \in Claiming => drain[v].rows \subseteq Pending
  BY DEF Inv, Locks
<1>7. accepting.at = "delete" =>
        /\ accepting.rows \subseteq Pending
        /\ \A v \in Drains : drain[v].at \in Claiming => drain[v].rows \cap accepting.rows = {}
  BY DEF Inv, Locks
<1> QED BY <1>1, <1>2, <1>3, <1>4, <1>5, <1>6, <1>7, DrainsStay DEF Expires

-----------------------------------------------------------------------------
(* Steps that move a claim on. *)

LEMMA JudgeAlertDeletes ==
  ASSUME PushConstants, Inv, NEW w \in Drains, JudgeAlert(w), Dismissed(drain[w].row)
  PROVE  Inv'
<1> DEFINE r0 == drain[w].row
<1>1. /\ UNCHANGED <<clock, expires, recipients, dismissed, accepting, told, lapsed>>
      /\ drain' = [drain EXCEPT ![w] = Idle] /\ Idle.at = "idle"
      /\ drain[w].at = "judge"
      /\ batch' = [r \in Pending \ {r0} |-> batch[r]]
  BY DEF JudgeAlert, events, Without, Idle
<1>2. /\ r0 \in drain[w].rows /\ batch[r0].until <= drain[w].now
      /\ drain[w].now <= clock /\ r0 \in Pending /\ drain[w].now \in Nat
      /\ clock \in Nat
    <2>1. PickHolds(drain[w]) /\ drain[w] \in Picks
      BY <1>1, DrainShapes DEF Inv, Claims, Held
    <2> QED BY <1>1, <2>1
      DEF Inv, Accepted, Locks, PickHolds, Claiming, Picks, Types, TypeOK
<1>3. batch[r0].until \in Nat /\ batch[r0].until <= clock
  BY <1>2, RowTypes DEF Inv, Types
<1> HIDE DEF r0
<1>4. \A v \in Drains : drain'[v] = IF v = w THEN Idle ELSE drain[v]
  BY <1>1 DEF Inv, Types
<1>5. lapsed' \subseteq {v \in Drains : drain'[v].at = "deliver"}
  BY <1>1, <1>4 DEF Inv, Types, TypeOK, Delivers
<1>6. Pending' = Pending \ {r0} /\ \A q \in Pending \ {r0} : batch'[q] = batch[q]
  BY <1>1 DEF Pending
<1>7. Live'
  <2>1. \A v \in Drains : drain'[v] = drain[v] /\ Holds(v) =>
           \/ /\ drain[v].row \in Pending'
              /\ batch'[drain[v].row].token = batch[drain[v].row].token
              /\ batch'[drain[v].row].until = batch[drain[v].row].until
           \/ batch[drain[v].row].until <= clock
    BY <1>3, <1>6 DEF Holds
  <2> QED BY <1>1, <1>4, <2>1, LiveStays
<1>8. \A v \in Drains : drain[v].at \in Claiming /\ drain'[v] = drain[v] => r0 \notin drain[v].rows
  BY <1>1, <1>2, <1>4 DEF Inv, Locks, Claiming
<1>9. accepting.at = "delete" => r0 \notin accepting.rows
  BY <1>1, <1>2 DEF Inv, Locks, Claiming
<1> QED BY <1>1, <1>5, <1>6, <1>7, <1>8, <1>9, RowChanges

(* What a drain must show of a claim it makes, moves on or gives up. *)
Sound(w, c) ==
  /\ c \in {Idle} \cup Candidates \cup Picks
  /\ c.at \in Claiming =>
       /\ c.now <= clock /\ c.rows \subseteq Pending
       /\ \A v \in Drains \ {w} : drain[v].at \in Claiming =>
            c.rows \cap drain[v].rows = {} /\ c.devices \cap drain[v].devices = {}
       /\ accepting.at = "delete" => c.rows \cap accepting.rows = {}
  /\ c.at \in Held => PickHolds(c)

LEMMA ClaimMoves ==
  ASSUME Inv, NEW w \in Drains, NEW c, Sound(w, c), ~Delivers(w),
         UNCHANGED <<clock, expires, recipients, dismissed, batch, accepting, lapsed, told>>,
         drain' = [drain EXCEPT ![w] = c]
  PROVE  Inv'
<1>1. /\ Pending' = Pending /\ c.at \in {"idle"} \cup Claiming
      /\ \A v \in Drains : drain'[v] = IF v = w THEN c ELSE drain[v]
  BY DEF Pending, Sound, Inv, Types, Idle, Candidates, Picks, Held, Claiming
<1>2. \A v \in Drains : /\ drain'[v].at = "deliver" <=> drain[v].at = "deliver"
                        /\ drain'[v].at = "deliver" => drain'[v] = drain[v]
  BY <1>1 DEF Delivers, Claiming
<1>3. Types'
  <2>1. drain' \in [Drains -> {Idle} \cup Candidates \cup Picks \cup Deliveries]
    BY DEF Sound, Inv, Types
  <2> QED BY <1>1, <1>2, <2>1 DEF Inv, Types, TypeOK, Delivers
<1>4. Accepted'
  BY <1>1 DEF Sound, Inv, Accepted, Expires
<1>5. Locks'
  BY <1>1 DEF Sound, Inv, Locks
<1>6. Claims'
  <2>1. ASSUME NEW p, PickHolds(p) PROVE PickHolds(p)'
    BY <1>1, <1>2, <2>1 DEF PickHolds, Delivers, Device, Alive, Before, Expires
  <2> QED BY <1>1, <2>1 DEF Sound, Inv, Claims
<1>7. Tokens'
  BY <1>1, <1>2 DEF Inv, Tokens, Delivers
<1>8. Live'
  BY <1>1, <1>2 DEF Inv, Live, Delivers, Holds
<1>9. OneInFlight' /\ DismissalIsLast'
  BY <1>2 DEF Inv, OneInFlight, DismissalIsLast, Delivers, Device
<1> QED BY <1>3, <1>4, <1>5, <1>6, <1>7, <1>8, <1>9 DEF Inv

(* A claim under way keeps its locks. *)
LEMMA ClaimUnderWay ==
  ASSUME PushConstants, Inv, NEW w \in Drains, NEW c, c = drain[w], c.at \in Held
  PROVE  /\ c \in Picks /\ PickHolds(c) /\ c.row \in Pending /\ c.row \in Rows
         /\ Device(c.row) \in Devices /\ c.now \in Nat /\ clock \in Nat
         /\ c.now <= clock /\ c.rows \subseteq Pending
         /\ \A v \in Drains \ {w} : drain[v].at \in Claiming =>
              c.rows \cap drain[v].rows = {} /\ c.devices \cap drain[v].devices = {}
         /\ accepting.at = "delete" => c.rows \cap accepting.rows = {}
<1>1. c \in Picks /\ PickHolds(c) /\ c.at \in Claiming
  BY DrainShapes DEF Inv, Claims, Held, Claiming
<1>2. c.rows \subseteq Pending /\ c.row \in Pending
  BY <1>1 DEF Inv, Locks, PickHolds
<1>3. /\ \A v \in Drains \ {w} : drain[v].at \in Claiming =>
            c.rows \cap drain[v].rows = {} /\ c.devices \cap drain[v].devices = {}
      /\ accepting.at = "delete" => c.rows \cap accepting.rows = {}
  BY <1>1 DEF Inv, Locks
<1>4. c.row \in Rows /\ Device(c.row) \in Devices /\ c.now \in Nat
  BY <1>1 DEF Picks, PushConstants, Device
<1>5. c.now <= clock /\ clock \in Nat
  BY <1>1 DEF Inv, Accepted, Types, TypeOK
<1> QED BY <1>1, <1>2, <1>3, <1>4, <1>5

(* Giving a candidate up for another is sound. *)
LEMMA SkippingSound ==
  ASSUME PushConstants, Inv, NEW w \in Drains, NEW c, c = drain[w], c.at \in Held
  PROVE  Sound(w, Skipping(c))
<1>1. Skipping(c) \in Candidates
  BY ClaimUnderWay DEF Skipping, Candidates, Picks
<1>2. /\ Skipping(c).at = "candidate" /\ Skipping(c).now = c.now
      /\ Skipping(c).rows = c.rows /\ Skipping(c).devices = c.devices
  BY DEF Skipping
<1> QED BY <1>1, <1>2, ClaimUnderWay DEF Sound, Held

LEMMA SelectCandidateInv ==
  ASSUME PushConstants, Inv, NEW w \in Drains, SelectCandidate(w)
  PROVE  Inv'
<1>1. /\ drain[w].at \in {"idle", "candidate"} /\ ~Delivers(w) /\ Idle.at = "idle"
      /\ UNCHANGED <<clock, expires, recipients, dismissed, batch, accepting, lapsed, told>>
  BY DEF SelectCandidate, events, Delivers, Idle
<1>2. PICK c \in IF drain[w] = Idle THEN {NewClaim(now) : now \in Times} ELSE {drain[w]} :
        \/ drain' = [drain EXCEPT ![w] = Idle]
        \/ \E r \in Pending : /\ Claimable(r, c.now, c.skipped) /\ r \notin Locked
                              /\ drain' = [drain EXCEPT ![w] = Picking(c, r)]
  BY DEF SelectCandidate
<1>3. /\ c.now \in Nat /\ c.now <= clock /\ c.rows \subseteq Pending
      /\ c.devices \subseteq Devices /\ c.skipped \subseteq Devices
      /\ \A v \in Drains \ {w} : drain[v].at \in Claiming =>
           c.rows \cap drain[v].rows = {} /\ c.devices \cap drain[v].devices = {}
      /\ accepting.at = "delete" => c.rows \cap accepting.rows = {}
  <2>1. CASE drain[w] = Idle
    <3>1. PICK now \in Times : c = NewClaim(now)
      BY <1>2, <2>1
    <3>2. c.now = now /\ c.rows = {} /\ c.devices = {} /\ c.skipped = {}
      BY <3>1 DEF NewClaim
    <3> QED BY <3>2, TimesPast DEF Inv, Types
  <2>2. CASE drain[w] # Idle
    <3>1. c = drain[w] /\ drain[w].at = "candidate"
      BY <1>1, <1>2, <2>2 DEF Inv, Types, Candidates, Picks, Deliveries, Held
    <3>2. c \in Candidates /\ c.at \in Claiming
      BY <3>1, DrainShapes DEF Inv, Claiming
    <3>3. c.rows \subseteq Pending /\ c.now <= clock
      BY <3>1, <3>2 DEF Inv, Locks, Accepted
    <3>4. /\ \A v \in Drains \ {w} : drain[v].at \in Claiming =>
               c.rows \cap drain[v].rows = {} /\ c.devices \cap drain[v].devices = {}
          /\ accepting.at = "delete" => c.rows \cap accepting.rows = {}
      BY <3>1, <3>2 DEF Inv, Locks
    <3> QED BY <3>2, <3>3, <3>4 DEF Candidates
  <2> QED BY <2>1, <2>2
<1>4. CASE drain' = [drain EXCEPT ![w] = Idle]
  <2>1. Sound(w, Idle)
    BY <1>1 DEF Sound, Claiming, Held
  <2> QED BY <1>1, <1>4, <2>1, ClaimMoves
<1>5. ASSUME NEW r \in Pending, Claimable(r, c.now, c.skipped), r \notin Locked,
             drain' = [drain EXCEPT ![w] = Picking(c, r)]
      PROVE  Inv'
  <2> DEFINE p == Picking(c, r)
  <2>1. /\ p.at = "device" /\ p.now = c.now /\ p.rows = c.rows \cup {r}
        /\ p.devices = c.devices /\ p.skipped = c.skipped /\ p.row = r
        /\ p.ahead = Ahead(r, c.now)
    BY DEF Picking
  <2> HIDE DEF p
  <2>2. /\ r \in Rows /\ batch[r].due \in Nat
        /\ batch[r].due <= c.now /\ batch[r].until <= c.now
    BY <1>5, RowTypes DEF Inv, Types, Claimable
  <2>3. \A a \in p.ahead : \E q \in Pending :
          /\ a = <<q, batch[q].due>> /\ Device(q) = Device(r)
          /\ Alive(q, c.now) /\ Before(q, r)
    BY <2>1 DEF Ahead
  <2>4. \A q \in Pending : /\ q \in recipients /\ q \in Rows /\ batch[q].due \in Nat
                           /\ Before(q, r) => batch[q].due <= c.now
    BY <1>3, <2>2, RowTypes DEF Inv, Types, Before
  <2>5. p \in Picks
    <3>1. \A a \in p.ahead : a \in Rows \X Nat
      BY <2>3, <2>4
    <3>2. p.rows \subseteq Rows
      BY <1>3, <2>1, <2>2, <2>4
    <3>3. c.rows \cup {r} \in SUBSET Rows /\ Ahead(r, c.now) \in SUBSET (Rows \X Nat)
      BY <2>1, <3>1, <3>2
    <3> QED BY <1>3, <2>2, <3>3 DEF p, Picking, Picks, Held
  <2>6. PickHolds(p)
    <3>1. \A a \in p.ahead : a[1] \in recipients /\ a[2] <= p.now
      <4> TAKE a \in p.ahead
      <4>1. PICK q \in Pending : a = <<q, batch[q].due>> /\ Before(q, r)
        BY <2>3
      <4>2. a[1] = q /\ a[2] = batch[q].due
        BY <4>1
      <4> QED BY <2>1, <2>4, <4>1, <4>2
    <3>2. \A q \in Pending : <<q, batch[q].due>> \in p.ahead =>
            Device(q) = Device(p.row) /\ Alive(q, p.now) /\ Before(q, p.row)
      BY <2>1, <2>3
    <3> QED BY <2>1, <2>2, <3>1, <3>2 DEF PickHolds, Checked
  <2>7. /\ \A v \in Drains : drain[v].at \in Claiming => r \notin drain[v].rows
        /\ accepting.at = "delete" => r \notin accepting.rows
    BY <1>5, LockedRows
  <2>8. Sound(w, p)
    BY <1>3, <2>1, <2>5, <2>6, <2>7 DEF Sound
  <2> QED BY <1>1, <1>5, <2>8, ClaimMoves DEF p
<1> QED BY <1>2, <1>4, <1>5

LEMMA LockDeviceInv ==
  ASSUME PushConstants, Inv, NEW w \in Drains, LockDevice(w)
  PROVE  Inv'
<1> DEFINE d == drain[w]
<1>1. /\ d.at = "device" /\ ~Delivers(w)
      /\ UNCHANGED <<clock, expires, recipients, dismissed, batch, accepting, lapsed, told>>
      /\ drain' = [drain EXCEPT ![w] =
                     IF DeviceLocked(Device(d.row), w) THEN Skipping(d)
                     ELSE [d EXCEPT !.at = "head", !.devices = @ \cup {Device(d.row)}]]
  BY DEF LockDevice, events, Delivers
<1>2. PICK c : c = d
  OBVIOUS
<1>3. c = drain[w] /\ c.at \in Held
  BY <1>1, <1>2 DEF Held
<1> HIDE DEF d
<1>4. CASE DeviceLocked(Device(c.row), w)
  BY <1>1, <1>2, <1>3, <1>4, SkippingSound, ClaimMoves
<1>5. CASE ~DeviceLocked(Device(c.row), w)
  <2> DEFINE p == [c EXCEPT !.at = "head", !.devices = @ \cup {Device(c.row)}]
  <2>1. /\ c \in Picks /\ PickHolds(c) /\ Device(c.row) \in Devices
    BY <1>3, ClaimUnderWay
  <2>2. /\ p \in Picks /\ p.at = "head" /\ p.devices = c.devices \cup {Device(c.row)}
        /\ p.now = c.now /\ p.rows = c.rows /\ p.row = c.row /\ p.ahead = c.ahead
    BY <2>1 DEF Picks, Held
  <2>3. PickHolds(p)
    BY <1>1, <1>2, <2>1, <2>2 DEF PickHolds, Checked
  <2>4. \A v \in Drains \ {w} : drain[v].at \in Claiming => Device(c.row) \notin drain[v].devices
    BY <1>5 DEF DeviceLocked
  <2>5. Sound(w, p)
    BY <1>3, <2>2, <2>3, <2>4, ClaimUnderWay DEF Sound
  <2> QED BY <1>1, <1>2, <1>5, <2>5, ClaimMoves
<1> QED BY <1>4, <1>5

LEMMA CheckHeadInv ==
  ASSUME PushConstants, Inv, NEW w \in Drains, CheckHead(w)
  PROVE  Inv'
<1> DEFINE d == drain[w]
<1>1. /\ d.at = "head" /\ ~Delivers(w)
      /\ UNCHANGED <<clock, expires, recipients, dismissed, batch, accepting, lapsed, told>>
      /\ drain' = [drain EXCEPT ![w] =
                     IF OwnsHead(d.row, d.now) THEN [d EXCEPT !.at = "judge"] ELSE Skipping(d)]
  BY DEF CheckHead, events, Delivers
<1>2. PICK c : c = d
  OBVIOUS
<1>3. c = drain[w] /\ c.at \in Held
  BY <1>1, <1>2 DEF Held
<1> HIDE DEF d
<1>4. CASE ~OwnsHead(c.row, c.now)
  BY <1>1, <1>2, <1>3, <1>4, SkippingSound, ClaimMoves
<1>5. CASE OwnsHead(c.row, c.now)
  <2> DEFINE p == [c EXCEPT !.at = "judge"]
  <2>1. /\ c \in Picks /\ PickHolds(c) /\ c.now \in Nat /\ clock \in Nat /\ c.now <= clock
    BY <1>3, ClaimUnderWay
  <2>2. /\ p \in Picks /\ p.at = "judge" /\ p.devices = c.devices
        /\ p.now = c.now /\ p.rows = c.rows /\ p.row = c.row /\ p.ahead = c.ahead
    BY <2>1 DEF Picks, Held
  <2>3. \A q \in Pending : <<q, batch[q].due>> \notin c.ahead
    BY <1>1, <1>2, <1>5, <2>1 DEF PickHolds, Checked, OwnsHead
  <2>4. \A v \in Drains : Delivers(v) /\ Device(drain[v].row) = Device(c.row) => v \in lapsed
    <3> SUFFICES ASSUME NEW v \in Drains, Delivers(v), Device(drain[v].row) = Device(c.row),
                        v \notin lapsed
                 PROVE  FALSE
      OBVIOUS
    <3>1. drain[v].row \in Pending /\ batch[drain[v].row].until > clock
      BY DEF Inv, Live, Holds
    <3>2. batch[drain[v].row].until \in Nat
      BY <3>1, RowTypes DEF Inv, Types
    <3>3. batch[drain[v].row].until > c.now
      BY <2>1, <3>1, <3>2
    <3> QED BY <1>5, <3>1, <3>3 DEF OwnsHead, Busy
  <2>5. PickHolds(p)
    BY <1>1, <1>2, <2>1, <2>2, <2>3, <2>4 DEF PickHolds, Checked
  <2>6. Sound(w, p)
    BY <1>3, <2>2, <2>5, ClaimUnderWay DEF Sound
  <2> QED BY <1>1, <1>2, <1>5, <2>6, ClaimMoves
<1> QED BY <1>4, <1>5

LEMMA JudgeAlertInv ==
  ASSUME PushConstants, Inv, NEW w \in Drains, JudgeAlert(w)
  PROVE  Inv'
<1> SUFFICES ASSUME ~Dismissed(drain[w].row) PROVE Inv'
  BY JudgeAlertDeletes
<1>0. drain[w].at = "judge" /\ ~Dismissed(drain[w].row)
  BY DEF JudgeAlert
<1> DEFINE d == drain[w]
<1>1. /\ d.at = "judge" /\ ~Delivers(w)
      /\ UNCHANGED <<clock, expires, recipients, dismissed, batch, accepting, lapsed, told>>
      /\ drain' = [drain EXCEPT ![w] = [d EXCEPT !.at = "lease"]]
  BY DEF JudgeAlert, events, Delivers
<1>2. PICK c : c = d
  OBVIOUS
<1>3. c = drain[w] /\ c.at \in Held /\ c.row[1] \notin dismissed
  BY <1>1, <1>2 DEF Held, Dismissed
<1> HIDE DEF d
<1> DEFINE p == [c EXCEPT !.at = "lease"]
<1>4. /\ c \in Picks /\ PickHolds(c)
  BY <1>3, ClaimUnderWay
<1>5. /\ p \in Picks /\ p.at = "lease" /\ p.devices = c.devices
      /\ p.now = c.now /\ p.rows = c.rows /\ p.row = c.row /\ p.ahead = c.ahead
  BY <1>4 DEF Picks, Held
<1>6. \A q \in told : p.row[1] \notin Cancels[q[1]]
  BY <1>3, <1>5 DEF Inv, Accepted, Types, TypeOK
<1>7. PickHolds(p)
  BY <1>1, <1>2, <1>4, <1>5, <1>6 DEF PickHolds, Checked
<1>8. Sound(w, p)
  BY <1>3, <1>5, <1>7, ClaimUnderWay DEF Sound
<1> QED BY <1>1, <1>2, <1>8, ClaimMoves

(* The lease is written. *)
LEMMA LeaseRowInv ==
  ASSUME PushConstants, Inv, NEW w \in Drains, LeaseRow(w)
  PROVE  Inv'
<1> DEFINE c0 == drain[w]
<1>1. /\ c0.at = "lease" /\ batch[c0.row].leases + 1 <= MaxLeases
      /\ batch' = [batch EXCEPT ![c0.row].until = c0.now + Lease,
                                ![c0.row].token = batch[c0.row].leases + 1,
                                ![c0.row].leases = batch[c0.row].leases + 1]
      /\ drain' = [drain EXCEPT ![w] = [at |-> "deliver", row |-> c0.row,
                                        token |-> batch[c0.row].leases + 1]]
      /\ lapsed' = IF c0.now + Lease <= clock THEN lapsed \cup {w} ELSE lapsed
      /\ told' = IF c0.row[1] \in Dismissals THEN told \cup {c0.row} ELSE told
      /\ UNCHANGED <<clock, expires, recipients, dismissed, accepting>>
  BY DEF LeaseRow, events
<1>2. PICK c : c = c0
  OBVIOUS
<1>3. c = drain[w] /\ c.at = "lease" /\ c.at \in Held /\ c.at \in Claiming
  BY <1>1, <1>2 DEF Held, Claiming
<1>4. PICK r0 : r0 = c.row
  OBVIOUS
<1>5. PICK n : n = batch[r0].leases + 1
  OBVIOUS
<1>6. PICK D : D = [at |-> "deliver", row |-> r0, token |-> n]
  OBVIOUS
<1>7. /\ r0 \in Pending /\ r0 \in Rows /\ r0 \in c.rows /\ Device(r0) \in c.devices
      /\ batch[r0].until <= c.now /\ c.now <= clock /\ c.now \in Nat /\ clock \in Nat
      /\ \A v \in Drains : Delivers(v) /\ Device(drain[v].row) = Device(r0) => v \in lapsed
      /\ \A q \in told : Device(q) = Device(r0) => r0[1] \notin Cancels[q[1]]
  BY <1>3, <1>4, ClaimUnderWay DEF PickHolds, Checked
<1>8. /\ \A v \in Drains \ {w} : drain[v].at \in Claiming =>
           r0 \notin drain[v].rows /\ Device(r0) \notin drain[v].devices
      /\ accepting.at = "delete" => r0 \notin accepting.rows
  BY <1>3, <1>7, ClaimUnderWay
<1>9. /\ r0 \in recipients /\ batch[r0].until \in Nat /\ batch[r0].leases \in Nat
      /\ Lease \in Nat /\ n \in 0..MaxLeases /\ n # 0 /\ n \in Nat
  BY <1>1, <1>2, <1>4, <1>5, <1>7, RowTypes DEF Inv, Types, PushConstants
<1>10. /\ Pending' = Pending
       /\ \A q \in Pending \ {r0} : batch'[q] = batch[q]
       /\ \A q \in Pending : batch'[q].due = batch[q].due /\ batch'[q].created = batch[q].created
  BY <1>1, <1>2, <1>4 DEF Pending
<1>11. batch[r0] \in Batches
  BY <1>7 DEF Inv, Types, TypeOK, Batches
<1>12. /\ batch'[r0] \in Batches /\ batch'[r0].until = c.now + Lease
       /\ batch'[r0].token = n /\ batch'[r0].leases = n
  <2>1. batch' = [batch EXCEPT ![r0].until = c.now + Lease, ![r0].token = n, ![r0].leases = n]
    BY <1>1, <1>2, <1>4, <1>5
  <2>2. batch'[r0] = [batch[r0] EXCEPT !.until = c.now + Lease, !.token = n, !.leases = n]
    BY <1>7, <1>11, <2>1 DEF Pending, Batches
  <2>3. c.now + Lease \in Nat
    BY <1>7, <1>9
  <2> QED BY <1>9, <1>11, <2>2, <2>3 DEF Batches
<1>13. /\ \A v \in Drains : drain'[v] = IF v = w THEN D ELSE drain[v]
       /\ D \in Deliveries /\ D.at = "deliver" /\ D.row = r0 /\ D.token = n
       /\ drain' = [drain EXCEPT ![w] = D]
  BY <1>1, <1>2, <1>4, <1>5, <1>6, <1>7, <1>9 DEF Inv, Types, Deliveries
<1>14. /\ lapsed \subseteq lapsed' /\ lapsed' \subseteq lapsed \cup {w}
       /\ w \notin lapsed' => c.now + Lease > clock
       /\ told \subseteq told' /\ told' \subseteq told \cup {r0}
       /\ r0 \in told' \ told => r0[1] \in Dismissals
       /\ UNCHANGED <<clock, expires, recipients, dismissed, accepting>>
  <2>1. c.now + Lease \in Nat
    BY <1>7, <1>9
  <2> QED BY <1>1, <1>2, <1>4, <1>7, <2>1
<1>15. w \notin lapsed /\ ~Delivers(w)
  BY <1>3 DEF Inv, Types, TypeOK, Delivers
<1> HIDE DEF c0
<1>16. Types'
  <2>1. \A r \in Pending' : batch'[r] \in Batches /\ batch'[r].token \in {0, batch'[r].leases}
    <3>1. \A r \in Pending : batch[r] \in Batches /\ batch[r].token \in {0, batch[r].leases}
      BY DEF Inv, Types, TypeOK, Batches
    <3> QED BY <1>10, <1>12, <3>1
  <2>2. lapsed' \subseteq {v \in Drains : drain'[v].at = "deliver"}
    BY <1>13, <1>14 DEF Inv, Types, TypeOK, Delivers
  <2>3. told' \subseteq recipients
    BY <1>9, <1>14 DEF Inv, Types, TypeOK
  <2>4. drain' \in [Drains -> {Idle} \cup Candidates \cup Picks \cup Deliveries]
    BY <1>13 DEF Inv, Types
  <2> QED BY <1>10, <1>14, <2>1, <2>2, <2>3, <2>4 DEF Inv, Types, TypeOK, Delivers, Batches
<1>17. \A v \in Drains : drain'[v].at \in Claiming => v # w /\ drain'[v] = drain[v]
  BY <1>13 DEF Claiming
<1>18. Accepted'
  <2>1. accepting.at = "delete" => \A r \in accepting.rows : batch'[r] = batch[r]
    BY <1>8, <1>10 DEF Inv, Locks
  <2>2. \A r \in told' : r[1] \in Dismissals
    BY <1>14 DEF Inv, Accepted
  <2> QED BY <1>14, <1>17, <2>1, <2>2 DEF Inv, Accepted, Expires
<1>19. Locks'
  BY <1>10, <1>14, <1>17 DEF Inv, Locks
<1>20. Claims'
  <2> SUFFICES ASSUME NEW v \in Drains, v # w, NEW p, p = drain[v], p.at \in Held
               PROVE  PickHolds(p)'
    BY <1>17 DEF Claims, Held, Claiming
  <2>1. /\ p \in Picks /\ PickHolds(p) /\ p.row \in p.rows /\ p.row \in Pending
        /\ p.at \in Claiming
    BY ClaimUnderWay DEF PickHolds, Held, Claiming
  <2>2. p.row # r0 /\ batch'[p.row] = batch[p.row]
    BY <1>8, <1>10, <2>1
  <2>3. p.at \in Checked => Device(p.row) # Device(r0)
    BY <1>8, <2>1 DEF PickHolds, Checked
  <2>4. /\ \A a \in p.ahead : a[1] \in recipients /\ a[2] <= p.now
        /\ p.at # "device" => Device(p.row) \in p.devices
    BY <2>1 DEF PickHolds
  <2>5. ASSUME p.at \notin Checked, NEW q \in Pending, <<q, batch'[q].due>> \in p.ahead
        PROVE  Device(q) = Device(p.row) /\ Alive(q, p.now)' /\ Before(q, p.row)'
    <3>1. Device(q) = Device(p.row) /\ Alive(q, p.now) /\ Before(q, p.row)
      BY <1>10, <2>1, <2>5 DEF PickHolds
    <3> QED BY <1>10, <1>14, <2>1, <3>1 DEF Alive, Before, Expires
  <2>6. p.at \in Checked =>
          /\ \A q \in Pending : <<q, batch'[q].due>> \notin p.ahead
          /\ \A u \in Drains :
               drain'[u].at = "deliver" /\ Device(drain'[u].row) = Device(p.row) => u \in lapsed'
    BY <1>10, <1>13, <1>14, <2>1, <2>3 DEF PickHolds, Delivers
  <2>7. p.at = "lease" => \A q \in told' : Device(q) = Device(p.row) => p.row[1] \notin Cancels[q[1]]
    BY <1>14, <2>1, <2>3 DEF PickHolds, Checked
  <2>8. batch'[p.row].until <= p.now /\ batch'[p.row].due <= p.now
    BY <2>1, <2>2 DEF PickHolds
  <2> QED BY <1>10, <1>14, <2>1, <2>4, <2>5, <2>6, <2>7, <2>8 DEF PickHolds, Device, Delivers
<1>21. Tokens'
  <2> SUFFICES ASSUME NEW v \in Drains, drain'[v].at = "deliver"
               PROVE  /\ drain'[v].row \in recipients' /\ drain'[v].token # 0
                      /\ drain'[v].row \in Pending' => drain'[v].token <= batch'[drain'[v].row].leases
                      /\ \A u \in Drains \ {v} :
                           drain'[u].at = "deliver" /\ drain'[u].row = drain'[v].row
                             => drain'[u].token # drain'[v].token
    BY DEF Tokens, Delivers
  <2>1. \A u \in Drains \ {w} : drain[u].at = "deliver" =>
          /\ drain[u].row \in recipients /\ drain[u].token # 0
          /\ drain[u].row \in Pending => drain[u].token <= batch[drain[u].row].leases
          /\ drain[u].row = r0 => drain[u].token < n
          /\ drain[u].token \in Nat
    <3> TAKE u \in Drains \ {w}
    <3> HAVE drain[u].at = "deliver"
    <3>1. drain[u] \in Deliveries
      BY DrainShapes DEF Inv
    <3>2. /\ drain[u].row \in recipients /\ drain[u].token # 0
          /\ drain[u].row \in Pending => drain[u].token <= batch[drain[u].row].leases
      BY DEF Inv, Tokens, Delivers
    <3> QED BY <1>5, <1>7, <1>9, <3>1, <3>2 DEF Deliveries
  <2>2. CASE v = w
    BY <1>9, <1>12, <1>13, <1>14, <2>1, <2>2
  <2>3. CASE v # w
    <3>1. drain'[v] = drain[v] /\ drain[v].at = "deliver"
      BY <1>13, <2>3
    <3>2. drain[v].row \in Pending' => drain[v].token <= batch'[drain[v].row].leases
      BY <1>10, <1>12, <1>9, <2>1, <2>3, <3>1
    <3>3. \A u \in Drains \ {v} :
            drain'[u].at = "deliver" /\ drain'[u].row = drain[v].row
              => drain'[u].token # drain[v].token
      BY <1>9, <1>13, <2>1, <2>3, <3>1 DEF Inv, Tokens, Delivers
    <3> QED BY <1>14, <2>1, <2>3, <3>1, <3>2, <3>3
  <2> QED BY <2>2, <2>3
<1>22. Live'
  <2> SUFFICES ASSUME NEW v \in Drains, drain'[v].at = "deliver", v \notin lapsed'
               PROVE  /\ drain'[v].row \in Pending'
                      /\ batch'[drain'[v].row].token = drain'[v].token
                      /\ batch'[drain'[v].row].until > clock
    BY <1>14 DEF Live, Holds, Delivers
  <2>1. CASE v = w
    BY <1>7, <1>10, <1>12, <1>13, <1>14, <2>1
  <2>2. CASE v # w
    <3>1. drain'[v] = drain[v] /\ Holds(v) /\ batch[drain[v].row].until > clock
      BY <1>13, <1>14, <2>2 DEF Inv, Live, Delivers
    <3>2. drain[v].row # r0
      BY <1>7, <1>9, <3>1
    <3> QED BY <1>10, <3>1, <3>2 DEF Holds
  <2> QED BY <2>1, <2>2
<1>23. OneInFlight'
  <2> SUFFICES ASSUME NEW u \in Drains, NEW v \in Drains, u # v, drain'[u].at = "deliver",
                      drain'[v].at = "deliver", Device(drain'[u].row) = Device(drain'[v].row)
               PROVE  u \in lapsed' \/ v \in lapsed'
    BY DEF OneInFlight, Delivers, Device
  <2>1. CASE u # w /\ v # w
    BY <1>13, <1>14, <2>1 DEF Inv, OneInFlight, Delivers
  <2>2. CASE u = w \/ v = w
    BY <1>7, <1>13, <1>14, <2>2 DEF Delivers
  <2> QED BY <2>1, <2>2
<1>24. DismissalIsLast'
  <2> SUFFICES ASSUME NEW v \in Drains, drain'[v].at = "deliver", NEW q \in told',
                      Device(q) = Device(drain'[v].row), drain'[v].row[1] \in Cancels[q[1]]
               PROVE  v \in lapsed'
    BY DEF DismissalIsLast, Delivers, Device
  <2>1. CASE v # w /\ q \in told
    BY <1>13, <1>14, <2>1 DEF Inv, DismissalIsLast, Delivers
  <2>2. CASE v # w /\ q \notin told
    BY <1>7, <1>13, <1>14, <2>2 DEF Delivers
  <2>3. CASE v = w /\ q \in told
    BY <1>7, <1>13, <2>3
  <2>4. CASE v = w /\ q \notin told
    <3>1. q = r0 /\ r0[1] \in Dismissals /\ r0[1] \in Cancels[r0[1]]
      BY <1>13, <1>14, <2>4
    <3> QED BY <3>1 DEF PushConstants
  <2> QED BY <2>1, <2>2, <2>3, <2>4
<1> QED BY <1>16, <1>18, <1>19, <1>20, <1>21, <1>22, <1>23, <1>24 DEF Inv

LEMMA StutterInv == ASSUME Inv, UNCHANGED vars PROVE Inv'
<1>1. UNCHANGED <<clock, expires, recipients, dismissed, batch, accepting, drain, lapsed, told>>
  BY DEF vars
<1>2. Types' /\ Accepted' /\ Locks'
  BY <1>1 DEF Inv, Types, TypeOK, Accepted, Locks, Pending, Delivers, Expires
<1>3. Tokens' /\ Live' /\ OneInFlight' /\ DismissalIsLast'
  BY <1>1 DEF Inv, Tokens, Live, OneInFlight, DismissalIsLast, Pending, Delivers, Holds, Device
<1>4. Claims'
  BY <1>1 DEF Inv, Claims, PickHolds, Pending, Delivers, Device, Alive, Before, Expires
<1> QED BY <1>2, <1>3, <1>4 DEF Inv

LEMMA NextInv == ASSUME PushConstants, Inv, [Next]_vars PROVE Inv'
<1>1. CASE \E d \in Devices : \/ \E e \in Alerts : AcceptAlert(e, d)
                            \/ \E e \in Dismissals : ListAlerts(e, d)
  BY <1>1, AcceptAlertInv, ListAlertsInv
<1>2. CASE DeleteAlerts \/ CommitDismissal \/ AbortDismissal
  BY <1>2, DeleteAlertsInv, CommitDismissalInv, AbortDismissalInv
<1>3. CASE \E w \in Drains : \/ SelectCandidate(w) \/ LockDevice(w) \/ CheckHead(w)
                           \/ JudgeAlert(w) \/ LeaseRow(w)
  BY <1>3, SelectCandidateInv, LockDeviceInv, CheckHeadInv, JudgeAlertInv, LeaseRowInv
<1>4. CASE \E w \in Drains : Renew(w) \/ FinishDelivery(w) \/ RetryDelivery(w) \/ Stops(w)
  BY <1>4, RenewInv, FinishDeliveryInv, RetryDeliveryInv, StopsInv
<1>5. CASE \E r \in Pending : Prune(r)
  BY <1>5, PruneInv
<1>6. CASE Tick
  BY <1>6, TickInv
<1>7. CASE UNCHANGED vars
  BY <1>7, StutterInv
<1> QED BY <1>1, <1>2, <1>3, <1>4, <1>5, <1>6, <1>7 DEF Next

(* Everything a claim relies on holds in every state. *)
THEOREM InvIsInvariant == ASSUME PushConstants PROVE Spec => []Inv
<1>1. Init => Inv
  BY InitInv
<1>2. Inv /\ [Next]_vars => Inv'
  BY NextInv
<1> QED BY <1>1, <1>2, PTL DEF Spec

(* Every variable has its type. *)
THEOREM TypeCorrect == ASSUME PushConstants PROVE Spec => []TypeOK
<1>1. Inv => TypeOK
  BY DEF Inv, Types
<1> QED BY <1>1, InvIsInvariant, PTL

(* A phone never has two deliveries in flight whose leases both run. *)
THEOREM OneDelivery == ASSUME PushConstants PROVE Spec => []OneInFlight
<1>1. Inv => OneInFlight
  BY DEF Inv
<1> QED BY <1>1, InvIsInvariant, PTL

(* Once a drain was given a dismissal, no drain whose lease runs delivers an alert the
   dismissal is about. *)
THEOREM DismissalsLast == ASSUME PushConstants PROVE Spec => []DismissalIsLast
<1>1. Inv => DismissalIsLast
  BY DEF Inv
<1> QED BY <1>1, InvIsInvariant, PTL

(* No claim leases a row over one of its device that was before it. *)
THEOREM NoneOvertakes == ASSUME PushConstants PROVE Spec => NoOvertaking
<1> DEFINE A == \A w \in Drains :
       drain[w].at = "lease" /\ drain'[w].at = "deliver" =>
         \A q \in Pending : <<q, batch[q].due>> \notin drain[w].ahead
<1>1. Inv => A
  BY DEF Inv, Claims, PickHolds, Held, Checked
<1>2. Inv /\ [Next]_vars => [A]_vars
  BY <1>1
<1> HIDE DEF A
<1>3. Spec => [][A]_vars
  BY <1>2, InvIsInvariant, PTL DEF Spec
<1> QED BY <1>3 DEF NoOvertaking, A

(* The row of a lease that runs is left to its drain by every step. *)
LEMMA LeaseLeftAlone ==
  ASSUME PushConstants, Inv, Next, NEW w \in Drains,
         Holds(w), batch[drain[w].row].until > clock, drain'[w] = drain[w]
  PROVE  drain[w].row \in Pending' /\ batch'[drain[w].row].token = batch[drain[w].row].token
<1> DEFINE r0 == drain[w].row
<1> DEFINE Kept == r0 \in Pending' /\ batch'[r0].token = batch[r0].token
<1>1. /\ drain[w].at = "deliver" /\ r0 \in Pending /\ r0 \in recipients
      /\ batch[r0].until \in Nat /\ clock \in Nat /\ batch[r0].until > clock
      /\ Idle.at = "idle"
  BY RowTypes DEF Holds, Delivers, Inv, Types, TypeOK, Idle
<1> SUFFICES Kept OBVIOUS
<1> HIDE DEF r0
<1>2. CASE UNCHANGED batch
  BY <1>1, <1>2 DEF Pending
<1>3. CASE \E e \in Alerts, d \in Devices : AcceptAlert(e, d)
  <2>1. PICK e \in Alerts, d \in Devices : AcceptAlert(e, d)
    BY <1>3
  <2>2. <<e, d>> # r0
    BY <1>1, <2>1 DEF AcceptAlert
  <2>3. \/ batch' = batch
        \/ \E now \in Times : batch' = [r \in Pending \cup {<<e, d>>} |->
                                       IF r = <<e, d>> THEN NewBatch(now) ELSE batch[r]]
    BY <2>1 DEF AcceptAlert
  <2> QED BY <1>1, <2>2, <2>3 DEF Pending
<1>4. CASE CommitDismissal
  <2> DEFINE r == <<accepting.event, accepting.device>>
             kept == [q \in Pending \ accepting.rows |-> batch[q]]
  <2>1. /\ accepting.at = "delete" /\ accepting # NoAccept
        /\ batch' = [q \in DOMAIN kept \cup {r} |->
                       IF q = r THEN NewBatch(accepting.now) ELSE kept[q]]
    BY <1>4 DEF CommitDismissal, Without, NoAccept
  <2>2. r # r0
    BY <1>1, <2>1 DEF Inv, Accepted
  <2>3. r0 \notin accepting.rows
    <3>1. accepting.now \in Nat /\ accepting.now <= clock
      BY <2>1 DEF Inv, Types, Accepted, Accepts
    <3> QED BY <1>1, <2>1, <3>1 DEF Inv, Accepted
  <2> HIDE DEF r
  <2> QED BY <1>1, <2>1, <2>2, <2>3 DEF Pending
<1>5. CASE \E v \in Drains : JudgeAlert(v) \/ LeaseRow(v)
  <2>1. PICK v \in Drains : JudgeAlert(v) \/ LeaseRow(v)
    BY <1>5
  <2>2. PICK c : c = drain[v]
    OBVIOUS
  <2>3. c = drain[v] /\ c.at \in Held
    BY <2>1, <2>2 DEF JudgeAlert, LeaseRow, Held
  <2>4. c.row # r0
    BY <1>1, <2>3, ClaimUnderWay DEF PickHolds
  <2>5. \/ batch' = batch
        \/ batch' = [q \in Pending \ {c.row} |-> batch[q]]
        \/ batch' = [batch EXCEPT ![c.row].until = c.now + Lease,
                                 ![c.row].token = batch[c.row].leases + 1,
                                 ![c.row].leases = batch[c.row].leases + 1]
    BY <2>1, <2>2 DEF JudgeAlert, LeaseRow, Without
  <2> QED BY <1>1, <2>4, <2>5 DEF Pending
<1>6. CASE \E v \in Drains : Renew(v)
  <2>1. PICK v \in Drains : Renew(v)
    BY <1>6
  <2>2. PICK now \in Times : batch' = [batch EXCEPT ![drain[v].row].until = now + Lease]
    BY <2>1 DEF Renew
  <2>3. batch[r0] \in Batches
    BY <1>1 DEF Inv, Types, TypeOK, Batches
  <2> QED BY <1>1, <2>2, <2>3 DEF Pending, Batches
<1>7. CASE \E v \in Drains : FinishDelivery(v) \/ RetryDelivery(v)
  <2>1. PICK v \in Drains : FinishDelivery(v) \/ RetryDelivery(v)
    BY <1>7
  <2>2. drain' = [drain EXCEPT ![v] = Idle]
    BY <2>1 DEF FinishDelivery, RetryDelivery, Ends
  <2>3. v # w
    BY <1>1, <2>2 DEF Inv, Types
  <2>4. drain[v].row # r0 \/ ~Holds(v)
    BY <2>3, OneHolder DEF r0
  <2>5. \/ batch' = batch
        \/ Holds(v) /\ batch' = [q \in Pending \ {drain[v].row} |-> batch[q]]
        \/ Holds(v) /\ \E due :
             batch' = [batch EXCEPT ![drain[v].row].due = due, ![drain[v].row].until = 0,
                                    ![drain[v].row].token = 0]
    BY <2>1 DEF FinishDelivery, RetryDelivery, Without
  <2> QED BY <1>1, <2>4, <2>5 DEF Pending
<1>8. CASE \E r \in Pending : Prune(r)
  <2>1. PICK r \in Pending : Prune(r)
    BY <1>8
  <2>2. r # r0 /\ batch' = [q \in Pending \ {r} |-> batch[q]]
    BY <1>1, <2>1 DEF Prune, Without
  <2> QED BY <1>1, <2>2 DEF Pending
<1>9. ASSUME NEW e \in Dismissals, NEW d \in Devices, ListAlerts(e, d) PROVE UNCHANGED batch
  BY <1>9 DEF ListAlerts
<1>10. CASE DeleteAlerts \/ AbortDismissal \/ Tick
  BY <1>2, <1>10 DEF DeleteAlerts, AbortDismissal, Tick
<1>11. ASSUME NEW v \in Drains, SelectCandidate(v) \/ LockDevice(v) \/ CheckHead(v) \/ Stops(v)
       PROVE  UNCHANGED batch
  BY <1>11 DEF SelectCandidate, LockDevice, CheckHead, Stops
<1> HIDE DEF Kept
<1> QED BY <1>2, <1>3, <1>4, <1>5, <1>6, <1>7, <1>8, <1>9, <1>10, <1>11 DEF Next

(* While its lease runs, a delivery is its own drain's to end. *)
THEOREM LeasesUndisturbed == ASSUME PushConstants PROVE Spec => LiveLeaseUndisturbed
<1> DEFINE A == \A w \in Drains :
       Holds(w) /\ batch[drain[w].row].until > clock /\ drain'[w] = drain[w] => Holds(w)'
<1>1. ASSUME Inv, Next PROVE A
  <2>1. ASSUME NEW w \in Drains, Holds(w), batch[drain[w].row].until > clock,
               drain'[w] = drain[w]
        PROVE  Holds(w)'
    <3>1. drain[w].row \in Pending' /\ batch'[drain[w].row].token = batch[drain[w].row].token
      BY <1>1, <2>1, LeaseLeftAlone
    <3> QED BY <2>1, <3>1 DEF Holds, Delivers
  <2> QED BY <2>1
<1>2. Inv /\ [Next]_vars => [A]_vars
  BY <1>1
<1> HIDE DEF A
<1>3. Spec => [][A]_vars
  BY <1>2, InvIsInvariant, PTL DEF Spec
<1> QED BY <1>3 DEF LiveLeaseUndisturbed, A
=============================================================================
