--------------------------- MODULE MailboxPointer ---------------------------
(***************************************************************************)
(* One Run mailbox and the two ways its mail reaches an agent: the checks  *)
(* an agent makes, which read batches under a Delivery and acknowledge     *)
(* them, and the pointer lane, which types "you have mail" into the pane   *)
(* of the coordinator at rest and presses Enter a moment later.            *)
(***************************************************************************)
EXTENDS Integers, Sequences, FiniteSets, FiniteSetsExt

CONSTANTS
  Ptys,           \* the terminals that may hold the coordinator of the Run
  Cursors,        \* those whose title may name an agent that needs no Enter
  Outcomes,       \* what a write to a terminal may come to
  MaxMail,        \* bound: messages sent to the mailbox
  MaxGeneration,  \* bound: consumer generations of the Run
  MaxUpsets       \* bound: what upsets the lane (Upset)

ASSUME MailboxAssumption ==
  /\ Cursors \subseteq Ptys
  /\ Outcomes \subseteq {"accepted", "refused", "unverifiable"}
  /\ MaxMail \in Nat /\ MaxGeneration \in Nat \ {0} /\ MaxUpsets \in Nat

VARIABLES
  arrived,     \* messages 1..arrived were sent
  read,        \* the acknowledged ones
  deliveries,  \* Deliveries in creation order
  standing,    \* per Delivery, "outstanding", "acknowledged" or "fenced"
  owner,       \* terminal of the coordinator
  generation,  \* consumer generation of the Run
  check,       \* per terminal, the check its agent is making
  proc,        \* per terminal, "live", "dying" (dead, its exit not yet seen) or "gone"
  inc,         \* per terminal, the incarnation of its process
  status,      \* per terminal, the agent status its live titles show
  cold,        \* terminals whose pane is parked out of the window
  repoint,     \* the mailbox is scheduled for a repoint
  lane,        \* the pointer lane: the pointer columns of the rows and its memory
  upsets,      \* upsets so far
  entered,     \* history: the messages an Enter was pressed for, where and when
  returned,    \* history: the messages a late answer made news again (PutBack)
  declined     \* history: the messages the lane was turned away with

reader == <<read, deliveries, standing, owner, generation>>
history == <<entered, returned, declined>>
terminals == <<proc, inc, status, cold>>
vars == <<arrived, reader, check, terminals, repoint, lane, upsets, history>>

Mail == 1..MaxMail
Processes == Ptys \X Nat
NoProcess == <<>>
NoCheck == [stage |-> "none", generation |-> 0, ack |-> 0]
NoFlight == [stage |-> "none", batch |-> {}, inc |-> 0]
NoPointer == [phase |-> 0, target |-> NoProcess, delivered |-> FALSE]

(* Phases of a row's pointer reservation. *)
Reserved == 1
WriteAttempted == 2
EnterAttempted == 3

Process(p) == <<p, inc[p]>>
Unread == (1..arrived) \ read
Waiters == {p \in Ptys : check[p].stage = "waiting"}
AtStage(p, stage) == [stage |-> stage, generation |-> check[p].generation, ack |-> 0]

(* The outstanding Deliveries: those that still hold an unread message. *)
Outstanding ==
  {d \in DOMAIN deliveries :
     standing[d] = "outstanding" /\ deliveries[d].batch \cap Unread # {}}

(* A check in progress or an unread Delivery has the mail: the pointer must keep quiet. *)
ReaderHas(batch) == Outstanding # {} \/ Waiters # {} \/ ~(batch \subseteq Unread)
-----------------------------------------------------------------------------
(* The pointer columns of the rows.  Each operator takes the lane and returns it with the
   rows of a batch changed where their reservation is the one expected. *)

Held(s, batch, target, phases) ==
  {m \in batch : s.row[m].target = target /\ s.row[m].phase \in phases}

(* Fault: the row goes on naming the process. *)
ResetPhase(s, rows, delivered) ==
  [s EXCEPT !.row = [m \in Mail |->
     IF m \in rows THEN [@[m] EXCEPT !.phase = 0, !.delivered = delivered] ELSE @[m]]]

SetRows(s, rows, delivered) ==
  [s EXCEPT !.row = [m \in Mail |->
     IF m \in rows THEN [NoPointer EXCEPT !.delivered = delivered] ELSE @[m]]]

stageMailboxPointerEnter(s, batch, target) ==
  [s EXCEPT !.row = [m \in Mail |->
     IF m \in batch
     THEN [@[m] EXCEPT !.phase = WriteAttempted, !.target = target] ELSE @[m]]]

releaseMailboxPointerEnter(s, batch, target, phases) ==
  SetRows(s, Held(s, batch, target, phases) \ read, FALSE)

settleMailboxPointerEnter(s, batch, target, phases) ==
  SetRows(s, Held(s, batch, target, phases), TRUE)

(* Working output of an agent settles what was pointed at its terminal. *)
releasePendingMailboxPointerForPty(s, p) ==
  LET pending == {m \in Mail : s.row[m].phase > 0 /\ s.row[m].target[1] = p}
      reserved == {m \in pending : s.row[m].phase = Reserved}
  IN  SetRows(SetRows(s, pending, TRUE), reserved, FALSE)

forgetReservations(s, batch) ==
  [s EXCEPT !.row = [m \in Mail |->
     IF m \in batch THEN [@[m] EXCEPT !.phase = 0, !.target = NoProcess] ELSE @[m]]]

markAsUndelivered(s, batch) == SetRows(s, batch \ read, FALSE)
markAsDelivered(s, batch) == SetRows(s, batch, TRUE)
-----------------------------------------------------------------------------
(* The lane's memory: a flight per terminal, the watermark of the mailbox, parked
   deliveries and redeliveries.  "mark" holds at most one watermark. *)

MarkAt(s, p, newest) == {w \in s.mark : w.pty = p /\ w.sequence = newest}
clearWatermark(s, p, newest) == [s EXCEPT !.mark = @ \ MarkAt(s, p, newest)]
(* Fault: a flight in doubt leaves its watermark active. *)
KeepWatermark(s, p, newest) == s

deactivateWatermark(s, p, newest) ==
  [s EXCEPT !.mark = {IF w \in MarkAt(s, p, newest) THEN [w EXCEPT !.active = FALSE] ELSE w
                      : w \in @}]
hasActiveWatermark(s) == \E w \in s.mark : w.active

redrive(s, force) ==
  IF force \/ s.parked
  THEN [s EXCEPT !.parked = FALSE, !.queued = @ + 1]
  ELSE s

(* A flight whose text is typed waits for its Enter on a timer ("timer") or for the agent
   to be seen at rest ("held"); one still typing remembers which it will need. *)
deferFlightUntilIdle(s, p) ==
  [s EXCEPT !.flight[p].stage =
     CASE @ = "timer" -> "held"
       [] @ \in {"writing", "writing_ready"} -> "writing_deferred"
       [] OTHER -> @]

(* Fault: rest shown while the text is typed is forgotten. *)
TakeHeldEnter(s, p) ==
  [s EXCEPT !.flight[p].stage = IF @ = "held" THEN "probing" ELSE @]

takeDeferredEnter(s, p) ==
  [s EXCEPT !.flight[p].stage =
     CASE @ = "held" -> "probing"
       [] @ = "writing_deferred" -> "writing_ready"
       [] OTHER -> @]

HasFlight(s, p) == s.flight[p].stage # "none"

(* The process of a terminal is gone, or its agent works on its own: drop its flight and
   its watermark, and offer the mail again.  The answer to a probe may still be due. *)
retirePty(s, p) ==
  LET f == s.flight[p]
      marks == {w \in s.mark : w.pty = p}
      dropped == [releaseMailboxPointerEnter(s, f.batch, <<p, f.inc>>, {Reserved, WriteAttempted})
                    EXCEPT !.flight[p] = NoFlight,
                           !.parkedOn[p] = FALSE,
                           !.mark = @ \ marks,
                           !.strays = IF f.stage = "probing"
                                      THEN @ \cup {[pty |-> p, sequence |-> Max(f.batch)]}
                                      ELSE @]
  IN  IF marks = {} THEN dropped ELSE redrive(dropped, TRUE)
-----------------------------------------------------------------------------
(* One attempt to point the mailbox at a terminal.  "settled" says whether the pane's
   evidence lets the lane type into it, "known" whether its process needs no probe. *)

Writable(p) == proc[p] # "gone"

(* Point the unread mail nobody was told of, unless a watermark already covers it. *)
Point(s, p, skipProbe, known) ==
  LET batch == {m \in Unread : s.row[m] = NoPointer}
      newest == Max(batch)
      covering == {w \in s.mark : w.sequence >= newest}
      superseded == [s EXCEPT !.mark = @ \ covering]
      staged == [stageMailboxPointerEnter(superseded, batch, Process(p))
                   EXCEPT !.flight[p] = [stage |-> "writing", batch |-> batch, inc |-> inc[p]],
                          !.mark = {[pty |-> p, sequence |-> newest, active |-> TRUE]}]
  IN  CASE batch = {} \/ ~Writable(p) -> s
        [] batch # {} /\ Writable(p) /\ (\E w \in covering : w.active \/ w.pty = p) -> s
        [] OTHER ->
             IF ~skipProbe /\ ~known
             THEN [superseded EXCEPT !.asked[p] = IF @ = 0 THEN inc[p] ELSE @]
             ELSE staged

(* Reservations left by an earlier flight come first.  Those of another process are
   released; those of this one may have been typed or entered, so they are settled and
   nothing more is pointed this time. *)
(* Fault: what may have been entered is pointed again. *)
ReleasePending(s, p, skipProbe, known) ==
  LET pending == {m \in Unread : s.row[m].phase > 0}
  IN  Point(SetRows(s, pending, FALSE), p, skipProbe, known)

resumePending(s, p, skipProbe, known) ==
  LET pending == {m \in Unread : s.row[m].phase > 0}
      phases == {s.row[m].phase : m \in pending}
      ours == Writable(p) /\ \A m \in pending : s.row[m].target = Process(p)
  IN  IF ours /\ pending # {} /\ phases # {Reserved}
      THEN settleMailboxPointerEnter(s, pending, Process(p), {WriteAttempted, EnterAttempted})
      ELSE Point(SetRows(s, pending, FALSE), p, skipProbe, known)

deliver(s, p, skipProbe, settled, known) ==
  LET calm == [s EXCEPT !.recheck[p] = FALSE]
  IN  CASE Outstanding # {} -> s
        [] Outstanding = {} /\ ~settled -> [s EXCEPT !.parked = TRUE, !.recheck[p] = TRUE]
        [] OTHER ->
             IF HasFlight(s, p)
             THEN [takeDeferredEnter(calm, p) EXCEPT !.parkedOn[p] = TRUE]
             ELSE IF hasActiveWatermark(s) THEN [calm EXCEPT !.parked = TRUE]
             ELSE IF Waiters # {} THEN calm
             ELSE resumePending(calm, p, skipProbe, known)

(* The mailbox is offered to whoever coordinates the Run, if seen at rest. *)
deliverForHandle(s, settled, known) ==
  IF status[owner] = "idle" THEN deliver(s, owner, FALSE, settled, known) ELSE s

(* A flight ends: what was parked on it is delivered, or parked for another terminal. *)
(* Fault: what was parked on the flight is dropped. *)
EndFlight(s, p, settled, known) ==
  [s EXCEPT !.flight[p] = NoFlight, !.parkedOn[p] = FALSE]

settle(s, p, settled, known) ==
  LET ended == [s EXCEPT !.flight[p] = NoFlight, !.parkedOn[p] = FALSE]
  IN  IF ~s.parkedOn[p] THEN ended
      ELSE IF p = owner THEN deliver(ended, p, FALSE, settled, known)
      ELSE redrive([ended EXCEPT !.parked = TRUE], FALSE)
-----------------------------------------------------------------------------
(* What upsets the lane, so many times in a behaviour: a process that dies, a restart, a
   write that is not accepted, a pane parked out of the window, a pane not settled and a
   process that must be probed. *)
Upset(n) ==
  /\ upsets' = upsets + n
       + Cardinality({p \in Ptys : lane'.recheck[p] /\ ~lane.recheck[p]})
       + Cardinality({p \in Ptys : lane'.asked[p] > 0 /\ lane.asked[p] = 0})
  /\ upsets' <= MaxUpsets

Weight(outcome) == IF outcome = "accepted" THEN 0 ELSE 1

(* An answer that comes for a terminal which no longer coordinates the Run is acted upon
   all the same: mail that may have been entered elsewhere meanwhile is news again. *)
PutBack(p) ==
  IF p = owner THEN {}
  ELSE {m \in Unread : /\ lane.row[m].phase = EnterAttempted \/ lane.row[m].delivered
                       /\ lane'.row[m].phase # EnterAttempted /\ ~lane'.row[m].delivered}

(* An ambiguous write, or a refused Enter, of a terminal that no longer coordinates the Run
   ends the flight of the watermark without a redelivery, though one may be parked. *)
LeftBehind(p) ==
  IF p # owner /\ MarkAt(lane, p, Max(lane.flight[p].batch)) # {} THEN Unread ELSE {}

Init ==
  /\ arrived = 0 /\ read = {} /\ deliveries = <<>> /\ standing = <<>>
  /\ owner \in Ptys /\ generation = 1
  /\ check = [p \in Ptys |-> NoCheck]
  /\ proc = [p \in Ptys |-> "live"] /\ inc = [p \in Ptys |-> 1]
  /\ status = [p \in Ptys |-> "other"]
  /\ cold = {} /\ repoint = FALSE
  /\ lane = [row |-> [m \in Mail |-> NoPointer],
             flight |-> [p \in Ptys |-> NoFlight],
             mark |-> {}, parkedOn |-> [p \in Ptys |-> FALSE], parked |-> FALSE,
             queued |-> 0, recheck |-> [p \in Ptys |-> FALSE],
             asked |-> [p \in Ptys |-> 0], strays |-> {}]
  /\ upsets = 0 /\ entered = {} /\ returned = {} /\ declined = {}

(* Message arrival wakes the waiting check, or queues a delivery when there is none. *)
notifyMessageArrived ==
  /\ arrived < MaxMail
  /\ arrived' = arrived + 1
  /\ check' = [p \in Ptys |-> IF p \in Waiters THEN AtStage(p, "woken") ELSE check[p]]
  /\ lane' = IF Waiters = {} THEN [lane EXCEPT !.queued = @ + 1] ELSE lane
  /\ UNCHANGED <<reader, terminals, repoint, upsets, history>>

(* The queued delivery runs. *)
QueuedDelivery(settled, known) ==
  /\ lane.queued > 0
  /\ lane' = deliverForHandle([lane EXCEPT !.queued = @ - 1], settled, known)
  /\ UNCHANGED <<arrived, reader, check, terminals, repoint, history>>
  /\ Upset(0)

repointPendingMessages(settled, known) ==
  /\ repoint
  /\ repoint' = FALSE
  /\ lane' = deliverForHandle(lane, settled, known)
  /\ UNCHANGED <<arrived, reader, check, terminals, history>>
  /\ Upset(0)

(* The pane that was refused is looked at again once it may have gone quiet. *)
DeliveryRecheck(p, settled, known) ==
  /\ lane.recheck[p]
  /\ settled
  /\ lane' = LET quiet == [lane EXCEPT !.recheck[p] = FALSE]
             IN  IF p = owner THEN deliver(quiet, p, FALSE, TRUE, known) ELSE quiet
  /\ UNCHANGED <<arrived, reader, check, terminals, repoint, history>>
  /\ Upset(0)

(* The probe a delivery waited for is answered; only a dead process is proved absent. *)
AbsenceAnswered(p, absent, settled) ==
  /\ lane.asked[p] > 0
  /\ absent => proc[p] # "live" \/ inc[p] # lane.asked[p]
  /\ lane' = LET answered == [lane EXCEPT !.asked[p] = 0]
             IN  IF ~absent /\ status[p] = "idle"
                 THEN deliver(answered, p, TRUE, settled, TRUE) ELSE answered
  /\ declined' = IF absent /\ proc[p] = "live" THEN declined \cup Unread ELSE declined
  /\ returned' = returned \cup PutBack(p)
  /\ UNCHANGED <<arrived, reader, check, terminals, repoint, entered>>
  /\ Upset(0)
-----------------------------------------------------------------------------
(* The flight of a terminal: the pointer text is typed, then the Enter. *)

finishPointerWrite(p, outcome, enterless, settled, known) ==
  LET f == lane.flight[p]
      newest == Max(f.batch)
      cleared == clearWatermark(lane, p, newest)
      drained(s) == IF MarkAt(lane, p, newest) = {} THEN s ELSE redrive(s, FALSE)
      next == CASE f.stage = "writing" -> "timer"
                [] f.stage = "writing_deferred" -> "held"
                [] OTHER -> "probing"
  IN
  /\ f.stage \in {"writing", "writing_deferred", "writing_ready"}
  /\ lane' =
       CASE outcome = "unverifiable" ->
              settle(deactivateWatermark(lane, p, newest), p, settled, known)
         [] outcome = "refused" ->
              settle(drained(markAsUndelivered(cleared, f.batch)), p, settled, known)
         [] outcome = "accepted" /\ ReaderHas(f.batch) ->
              settle(drained(cleared), p, settled, known)
         [] outcome = "accepted" /\ ~ReaderHas(f.batch) /\ enterless ->
              settle(redrive(markAsDelivered(cleared, f.batch), FALSE), p, settled, known)
         [] OTHER -> [lane EXCEPT !.flight[p].stage = next]
  /\ declined' = declined \cup CASE outcome = "unverifiable" -> LeftBehind(p)
                                [] outcome = "refused" -> f.batch
                                [] OTHER -> {}
  /\ returned' = returned \cup PutBack(p)
  /\ UNCHANGED <<arrived, reader, check, terminals, repoint, entered>>
  /\ Upset(Weight(outcome))

EnterTimer(p) ==
  /\ lane.flight[p].stage = "timer"
  /\ lane' = [lane EXCEPT !.flight[p].stage = "probing"]
  /\ UNCHANGED <<arrived, reader, check, terminals, repoint, upsets, history>>

(* Fault: the mail is not offered again. *)
ClearOnly(s, p, settled, known) ==
  LET f == s.flight[p]
  IN  settle(clearWatermark(
               releaseMailboxPointerEnter(s, f.batch, <<p, f.inc>>, {WriteAttempted}),
               p, Max(f.batch)), p, settled, known)

(* The end of a submission: "typed" rows go back to the mailbox or count as delivered. *)
ClearAndRedrive(s, p, settled, known) ==
  LET f == s.flight[p]
      newest == Max(f.batch)
      freed == settle(clearWatermark(
                        releaseMailboxPointerEnter(s, f.batch, <<p, f.inc>>, {WriteAttempted}),
                        p, newest), p, settled, known)
  IN  IF MarkAt(s, p, newest) = {} THEN freed ELSE redrive(freed, TRUE)

CountAsDelivered(s, p, phase, settled, known) ==
  LET f == s.flight[p]
  IN  settle(clearWatermark(settleMailboxPointerEnter(s, f.batch, <<p, f.inc>>, {phase}),
                            p, Max(f.batch)), p, settled, known)

KeepInDoubt(s, p, settled, known) ==
  LET f == s.flight[p]
      newest == Max(f.batch)
      kept == settle(deactivateWatermark(s, p, newest), p, settled, known)
  IN  IF MarkAt(s, p, newest) = {} THEN kept ELSE redrive(kept, FALSE)

(* The moment before the Enter: everything the text was typed for is looked at again. *)
submitPointer(p, absent, settled, known) ==
  LET f == lane.flight[p]
      target == <<p, f.inc>>
      exact == Writable(p) /\ target = Process(p)
      rows == Held(lane, f.batch, target, {WriteAttempted})
  IN
  /\ f.stage = "probing"
  /\ absent => proc[p] # "live"
  /\ \/ /\ absent \/ ~exact \/ p # owner
        /\ lane' = ClearAndRedrive(lane, p, settled, known)
        /\ UNCHANGED entered
     \/ /\ ~absent /\ exact /\ p = owner /\ status[p] = "none"
        /\ lane' = [lane EXCEPT !.flight[p].stage = "held"]
        /\ UNCHANGED entered
     \/ /\ ~absent /\ exact /\ p = owner
        /\ \/ status[p] = "other"
           \/ status[p] \in {"idle", "working"} /\ ReaderHas(f.batch)
        /\ lane' = CountAsDelivered(lane, p, WriteAttempted, settled, known)
        /\ UNCHANGED entered
     \/ /\ ~absent /\ exact /\ p = owner
        /\ status[p] \in {"idle", "working"} /\ ~ReaderHas(f.batch)
        /\ IF rows = f.batch
           THEN /\ lane' = [lane EXCEPT
                     !.row = [m \in Mail |-> IF m \in rows
                                THEN [@[m] EXCEPT !.phase = EnterAttempted] ELSE @[m]],
                     !.flight[p].stage = "entering"]
                /\ entered' = entered \cup
                     {[mail |-> m, process |-> target, generation |-> generation] : m \in rows}
           ELSE /\ lane' = KeepInDoubt(lane, p, settled, known)
                /\ UNCHANGED entered
  /\ UNCHANGED <<arrived, reader, check, terminals, repoint, returned, declined>>
  /\ Upset(0)

finishEnterWrite(p, outcome, settled, known) ==
  LET newest == Max(lane.flight[p].batch)
      counted == CountAsDelivered(lane, p, EnterAttempted, settled, known)
  IN
  /\ lane.flight[p].stage = "entering"
  /\ lane' = CASE outcome = "accepted" ->
                    IF MarkAt(lane, p, newest) = {} THEN counted ELSE redrive(counted, FALSE)
               [] outcome = "refused" -> counted
               [] outcome = "unverifiable" -> KeepInDoubt(lane, p, settled, known)
  /\ declined' = IF outcome = "accepted" THEN declined ELSE declined \cup LeftBehind(p)
  /\ UNCHANGED <<arrived, reader, check, terminals, repoint, entered, returned>>
  /\ Upset(Weight(outcome))

(* The probe of a flight whose terminal exited meanwhile is answered: if absent, it clears the
   watermark of that terminal and sequence, whoever set it; its rows were released then. *)
StrayAnswered(stray, absent) ==
  /\ stray \in lane.strays
  /\ LET dropped == [lane EXCEPT !.strays = @ \ {stray}]
         freed == clearWatermark(dropped, stray.pty, stray.sequence)
     IN  lane' = IF absent /\ MarkAt(lane, stray.pty, stray.sequence) # {}
                 THEN redrive(freed, TRUE) ELSE dropped
  /\ UNCHANGED <<arrived, reader, check, terminals, repoint, upsets, history>>
-----------------------------------------------------------------------------
(* What a terminal shows: titles of its agent, its exit, a new process in its place. *)

TitleIdle(p, settled, known) ==
  /\ proc[p] = "live" /\ check[p].stage = "none"
  /\ status' = [status EXCEPT ![p] = "idle"]
  /\ lane' = LET parked == IF p \in cold THEN deferFlightUntilIdle(lane, p) ELSE lane
                 seen == takeDeferredEnter(parked, p)
             IN  IF ~settled THEN [seen EXCEPT !.recheck[p] = TRUE]
                 ELSE IF p = owner THEN deliver(seen, p, FALSE, TRUE, known)
                 ELSE [seen EXCEPT !.recheck[p] = FALSE]
  /\ UNCHANGED <<arrived, reader, check, proc, inc, cold, repoint, history>>
  /\ Upset(0)

TitleBusy(p, busy) ==
  /\ proc[p] = "live"
  /\ status' = [status EXCEPT ![p] = busy]
  /\ IF HasFlight(lane, p)
     THEN /\ lane' = IF p \in cold THEN deferFlightUntilIdle(lane, p) ELSE lane
          /\ UNCHANGED cold
     ELSE /\ lane' = releasePendingMailboxPointerForPty(retirePty(lane, p), p)
          /\ cold' = cold \ {p}
  /\ UNCHANGED <<arrived, reader, check, proc, inc, repoint, upsets, history>>

TitleNeutral(p) ==
  /\ proc[p] = "live" /\ check[p].stage = "none"
  /\ status' = [status EXCEPT ![p] = "none"]
  /\ UNCHANGED <<arrived, reader, check, proc, inc, cold, repoint, lane, upsets, history>>

markPtyColdParked(p) ==
  /\ p \notin cold
  /\ cold' = cold \cup {p}
  /\ UNCHANGED <<arrived, reader, check, proc, inc, status, repoint, lane, history>>
  /\ Upset(1)

clearPtyColdParked(p) ==
  /\ p \in cold
  /\ cold' = cold \ {p}
  /\ UNCHANGED <<arrived, reader, check, proc, inc, status, repoint, lane, upsets, history>>

ProcessDies(p) ==
  /\ proc[p] = "live"
  /\ proc' = [proc EXCEPT ![p] = "dying"]
  /\ UNCHANGED <<arrived, reader, check, inc, status, cold, repoint, lane, history>>
  /\ Upset(1)

PtyExit(p) ==
  /\ proc[p] = "dying"
  /\ proc' = [proc EXCEPT ![p] = "gone"]
  /\ status' = [status EXCEPT ![p] = "other"]
  /\ lane' = retirePty(lane, p)
  /\ cold' = cold \ {p}
  /\ repoint' = (repoint \/ p = owner)
  /\ UNCHANGED <<arrived, reader, check, inc, upsets, history>>

Respawn(p) ==
  /\ proc[p] = "gone"
  /\ proc' = [proc EXCEPT ![p] = "live"]
  /\ inc' = [inc EXCEPT ![p] = @ + 1]
  /\ UNCHANGED <<arrived, reader, check, status, cold, repoint, lane, upsets, history>>
-----------------------------------------------------------------------------
(* The reader: a check acknowledges, reads a batch, or waits for one.  Each stage follows
   an await, so the Run may have a new coordinator by then. *)

(* Fault: a check does not look at the generation again. *)
NeverFenced(p) == FALSE

Fenced(p) == check[p].generation # generation
Ends(p) == check' = [check EXCEPT ![p] = NoCheck]
Proceeds(p, stage) == check' = [check EXCEPT ![p] = AtStage(p, stage)]

CheckBegins(p, ack) ==
  /\ p = owner /\ proc[p] = "live" /\ status[p] \in {"idle", "working"}
  /\ check[p].stage = "none"
  /\ ack = 0 \/ (ack \in DOMAIN deliveries /\ deliveries[ack].reader = p)
  /\ check' = [check EXCEPT ![p] =
                 [stage |-> "routing", generation |-> generation, ack |-> ack]]
  /\ UNCHANGED <<arrived, reader, terminals, repoint, lane, upsets, history>>

acknowledgeMailboxDelivery(p) ==
  LET d == check[p].ack
      valid == ~Fenced(p) /\ (d = 0 \/ (deliveries[d].generation = generation
                                         /\ standing[d] # "fenced"))
      pending == valid /\ d # 0 /\ standing[d] = "outstanding"
  IN
  /\ check[p].stage = "routing"
  /\ IF valid THEN Proceeds(p, "reading") ELSE Ends(p)
  /\ IF pending
     THEN /\ read' = read \cup deliveries[d].batch
          /\ lane' = forgetReservations(lane, deliveries[d].batch)
          /\ standing' = [standing EXCEPT ![d] = "acknowledged"]
     ELSE UNCHANGED <<read, lane, standing>>
  /\ UNCHANGED <<arrived, deliveries, owner, generation, terminals, repoint, upsets, history>>

getOrCreateMailboxDelivery(p) ==
  LET fresh == [batch |-> Unread, generation |-> check[p].generation, reader |-> p]
  IN
  /\ check[p].stage \in {"reading", "woken"}
  /\ IF ~Fenced(p) /\ Outstanding = {} /\ Unread # {}
     THEN /\ deliveries' = Append(deliveries, fresh)
          /\ standing' = Append(standing, "outstanding")
     ELSE UNCHANGED <<deliveries, standing>>
  /\ \/ Ends(p)
     \/ /\ ~Fenced(p) /\ Unread = {} /\ check[p].stage = "reading" /\ Waiters = {}
        /\ Proceeds(p, "waiting")
  /\ UNCHANGED <<arrived, read, owner, generation, terminals, repoint, lane, upsets, history>>

(* The wait times out, or its connection is lost. *)
WaitEnds(p) ==
  /\ check[p].stage = "waiting"
  /\ Ends(p)
  /\ UNCHANGED <<arrived, reader, terminals, repoint, lane, upsets, history>>

(* The agent of a terminal makes itself coordinator: the readers before it are fenced. *)
bindRun(p) ==
  /\ generation < MaxGeneration
  /\ p # owner /\ proc[p] = "live" /\ status[p] # "idle"
  /\ owner' = p /\ generation' = generation + 1
  /\ standing' = [d \in DOMAIN standing |->
       IF standing[d] = "outstanding" THEN "fenced" ELSE standing[d]]
  /\ check' = [q \in Ptys |-> IF q \in Waiters THEN NoCheck ELSE check[q]]
  /\ UNCHANGED <<arrived, read, deliveries, terminals, repoint, lane, upsets, history>>

(* The app restarts: its memory is gone, rows and processes are not.  It may have died as it
   reserved a batch, before the reservation was stepped on to the write. *)
Restart(torn) ==
  LET reserving == UNION {Held(lane, lane.flight[p].batch, Process(p), {WriteAttempted})
                          : p \in torn}
      row == [m \in Mail |-> IF m \in reserving THEN [lane.row[m] EXCEPT !.phase = Reserved]
                             ELSE lane.row[m]]
  IN
  /\ lane' = [row |-> row, flight |-> [p \in Ptys |-> NoFlight],
              mark |-> {}, parkedOn |-> [p \in Ptys |-> FALSE], parked |-> FALSE,
              queued |-> 0, recheck |-> [p \in Ptys |-> FALSE],
              asked |-> [p \in Ptys |-> 0], strays |-> {}]
  /\ check' = [p \in Ptys |-> NoCheck]
  /\ proc' = [p \in Ptys |-> IF proc[p] = "dying" THEN "gone" ELSE proc[p]]
  /\ status' = [p \in Ptys |-> "other"]
  /\ cold' = {}
  /\ repoint' = \E m \in Unread : row[m].phase > 0 \/ ~row[m].delivered
  /\ UNCHANGED <<arrived, reader, inc, history>>
  /\ Upset(1)

Typing == {p \in Ptys : lane.flight[p].stage = "writing"}

(* With no upset left, missing evidence can only be what is missing already. *)
Evidence ==
  IF upsets < MaxUpsets \/ (\E p \in Ptys : lane.recheck[p] \/ lane.asked[p] > 0)
  THEN BOOLEAN ELSE {TRUE}

(* As a flight ends only a delivery parked on it looks at the pane. *)
Consulted(p) == IF lane.parkedOn[p] THEN Evidence ELSE {TRUE}

MayBeEnterless(p) == IF p \in Cursors THEN BOOLEAN ELSE {FALSE}

(* What runs before the event loop turns: queued deliveries and a check that was woken. *)
Microtask ==
  \/ \E settled, known \in Evidence : QueuedDelivery(settled, known)
  \/ \E p \in Ptys : check[p].stage = "woken" /\ getOrCreateMailboxDelivery(p)

Drained == lane.queued = 0 /\ \A p \in Ptys : check[p].stage # "woken"

Turn ==
  \/ notifyMessageArrived
  \/ \E settled, known \in Evidence :
       \/ repointPendingMessages(settled, known)
       \/ \E p \in Ptys : DeliveryRecheck(p, settled, known) \/ TitleIdle(p, settled, known)
  \/ \E p \in Ptys : HasFlight(lane, p) /\ \E settled, known \in Consulted(p) :
       \/ \E outcome \in Outcomes :
            \/ \E enterless \in MayBeEnterless(p) :
                 finishPointerWrite(p, outcome, enterless, settled, known)
            \/ finishEnterWrite(p, outcome, settled, known)
       \/ \E absent \in BOOLEAN : submitPointer(p, absent, settled, known)
  \/ \E p \in Ptys, settled \in Evidence, absent \in BOOLEAN :
       AbsenceAnswered(p, absent, settled)
  \/ \E stray \in lane.strays, absent \in BOOLEAN : StrayAnswered(stray, absent)
  \/ \E p \in Ptys :
       \/ EnterTimer(p)
       \/ TitleNeutral(p) \/ markPtyColdParked(p) \/ clearPtyColdParked(p)
       \/ \E busy \in {"working", "other"} : TitleBusy(p, busy)
       \/ ProcessDies(p) \/ PtyExit(p) \/ Respawn(p)
       \/ \E ack \in {0, Len(deliveries)} : CheckBegins(p, ack)
       \/ acknowledgeMailboxDelivery(p)
       \/ check[p].stage = "reading" /\ getOrCreateMailboxDelivery(p)
       \/ WaitEnds(p) \/ bindRun(p)
  \/ \E torn \in SUBSET Typing : Restart(torn)

Next == Microtask \/ (Drained /\ Turn)

Spec == Init /\ [][Next]_vars
-----------------------------------------------------------------------------
(* Properties. *)

(* Every variable has its type; a row names a process while its pointer is reserved, and
   only then. *)
TypeOK ==
  /\ arrived \in 0..MaxMail /\ read \subseteq 1..arrived
  /\ owner \in Ptys /\ generation \in 1..MaxGeneration
  /\ DOMAIN standing = DOMAIN deliveries
  /\ \A d \in DOMAIN standing : standing[d] \in {"outstanding", "acknowledged", "fenced"}
  /\ \A p \in Ptys :
       /\ check[p].stage \in {"none", "routing", "reading", "waiting", "woken"}
       /\ proc[p] \in {"live", "dying", "gone"}
       /\ status[p] \in {"other", "none", "idle", "working"}
       /\ lane.flight[p].stage \in {"none", "writing", "writing_deferred", "writing_ready",
                                    "timer", "held", "probing", "entering"}
       /\ lane.flight[p].batch \subseteq 1..arrived
       /\ HasFlight(lane, p) <=> lane.flight[p].batch # {}
  /\ \A m \in Mail :
       /\ lane.row[m].phase \in 0..EnterAttempted
       /\ lane.row[m].phase > 0 <=> lane.row[m].target \in Processes
  /\ Cardinality(lane.mark) <= 1 /\ lane.queued \in Nat

(* An active watermark makes every other delivery of the mailbox step aside, so it must not
   outlive the flight that set it: one left active would silence the mailbox for good
   ("it must never outlive the DB reservation", mailbox-pointer-stage.ts:78). *)
ActiveMarkHasFlight ==
  \A w \in lane.mark : w.active =>
    HasFlight(lane, w.pty) /\ Max(lane.flight[w.pty].batch) = w.sequence

(* An Enter held back until the agent is at rest is not held while its titles show it at
   rest: the title may come while the text is still being typed, or twice, or before the
   probe of the submission is answered. *)
HeldEnterAwaitsRest ==
  \A p \in Ptys : lane.flight[p].stage = "held" => status[p] # "idle"

(* The Delivery that holds the mailbox's unread mail belongs to the present reader: a check
   that was routing, reading or waiting when the Run changed hands neither leaves a second
   one nor opens one under its own, fenced, generation. *)
UnreadDeliveryIsCurrent ==
  /\ Cardinality(Outstanding) <= 1
  /\ \A d \in Outstanding : deliveries[d].generation = generation

(* Every step of the mailbox is a step of MailConsumer: whatever a check read before an await,
   it is given mail, and takes mail as read, as if it asked at once. *)
Consumer == INSTANCE MailConsumer WITH
  Readers <- Ptys, sent <- arrived, done <- read, reader <- owner,
  batches <- {[mail |-> deliveries[d].batch, reader |-> deliveries[d].reader] : d \in Outstanding}

ImplementsConsumer == Consumer!Spec

(* A coordinator shown at rest is not left with mail that it was not told of: some delivery,
   recheck, probe or flight that will look at the mailbox is under way, or its own check.
   The ways out are the code's own.  Mail a terminal refused, mail whose probe was answered
   for a process replaced meanwhile, and mail left behind by another terminal's flight wait
   for the agent's next title of rest.  Mail under the inactive watermark of the
   coordinator's own terminal may be in its composer already (releaseSupersededWatermark);
   another terminal's delivery can have released the rows. *)
InDoubt == \E w \in lane.mark : w.pty = owner /\ ~w.active /\ w.sequence >= Max(Unread)

ToldOf(m) == lane.row[m].delivered \/ lane.row[m].target = Process(owner) \/ m \in declined

Untold == Unread # {} /\ ~InDoubt /\ \A m \in Unread : ~ToldOf(m)

NobodyForgotten ==
  status[owner] = "idle" /\ proc[owner] = "live" /\ Untold /\ Outstanding = {} =>
    \/ \E p \in Ptys : HasFlight(lane, p) \/ (check[p].stage # "none" /\ ~Fenced(p))
    \/ lane.queued > 0 \/ repoint \/ lane.recheck[owner] \/ lane.asked[owner] > 0

(* An Enter may have landed though nobody confirmed it: for one process, as long as it
   coordinates the Run, no message is announced by a second Enter, whatever was lost,
   restarted or tried again in between ("neither settling it as delivered nor rolling it
   back to a state that would send a second Enter is provable here",
   mailbox-pointer-submit.ts:129).  The exception is mail that an answer for an earlier
   coordinator's terminal put back, which that comment does not foresee. *)
Pressed(p) == lane.flight[p].stage = "probing" /\ lane'.flight[p].stage = "entering"

EnteredOncePerBinding ==
  [][\A p \in Ptys : Pressed(p) =>
       \A m \in lane.flight[p].batch \ returned :
         [mail |-> m, process |-> Process(p), generation |-> generation] \notin entered]_vars
=============
