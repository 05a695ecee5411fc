------------------------- MODULE MailboxWatchProofs -------------------------
(***************************************************************************)
(* A coordinator at rest is not forgotten, for any number of terminals,    *)
(* messages, generations and upsets.  The invariant says who will look at  *)
(* the mailbox next; a delivery to the coordinator always leaves somebody  *)
(* who will, and whatever else the lane does takes one witness away only   *)
(* as it puts another in its place.                                        *)
(***************************************************************************)
EXTENDS MailboxPointerProofs

-----------------------------------------------------------------------------
(* Who will look at the mailbox next.  "told" is what the lane was turned away with. *)

Informed(s, told) ==
  \E m \in Unread : s.row[m].delivered \/ s.row[m].target = Process(owner) \/ m \in told

Doubted(s) == \E w \in s.mark : w.pty = owner /\ ~w.active /\ w.sequence >= Max(Unread)

(* The flight of another terminal, when it lands, hands on what is parked behind it; with
   nothing parked it says itself what became of its mail. *)
HandsOn(s) ==
  \E w \in s.mark : /\ w.active /\ w.pty # owner
                    /\ s.parked \/ s.flight[w.pty].batch \subseteq Unread

Attended(s, told) ==
  \/ s.queued > 0 \/ s.recheck[owner] \/ s.asked[owner] > 0 \/ s.parkedOn[owner]
  \/ HandsOn(s) \/ Doubted(s) \/ Informed(s, told)

(* What that rests on: a watermark goes inactive as its flight ends, *)
Landed(s, P) == \A w \in s.mark : ~w.active /\ w.pty \in P => ~HasFlight(s, w.pty)

(* no unread row is pointed at a terminal but the watermark's, *)
PointedByMark(s) ==
  \A w \in s.mark, m \in Unread : s.row[m].phase > 0 => s.row[m].target[1] = w.pty

(* the rows an Enter is pressed for are accounted for, *)
Submitted(s, told) ==
  \A w \in s.mark : w.active /\ s.flight[w.pty].stage = "entering" =>
    \A m \in s.flight[w.pty].batch \cap Unread :
      \/ s.row[m].delivered \/ m \in told
      \/ s.row[m].target = <<w.pty, s.flight[w.pty].inc>> /\ s.row[m].phase = EnterAttempted

(* and nothing is parked on a flight that is not there. *)
ParkedFlies(s) == \A p \in Ptys : s.parkedOn[p] => HasFlight(s, p)

Tidy(s, told, P) ==
  Landed(s, P) /\ PointedByMark(s) /\ Submitted(s, told) /\ ParkedFlies(s)

(* The coordinator's terminal runs, there is mail, and nobody is reading it. *)
Resting == Outstanding = {} /\ Unread # {} /\ Waiters = {} /\ proc[owner] = "live"

Tends(s, t, told) == Resting /\ Attended(s, told) => Attended(t, told)

IncPositive == \A p \in Ptys : inc[p] > 0

LEMMA AttendedMore ==
  ASSUME NEW s, NEW told, NEW more, told \subseteq more
  PROVE  /\ Attended(s, told) => Attended(s, more)
         /\ \A P : Tidy(s, told, P) => Tidy(s, more, P)
BY DEF Attended, Informed, Tidy, Submitted

LEMMA TendsTwice ==
  ASSUME NEW s, NEW t, NEW u, NEW told, Tends(s, t, told), Tends(t, u, told)
  PROVE  Tends(s, u, told)
BY DEF Tends

LEMMA SameTidy ==
  ASSUME NEW s, NEW t, NEW told, NEW P, Tidy(s, told, P),
         t.row = s.row, t.flight = s.flight, t.mark \subseteq s.mark, t.parkedOn = s.parkedOn
  PROVE  Tidy(t, told, P)
BY DEF Tidy, Landed, PointedByMark, Submitted, ParkedFlies, HasFlight

(* The flags may be raised, and those of other terminals changed. *)
LEMMA SameWatch ==
  ASSUME NEW s, NEW t, NEW told, NEW P, Tidy(s, told, P),
         t.row = s.row, t.flight = s.flight, t.mark = s.mark, t.parkedOn = s.parkedOn,
         s.parked => t.parked \/ t.queued > 0, s.queued > 0 => t.queued > 0,
         s.recheck[owner] => t.recheck[owner], s.asked[owner] > 0 => t.asked[owner] > 0
  PROVE  Tidy(t, told, P) /\ Tends(s, t, told)
<1>1. Tidy(t, told, P)
  BY SameTidy
<1>2. Tends(s, t, told)
  BY DEF Tends, Attended, HandsOn, Doubted, Informed
<1> QED
  BY <1>1, <1>2

LEMMA RedriveQueues ==
  ASSUME NEW s \in Lane, NEW force \in BOOLEAN, force \/ s.parked \/ s.queued > 0
  PROVE  redrive(s, force).queued > 0
<1>1. s.queued \in Nat
  BY DEF Lane
<1>2. /\ force \/ s.parked => redrive(s, force).queued = s.queued + 1
      /\ ~(force \/ s.parked) => redrive(s, force) = s
  BY RedriveFields
<1> QED
  BY <1>1, <1>2

LEMMA RedriveWatch ==
  ASSUME NEW s \in Lane, NEW told, NEW P, Tidy(s, told, P), NEW force \in BOOLEAN
  PROVE  LET t == redrive(s, force)
         IN  /\ Tidy(t, told, P) /\ Tends(s, t, told)
             /\ force \/ s.parked \/ s.queued > 0 => Attended(t, told)
<1> DEFINE t == redrive(s, force)
<1>1. /\ t.row = s.row /\ t.flight = s.flight /\ t.mark = s.mark
      /\ t.parkedOn = s.parkedOn /\ t.recheck = s.recheck /\ t.asked = s.asked
  BY RedriveFields
<1>0. ~(force \/ s.parked) => t = s
  BY RedriveFields
<1>2. force \/ s.parked \/ s.queued > 0 => t.queued > 0
  BY RedriveQueues
<1> HIDE DEF t
<1>3. Tidy(t, told, P) /\ Tends(s, t, told)
  BY <1>0, <1>1, <1>2, SameWatch
<1>4. force \/ s.parked \/ s.queued > 0 => Attended(t, told)
  BY <1>2 DEF Attended
<1> QED
  BY <1>3, <1>4 DEF t

LEMMA RedriveTrueWatch ==
  ASSUME NEW s \in Lane, NEW told, NEW P, Tidy(s, told, P)
  PROVE  Tidy(redrive(s, TRUE), told, P) /\ Attended(redrive(s, TRUE), told)
<1>1. TRUE \in BOOLEAN
  OBVIOUS
<1> QED
  BY <1>1, RedriveWatch

LEMMA ToStageWatch ==
  ASSUME NEW s \in Lane, NEW told, NEW P, Tidy(s, told, P), NEW p \in Ptys,
         NEW stage \in FlightStages, stage = "none" <=> ~HasFlight(s, p),
         stage = "entering" => s.flight[p].stage = "entering"
  PROVE  LET t == ToStage(s, p, stage)
         IN  Tidy(t, told, P) /\ Tends(s, t, told)
<1> DEFINE t == ToStage(s, p, stage)
<1>1. /\ t.row = s.row /\ t.mark = s.mark /\ t.parkedOn = s.parkedOn
      /\ t.parked = s.parked /\ t.queued = s.queued /\ t.recheck = s.recheck
      /\ t.asked = s.asked
      /\ \A q \in Ptys : q # p => t.flight[q] = s.flight[q]
      /\ t.flight[p].stage = stage /\ t.flight[p].batch = s.flight[p].batch
      /\ t.flight[p].inc = s.flight[p].inc
  BY ToStageFields
<1> HIDE DEF t
<1>2. \A q \in Ptys : /\ HasFlight(t, q) <=> HasFlight(s, q)
                      /\ t.flight[q].batch = s.flight[q].batch
                      /\ t.flight[q].inc = s.flight[q].inc
                      /\ t.flight[q].stage = "entering" => s.flight[q].stage = "entering"
  BY <1>1 DEF HasFlight
<1>3. \A w \in s.mark : w.pty \in Ptys
  BY DEF Lane, Mark
<1>4. Tidy(t, told, P)
  <2>1. Landed(t, P) /\ PointedByMark(t) /\ ParkedFlies(t)
    BY <1>1, <1>2, <1>3 DEF Tidy, Landed, PointedByMark, ParkedFlies
  <2>2. Submitted(t, told)
    BY <1>1, <1>2, <1>3 DEF Tidy, Submitted
  <2> QED
    BY <2>1, <2>2 DEF Tidy
<1>5. Tends(s, t, told)
  <2>1. HandsOn(s) => HandsOn(t)
    BY <1>1, <1>2, <1>3 DEF HandsOn
  <2> QED
    BY <1>1, <2>1 DEF Tends, Attended, Doubted, Informed
<1> QED
  BY <1>4, <1>5 DEF t

LEMMA TakeWatch ==
  ASSUME NEW s \in Lane, NEW told, NEW P, Tidy(s, told, P), NEW p \in Ptys
  PROVE  /\ Tidy(takeDeferredEnter(s, p), told, P) /\ Tends(s, takeDeferredEnter(s, p), told)
         /\ Tidy(deferFlightUntilIdle(s, p), told, P)
         /\ Tends(s, deferFlightUntilIdle(s, p), told)
<1>1. Tidy(takeDeferredEnter(s, p), told, P) /\ Tends(s, takeDeferredEnter(s, p), told)
  <2>1. PICK stage \in FlightStages :
          /\ takeDeferredEnter(s, p) = ToStage(s, p, stage)
          /\ stage = "none" <=> ~HasFlight(s, p)
          /\ stage = "entering" => s.flight[p].stage = "entering"
    BY TakeFields
  <2> QED
    BY <2>1, ToStageWatch
<1>2. Tidy(deferFlightUntilIdle(s, p), told, P) /\ Tends(s, deferFlightUntilIdle(s, p), told)
  <2>1. PICK stage \in FlightStages :
          /\ deferFlightUntilIdle(s, p) = ToStage(s, p, stage)
          /\ stage = "none" <=> ~HasFlight(s, p)
          /\ stage = "entering" => s.flight[p].stage = "entering"
    BY DeferFields
  <2> QED
    BY <2>1, ToStageWatch
<1> QED
  BY <1>1, <1>2

(* Rows settled, or released that no Enter was pressed for and nobody was told by. *)
LEMMA SetRowsWatch ==
  ASSUME World, NEW s \in Lane, NEW told, NEW P, Tidy(s, told, P),
         NEW rows, NEW delivered \in BOOLEAN
  PROVE  LET t == SetRows(s, rows, delivered)
         IN  /\ (\/ delivered \/ ~hasActiveWatermark(s)
                 \/ \A m \in Unread \cap rows :
                      m \in told \/ (~s.row[m].delivered /\ s.row[m].phase # EnterAttempted))
                => Tidy(t, told, P)
             /\ (\/ delivered
                 \/ \A m \in Unread \cap rows :
                      m \in told \/ (~s.row[m].delivered /\ s.row[m].target # Process(owner)))
                => Tends(s, t, told) /\ (Informed(s, told) => Informed(t, told))
             /\ delivered /\ Unread \cap rows # {} => Informed(t, told) /\ Attended(t, told)
<1> DEFINE t == SetRows(s, rows, delivered)
<1>1. /\ t.flight = s.flight /\ t.mark = s.mark /\ t.parkedOn = s.parkedOn
      /\ t.parked = s.parked /\ t.queued = s.queued /\ t.recheck = s.recheck
      /\ t.asked = s.asked
      /\ \A m \in Mail : m \notin rows => t.row[m] = s.row[m]
      /\ \A m \in Mail \cap rows : t.row[m].phase = 0 /\ t.row[m].delivered = delivered
  BY SetRowsFields
<1> HIDE DEF t
<1>2. Unread \subseteq Mail
  BY UnreadIsMail
<1>3. Landed(t, P) /\ PointedByMark(t) /\ ParkedFlies(t)
  BY <1>1, <1>2 DEF Tidy, Landed, PointedByMark, ParkedFlies, HasFlight
<1>4. ASSUME \/ delivered \/ ~hasActiveWatermark(s)
             \/ \A m \in Unread \cap rows :
                  m \in told \/ (~s.row[m].delivered /\ s.row[m].phase # EnterAttempted)
      PROVE  Submitted(t, told)
  <2> SUFFICES ASSUME NEW w \in s.mark, w.active, s.flight[w.pty].stage = "entering",
                      NEW m \in s.flight[w.pty].batch \cap Unread, m \notin told,
                      ~t.row[m].delivered
               PROVE  /\ t.row[m].target = <<w.pty, s.flight[w.pty].inc>>
                      /\ t.row[m].phase = EnterAttempted
    BY <1>1 DEF Submitted
  <2>1. \/ s.row[m].delivered
        \/ /\ s.row[m].target = <<w.pty, s.flight[w.pty].inc>>
           /\ s.row[m].phase = EnterAttempted
    BY DEF Tidy, Submitted
  <2>2. m \notin rows
    BY <1>1, <1>2, <1>4, <2>1 DEF hasActiveWatermark
  <2> QED
    BY <1>1, <1>2, <2>1, <2>2
<1>5. ASSUME \/ delivered
             \/ \A m \in Unread \cap rows :
                  m \in told \/ (~s.row[m].delivered /\ s.row[m].target # Process(owner))
      PROVE  Informed(s, told) => Informed(t, told)
  <2> SUFFICES ASSUME NEW m \in Unread,
                      s.row[m].delivered \/ s.row[m].target = Process(owner) \/ m \in told
               PROVE  Informed(t, told)
    BY DEF Informed
  <2>1. CASE m \in rows /\ delivered
    BY <1>1, <1>2, <2>1 DEF Informed
  <2>2. CASE m \notin rows
    BY <1>1, <1>2, <2>2 DEF Informed
  <2>3. CASE m \in rows /\ ~delivered
    BY <1>5, <2>3 DEF Informed
  <2> QED
    BY <2>1, <2>2, <2>3
<1>6. (Informed(s, told) => Informed(t, told)) => Tends(s, t, told)
  BY <1>1 DEF Tends, Attended, HandsOn, Doubted
<1>7. delivered /\ Unread \cap rows # {} => Informed(t, told) /\ Attended(t, told)
  BY <1>1, <1>2 DEF Attended, Informed
<1> QED
  BY <1>3, <1>4, <1>5, <1>6, <1>7 DEF Tidy, t

LEMMA SetRowsElse ==
  ASSUME NEW s \in Lane, NEW rows, NEW delivered \in BOOLEAN
  PROVE  /\ SetRows(s, rows, delivered) \in Lane
         /\ SetRows(s, rows, delivered).flight = s.flight
         /\ SetRows(s, rows, delivered).mark = s.mark
         /\ SetRows(s, rows, delivered).parkedOn = s.parkedOn
         /\ SetRows(s, rows, delivered).parked = s.parked
         /\ SetRows(s, rows, delivered).queued = s.queued
         /\ SetRows(s, rows, delivered).recheck = s.recheck
         /\ SetRows(s, rows, delivered).asked = s.asked
         /\ \A m \in Mail : m \notin rows => SetRows(s, rows, delivered).row[m] = s.row[m]
BY SetRowsFields

LEMMA SettledRowsWatch ==
  ASSUME World, NEW s \in Lane, NEW told, NEW P, Tidy(s, told, P), NEW rows
  PROVE  /\ Tidy(SetRows(s, rows, TRUE), told, P) /\ Tends(s, SetRows(s, rows, TRUE), told)
         /\ Informed(s, told) => Informed(SetRows(s, rows, TRUE), told)
         /\ Unread \cap rows # {} => /\ Informed(SetRows(s, rows, TRUE), told)
                                     /\ Attended(SetRows(s, rows, TRUE), told)
<1>1. TRUE \in BOOLEAN
  OBVIOUS
<1> QED
  BY <1>1, SetRowsWatch

(* A flight of another terminal that was to hand on the mail is about to end. *)
HandsOnAt(s, p) ==
  p # owner /\ \E w \in s.mark : w.active /\ w.pty = p
                                 /\ (s.parked \/ s.flight[p].batch \subseteq Unread)

LEMMA ClearWatch ==
  ASSUME NEW s \in Lane, NEW told, NEW P, Tidy(s, told, P), NEW p, NEW newest
  PROVE  LET t == clearWatermark(s, p, newest)
         IN  /\ Tidy(t, told, P)
             /\ (p = owner => Landed(s, {p}) /\ HasFlight(s, p)) /\ ~HandsOnAt(s, p)
                => Tends(s, t, told)
             /\ Informed(s, told) => Attended(t, told)
<1> DEFINE t == clearWatermark(s, p, newest)
<1>1. /\ t.row = s.row /\ t.flight = s.flight /\ t.parkedOn = s.parkedOn
      /\ t.parked = s.parked /\ t.queued = s.queued /\ t.recheck = s.recheck
      /\ t.asked = s.asked
      /\ t.mark = {w \in s.mark : ~(w.pty = p /\ w.sequence = newest)}
  BY ClearFields
<1> HIDE DEF t
<1>2. Tidy(t, told, P)
  BY <1>1 DEF Tidy, Landed, PointedByMark, Submitted, ParkedFlies, HasFlight
<1>3. ASSUME p = owner => Landed(s, {p}) /\ HasFlight(s, p), ~HandsOnAt(s, p)
      PROVE  Tends(s, t, told)
  <2>1. HandsOn(s) => HandsOn(t)
    BY <1>1, <1>3 DEF HandsOn, HandsOnAt
  <2>2. Doubted(s) => Doubted(t)
    BY <1>1, <1>3 DEF Doubted, Landed
  <2> QED
    BY <1>1, <2>1, <2>2 DEF Tends, Attended, Informed
<1>4. Informed(s, told) => Attended(t, told)
  BY <1>1 DEF Attended, Informed
<1> QED
  BY <1>2, <1>3, <1>4 DEF t

LEMMA DeactivateWatch ==
  ASSUME NEW s \in Lane, NEW told, Tidy(s, told, Ptys), NEW p, NEW newest
  PROVE  LET t == deactivateWatermark(s, p, newest)
         IN  /\ Tidy(t, told, Ptys \ {p})
             /\ ~HandsOnAt(s, p) => Tends(s, t, told)
<1> DEFINE off(w) == IF w \in MarkAt(s, p, newest) THEN [w EXCEPT !.active = FALSE] ELSE w
           t == deactivateWatermark(s, p, newest)
<1>1. /\ t.row = s.row /\ t.flight = s.flight /\ t.parkedOn = s.parkedOn
      /\ t.parked = s.parked /\ t.queued = s.queued /\ t.recheck = s.recheck
      /\ t.asked = s.asked
  BY DeactivateFields
<1>2. t.mark = {off(w) : w \in s.mark}
  BY DEF deactivateWatermark, Lane
<1>3. \A w \in s.mark : /\ off(w).pty = w.pty /\ off(w).sequence = w.sequence
                        /\ off(w).active => w.active
                        /\ ~w.active => ~off(w).active
                        /\ w.pty # p => off(w) = w
  BY DEF MarkAt, Lane, Mark
<1> HIDE DEF t, off
<1>4. Landed(t, Ptys \ {p}) /\ PointedByMark(t) /\ Submitted(t, told) /\ ParkedFlies(t)
  <2>1. Landed(t, Ptys \ {p})
    BY <1>1, <1>2, <1>3 DEF Tidy, Landed, HasFlight
  <2>2. PointedByMark(t)
    BY <1>1, <1>2, <1>3 DEF Tidy, PointedByMark
  <2>3. Submitted(t, told)
    BY <1>1, <1>2, <1>3 DEF Tidy, Submitted
  <2>4. ParkedFlies(t)
    BY <1>1 DEF Tidy, ParkedFlies, HasFlight
  <2> QED
    BY <2>1, <2>2, <2>3, <2>4
<1>5. ASSUME ~HandsOnAt(s, p) PROVE Tends(s, t, told)
  <2>1. HandsOn(s) => HandsOn(t)
    BY <1>1, <1>2, <1>3, <1>5 DEF HandsOn, HandsOnAt
  <2>2. Doubted(s) => Doubted(t)
    BY <1>2, <1>3 DEF Doubted
  <2> QED
    BY <1>1, <2>1, <2>2 DEF Tends, Attended, Informed
<1> QED
  BY <1>4, <1>5 DEF Tidy, t

(* A flight ends whose watermark was cleared or is inactive. *)
LEMMA EndedWatch ==
  ASSUME NEW s \in Lane, NEW told, NEW p \in Ptys, Tidy(s, told, Ptys \ {p}), Silent(s, p)
  PROVE  LET t == Ended(s, p)
         IN  /\ Tidy(t, told, Ptys)
             /\ ~s.parkedOn[p] \/ p # owner => Tends(s, t, told)
<1> DEFINE t == Ended(s, p)
<1>1. /\ t.row = s.row /\ t.mark = s.mark
      /\ t.parked = s.parked /\ t.queued = s.queued /\ t.recheck = s.recheck
      /\ t.asked = s.asked
      /\ t.flight = [s.flight EXCEPT ![p] = NoFlight]
      /\ t.parkedOn = [s.parkedOn EXCEPT ![p] = FALSE]
  BY EndedFields
<1> HIDE DEF t
<1>2. /\ \A q \in Ptys : q # p => t.flight[q] = s.flight[q] /\ t.parkedOn[q] = s.parkedOn[q]
      /\ ~HasFlight(t, p) /\ ~t.parkedOn[p]
  BY <1>1 DEF Lane, NoFlight, HasFlight
<1>3. \A w \in s.mark : w.pty \in Ptys /\ (w.active => w.pty # p)
  BY DEF Lane, Mark, Silent
<1>4. Tidy(t, told, Ptys)
  <2>1. Landed(t, Ptys)
    BY <1>1, <1>2, <1>3 DEF Tidy, Landed, HasFlight
  <2>2. PointedByMark(t) /\ Submitted(t, told)
    BY <1>1, <1>2, <1>3 DEF Tidy, PointedByMark, Submitted
  <2>3. ParkedFlies(t)
    BY <1>1, <1>2 DEF Tidy, ParkedFlies, HasFlight
  <2> QED
    BY <2>1, <2>2, <2>3 DEF Tidy
<1>5. ASSUME ~s.parkedOn[p] \/ p # owner PROVE Tends(s, t, told)
  <2>1. HandsOn(s) => HandsOn(t)
    BY <1>1, <1>2, <1>3 DEF HandsOn
  <2>2. s.parkedOn[owner] => t.parkedOn[owner]
    BY <1>1, <1>5 DEF Lane
  <2> QED
    BY <1>1, <2>1, <2>2 DEF Tends, Attended, Informed, Doubted
<1> QED
  BY <1>4, <1>5 DEF t

-----------------------------------------------------------------------------
(* A delivery. *)

(* A row nobody is pointed at is news, or was delivered. *)
LEMMA NewsOrDelivered ==
  ASSUME NEW s, LaneInv(s), NEW m \in Mail, s.row[m].phase = 0
  PROVE  s.row[m] = NoPointer \/ s.row[m].delivered
<1>1. s.row[m] \in Row /\ s.row[m].target = NoProcess
  BY Phases DEF LaneInv, RowsSound, Lane, Row
<1> QED
  BY <1>1 DEF Row, NoPointer

LEMMA StagedWatch ==
  ASSUME World, NEW s, LaneInv(s), NEW told, Tidy(s, told, Ptys), NEW p \in Ptys,
         \A m \in Unread : s.row[m].phase = 0, News(s) # {}
  PROVE  LET t == Staged(s, p)
         IN  Tidy(t, told, Ptys) /\ Attended(t, told)
<1> DEFINE t == Staged(s, p)
           batch == News(s)
<1>1. /\ t.parkedOn = s.parkedOn
      /\ t.flight = [s.flight EXCEPT ![p] = Begun(p, batch)]
      /\ t.mark = {Announced(p, batch)}
      /\ \A m \in Mail : m \notin batch => t.row[m] = s.row[m]
      /\ \A m \in batch : t.row[m].target = Process(p)
  BY StagedFields DEF LaneInv
<1>2. batch \subseteq Unread /\ batch # {} /\ Unread \subseteq Mail
  BY UnreadIsMail DEF News
<1> HIDE DEF t, batch
<1>3. /\ \A q \in Ptys : q # p => t.flight[q] = s.flight[q]
      /\ t.flight[p].stage = "writing" /\ t.flight[p].batch = batch
  BY <1>1 DEF LaneInv, Lane, Begun
<1>4. \A w \in t.mark : w.pty = p /\ w.active
  BY <1>1 DEF Announced
<1>5. Landed(t, Ptys) /\ Submitted(t, told)
  BY <1>3, <1>4 DEF Landed, Submitted
<1>6. PointedByMark(t)
  BY <1>1, <1>2, <1>4 DEF PointedByMark, Process
<1>7. ParkedFlies(t)
  BY <1>1, <1>3 DEF Tidy, ParkedFlies, HasFlight
<1>8. p = owner => Attended(t, told)
  BY <1>1, <1>2 DEF Attended, Informed
<1>9. p # owner => Attended(t, told)
  <2>1. \E w \in t.mark : w.active /\ w.pty = p /\ t.flight[w.pty].batch = batch
    BY <1>1, <1>3, <1>4
  <2> QED
    BY <1>2, <2>1 DEF Attended, HandsOn
<1> QED
  BY <1>5, <1>6, <1>7, <1>8, <1>9 DEF Tidy, t

(* Nothing to point, or the mail may be in the composer of p already. *)
LEMMA PointedAlready ==
  ASSUME World, NEW s, LaneInv(s), NEW told, NEW p \in Ptys,
         \A m \in Unread : s.row[m].phase = 0, Unread # {},
         News(s) = {} \/ (\E w \in s.mark : w.pty = owner /\ ~w.active
                                             /\ w.sequence >= Max(News(s)))
  PROVE  Attended(s, told)
<1>1. Unread \subseteq Mail
  BY UnreadIsMail
<1>2. CASE \E m \in Unread : m \notin News(s)
  <2>1. PICK m \in Unread : m \notin News(s)
    BY <1>2
  <2>2. s.row[m].delivered
    BY <1>1, <2>1, NewsOrDelivered DEF News
  <2> QED
    BY <2>2 DEF Attended, Informed
<1>3. CASE \A m \in Unread : m \in News(s)
  <2>1. News(s) = Unread
    BY <1>3 DEF News
  <2> QED
    BY <2>1 DEF Attended, Doubted
<1> QED
  BY <1>2, <1>3

LEMMA PointWatch ==
  ASSUME World, IncPositive, NEW s, LaneInv(s), NEW told, Tidy(s, told, Ptys), NEW p \in Ptys,
         \A m \in Unread : s.row[m].phase = 0, ~hasActiveWatermark(s),
         NEW skipProbe \in BOOLEAN, NEW known
  PROVE  LET t == Point(s, p, skipProbe, known)
         IN  /\ Tidy(t, told, Ptys)
             /\ Unread # {} /\ Writable(p) /\ (p = owner \/ skipProbe) =>
                  \/ Attended(t, told)
                  \/ t = s /\ p # owner /\ \E w \in s.mark : w.pty = p
<1> DEFINE t == Point(s, p, skipProbe, known)
<1>1. CASE t = s /\ (News(s) = {} \/ ~Writable(p) \/ Covered(s, p))
  <2>1. ASSUME Unread # {}, Writable(p), p = owner \/ ~Covered(s, p) PROVE Attended(s, told)
    <3>1. News(s) = {} \/ (\E w \in s.mark : w.pty = owner /\ ~w.active
                                              /\ w.sequence >= Max(News(s)))
      BY <1>1, <2>1 DEF Covered, hasActiveWatermark
    <3> QED
      BY <2>1, <3>1, PointedAlready
  <2>2. Covered(s, p) => \E w \in s.mark : w.pty = p
    BY DEF Covered, hasActiveWatermark
  <2> HIDE DEF t
  <2> QED
    BY <1>1, <2>1, <2>2 DEF t
<1>2. CASE t = Asking(s, p) /\ ~skipProbe
  <2>1. /\ Asking(s, p).row = s.row /\ Asking(s, p).flight = s.flight
        /\ Asking(s, p).mark \subseteq s.mark /\ Asking(s, p).parkedOn = s.parkedOn
        /\ Asking(s, p).asked = [s.asked EXCEPT ![p] = IF @ = 0 THEN inc[p] ELSE @]
    BY AskingFields DEF LaneInv
  <2>2. Asking(s, p).asked[p] > 0
    BY <2>1 DEF LaneInv, Lane, IncPositive
  <2>3. Tidy(Asking(s, p), told, Ptys)
    BY <2>1, SameTidy
  <2> HIDE DEF t
  <2>4. p = owner => Attended(t, told)
    BY <1>2, <2>2 DEF Attended
  <2> QED
    BY <1>2, <2>3, <2>4 DEF t
<1>3. CASE t = Staged(s, p) /\ News(s) # {}
  <2>1. Tidy(Staged(s, p), told, Ptys) /\ Attended(Staged(s, p), told)
    BY <1>3, StagedWatch
  <2> HIDE DEF t
  <2> QED
    BY <1>3, <2>1 DEF t
<1> QED
  BY <1>1, <1>2, <1>3, PointCases

LEMMA ResumeWatch ==
  ASSUME World, IncPositive, NEW s, LaneInv(s), NEW told, Tidy(s, told, Ptys), NEW p \in Ptys,
         ~hasActiveWatermark(s), NEW skipProbe \in BOOLEAN, NEW known
  PROVE  LET t == resumePending(s, p, skipProbe, known)
         IN  /\ Tidy(t, told, Ptys)
             /\ Resting /\ Writable(p) /\ (p = owner \/ (skipProbe /\ Attended(s, told)))
                => Attended(t, told)
<1> DEFINE t == resumePending(s, p, skipProbe, known)
           pending == PendingOf(s)
           ours == Writable(p) /\ \A m \in pending : s.row[m].target = Process(p)
           settles == ours /\ pending # {} /\ {s.row[m].phase : m \in pending} # {Reserved}
           settled == Held(s, pending, Process(p), {WriteAttempted, EnterAttempted})
           freed == SetRows(s, pending, FALSE)
<1>1. t = IF settles THEN SetRows(s, settled, TRUE) ELSE Point(freed, p, skipProbe, known)
  BY DEF resumePending, settleMailboxPointerEnter, PendingOf
<1>2. s \in Lane /\ Unread \subseteq Mail
  BY UnreadIsMail DEF LaneInv
<1>3. CASE settles
  <2>1. PICK m \in pending : s.row[m].phase # Reserved
    <3>1. \E m \in pending : s.row[m].phase # Reserved
      <4> SUFFICES ASSUME \A m \in pending : s.row[m].phase = Reserved PROVE FALSE
        OBVIOUS
      <4>1. {s.row[m].phase : m \in pending} = {Reserved}
        BY <1>3
      <4> QED
        BY <1>3, <4>1
    <3> QED
      BY <3>1
  <2>2. s.row[m].phase \in 0..3 /\ s.row[m].phase > 0 /\ m \in Unread
    BY <1>2, Phases DEF Lane, Row, PendingOf
  <2>3. m \in Unread \cap settled
    BY <1>3, <2>1, <2>2, Phases DEF Held
  <2> HIDE DEF settled
  <2>4. /\ Tidy(SetRows(s, settled, TRUE), told, Ptys)
        /\ Attended(SetRows(s, settled, TRUE), told)
    BY <1>2, <2>3, SetRowsWatch
  <2> QED
    BY <1>1, <1>3, <2>4
<1>4. CASE ~settles
  <2>1. LaneInv(freed) /\ freed.mark = s.mark
    BY SetRowsKeeps, SetRowsSame
  <2>2. \A m \in Unread : freed.row[m].phase = 0
    <3> SUFFICES ASSUME NEW m \in Unread PROVE freed.row[m].phase = 0
      OBVIOUS
    <3>1. m \in Mail /\ s.row[m].phase \in 0..3
      BY <1>2, Phases DEF Lane, Row
    <3>2. m \notin pending => s.row[m].phase = 0
      BY <3>1 DEF PendingOf
    <3> HIDE DEF pending
    <3>3. /\ m \notin pending => freed.row[m] = s.row[m]
          /\ m \in pending => freed.row[m].phase = 0
      BY <1>2, <3>1, SetRowsPhases
    <3> QED
      BY <3>2, <3>3
  <2>3. Tidy(freed, told, Ptys)
    BY <1>2, SetRowsWatch
  <2>4. ASSUME p # owner, \E w \in s.mark : w.pty = p
        PROVE  Tends(s, freed, told)
    <3>1. \A m \in Unread \cap pending : ~s.row[m].delivered /\ s.row[m].target # Process(owner)
      BY <1>2, <2>4 DEF PendingOf, Tidy, PointedByMark, LaneInv, RowsSound, Process
    <3> HIDE DEF pending
    <3> QED
      BY <1>2, <3>1, SetRowsWatch
  <2>5. ~hasActiveWatermark(freed)
    BY <2>1 DEF hasActiveWatermark
  <2> HIDE DEF freed
  <2>6. LET u == Point(freed, p, skipProbe, known)
        IN  /\ Tidy(u, told, Ptys)
            /\ Unread # {} /\ Writable(p) /\ (p = owner \/ skipProbe) =>
                 \/ Attended(u, told)
                 \/ u = freed /\ p # owner /\ \E w \in freed.mark : w.pty = p
    BY <2>1, <2>2, <2>3, <2>5, PointWatch
  <2> HIDE DEF t, settles
  <2>7. t = Point(freed, p, skipProbe, known)
    BY <1>1, <1>4
  <2>8. Resting /\ Writable(p) /\ (p = owner \/ (skipProbe /\ Attended(s, told)))
          => Attended(t, told)
    BY <2>1, <2>4, <2>6, <2>7 DEF Tends, Resting
  <2> QED
    BY <2>6, <2>7, <2>8 DEF t
<1> QED
  BY <1>3, <1>4

LEMMA DeliverWatch ==
  ASSUME World, IncPositive, NEW s, LaneInv(s), NEW told, Tidy(s, told, Ptys), NEW p \in Ptys,
         NEW skipProbe \in BOOLEAN, NEW settled, NEW known
  PROVE  LET t == deliver(s, p, skipProbe, settled, known)
         IN  /\ Tidy(t, told, Ptys)
             /\ Resting /\ Writable(p) /\ (p = owner \/ (skipProbe /\ Attended(s, told)))
                => Attended(t, told)
<1> DEFINE t == deliver(s, p, skipProbe, settled, known)
           parked == [s EXCEPT !.parked = TRUE]
           refused == [parked EXCEPT !.recheck[p] = TRUE]
           calm == [s EXCEPT !.recheck[p] = FALSE]
           taken == takeDeferredEnter(calm, p)
           onFlight == [taken EXCEPT !.parkedOn[p] = TRUE]
           aside == [calm EXCEPT !.parked = TRUE]
           resumed == resumePending(calm, p, skipProbe, known)
           Good(u) == /\ Tidy(u, told, Ptys)
                      /\ Resting /\ Writable(p) /\ (p = owner \/ (skipProbe /\ Attended(s, told)))
                         => Attended(u, told)
<1>0. s \in Lane /\ owner \in Ptys
  BY DEF LaneInv, World
<1>1. Outstanding # {} => Good(s)
  BY DEF Resting
<1>2. Good(refused)
  <2>1. /\ refused.row = s.row /\ refused.flight = s.flight /\ refused.mark = s.mark
        /\ refused.parkedOn = s.parkedOn /\ refused.parked /\ refused.queued = s.queued
        /\ refused.asked = s.asked /\ refused.recheck = [s.recheck EXCEPT ![p] = TRUE]
    BY <1>0 DEF Lane
  <2> HIDE DEF refused
  <2>2. refused.recheck[p] /\ (s.recheck[owner] => refused.recheck[owner])
    BY <1>0, <2>1 DEF Lane
  <2>3. Tidy(refused, told, Ptys) /\ Tends(s, refused, told)
    BY <2>1, <2>2, SameWatch
  <2> QED
    BY <2>2, <2>3 DEF Tends, Attended
<1>3. /\ calm \in Lane /\ LaneInv(calm) /\ Tidy(calm, told, Ptys)
      /\ calm.row = s.row /\ calm.flight = s.flight /\ calm.mark = s.mark
      /\ p # owner => Tends(s, calm, told)
  <2>1. Same(s, calm)
    BY <1>0, Bookkeeping
  <2>2. /\ calm.parkedOn = s.parkedOn /\ calm.parked = s.parked /\ calm.queued = s.queued
        /\ calm.asked = s.asked /\ calm.recheck = [s.recheck EXCEPT ![p] = FALSE]
    BY <1>0 DEF Lane
  <2> HIDE DEF calm
  <2>3. p # owner => (s.recheck[owner] => calm.recheck[owner])
    BY <1>0, <2>2 DEF Lane
  <2>4. LaneInv(calm)
    BY <2>1, SameCore DEF Same
  <2>5. Tidy(calm, told, Ptys)
    BY <2>1, <2>2, SameTidy DEF Same
  <2>6. p # owner => Tends(s, calm, told)
    BY <2>1, <2>2, <2>3, SameWatch DEF Same
  <2> QED
    BY <2>1, <2>4, <2>5, <2>6 DEF Same
<1> HIDE DEF calm, refused
<1>4. HasFlight(s, p) => Good(onFlight)
  <2> HAVE HasFlight(s, p)
  <2>1. PICK stage \in FlightStages :
          takeDeferredEnter(calm, p) = ToStage(calm, p, stage) /\ (stage = "none" <=> ~HasFlight(calm, p))
    BY <1>3, TakeFields
  <2>2. HasFlight(taken, p) /\ taken \in Lane
    BY <1>3, <2>1, ToStageFields DEF HasFlight
  <2>3. Tidy(taken, told, Ptys) /\ Tends(calm, taken, told)
    BY <1>3, TakeWatch
  <2> HIDE DEF taken
  <2>4. /\ onFlight.row = taken.row /\ onFlight.flight = taken.flight
        /\ onFlight.mark = taken.mark /\ onFlight.parked = taken.parked
        /\ onFlight.queued = taken.queued /\ onFlight.asked = taken.asked
        /\ onFlight.recheck = taken.recheck
        /\ onFlight.parkedOn = [taken.parkedOn EXCEPT ![p] = TRUE]
    BY <2>2 DEF Lane
  <2> HIDE DEF onFlight
  <2>5. /\ \A q \in Ptys : q # p => onFlight.parkedOn[q] = taken.parkedOn[q]
        /\ onFlight.parkedOn[p]
    BY <2>2, <2>4 DEF Lane
  <2>6. Tidy(onFlight, told, Ptys)
    BY <2>2, <2>3, <2>4, <2>5
       DEF Tidy, Landed, PointedByMark, Submitted, ParkedFlies, HasFlight
  <2>7. p = owner => Attended(onFlight, told)
    BY <2>5 DEF Attended
  <2>8. p # owner => Tends(taken, onFlight, told)
    BY <1>0, <2>4, <2>5 DEF Tends, Attended, HandsOn, Doubted, Informed
  <2>9. p # owner => Tends(s, onFlight, told)
    BY <1>3, <2>3, <2>8, TendsTwice
  <2> QED
    BY <2>6, <2>7, <2>9 DEF Tends
<1>5. hasActiveWatermark(s) /\ ~HasFlight(s, p) => Good(aside)
  <2> HAVE hasActiveWatermark(s) /\ ~HasFlight(s, p)
  <2>1. PICK w \in s.mark : w.active
    BY DEF hasActiveWatermark
  <2>2. w.pty # p
    BY <2>1 DEF LaneInv, MarksSound
  <2>3. /\ aside.row = calm.row /\ aside.flight = calm.flight /\ aside.mark = calm.mark
        /\ aside.parkedOn = calm.parkedOn /\ aside.parked /\ aside.queued = calm.queued
        /\ aside.asked = calm.asked /\ aside.recheck = calm.recheck
    BY <1>3 DEF Lane
  <2> HIDE DEF aside
  <2>4. Tidy(aside, told, Ptys) /\ Tends(calm, aside, told)
    BY <1>3, <2>3, SameWatch
  <2>5. p = owner => Attended(aside, told)
    BY <1>3, <2>1, <2>2, <2>3 DEF Attended, HandsOn
  <2>6. p # owner => Tends(s, aside, told)
    BY <1>3, <2>4, TendsTwice
  <2> QED
    BY <2>4, <2>5, <2>6 DEF Tends
<1>6. Waiters # {} => Good(calm)
  BY <1>3 DEF Resting
<1>7. ~hasActiveWatermark(s) => Good(resumed)
  <2> HAVE ~hasActiveWatermark(s)
  <2>1. ~hasActiveWatermark(calm)
    BY <1>3 DEF hasActiveWatermark
  <2>2. /\ Tidy(resumed, told, Ptys)
        /\ Resting /\ Writable(p) /\ (p = owner \/ (skipProbe /\ Attended(calm, told)))
           => Attended(resumed, told)
    BY <1>3, <2>1, ResumeWatch
  <2> HIDE DEF resumed
  <2> QED
    BY <1>3, <2>2 DEF Tends
<1>8. refused = [s EXCEPT !.parked = TRUE, !.recheck[p] = TRUE]
  BY DEF refused
<1>9. \/ t = s /\ Outstanding # {}
      \/ t = refused
      \/ t = onFlight /\ HasFlight(s, p)
      \/ t = aside /\ hasActiveWatermark(s) /\ ~HasFlight(s, p)
      \/ t = calm /\ Waiters # {}
      \/ t = resumed /\ ~hasActiveWatermark(s)
  <2>1. t = CASE Outstanding # {} -> s
              [] Outstanding = {} /\ ~settled -> refused
              [] OTHER ->
                   IF HasFlight(s, p) THEN onFlight
                   ELSE IF hasActiveWatermark(s) THEN aside
                   ELSE IF Waiters # {} THEN calm
                   ELSE resumed
    BY <1>8 DEF deliver, calm
  <2> HIDE DEF t, onFlight, aside, resumed
  <2> QED
    BY <2>1
<1> HIDE DEF t, onFlight, aside, resumed, Good
<1>10. Good(t)
  BY <1>1, <1>2, <1>4, <1>5, <1>6, <1>7, <1>9
<1> QED
  BY <1>10 DEF Good, t

-----------------------------------------------------------------------------
(* The end of a flight, whose watermark is out of the way. *)
Ready(s, p, told) == LaneInv(s) /\ Silent(s, p) /\ Tidy(s, told, Ptys \ {p})

LEMMA TidyLess ==
  ASSUME NEW s, NEW told, Tidy(s, told, Ptys), NEW p
  PROVE  Tidy(s, told, Ptys \ {p})
BY DEF Tidy, Landed

LEMMA SettleWatch ==
  ASSUME World, IncPositive, NEW s, NEW told, NEW p \in Ptys, Ready(s, p, told),
         NEW settled, NEW known
  PROVE  LET t == settle(s, p, settled, known)
         IN  /\ Tidy(t, told, Ptys) /\ Tends(s, t, told)
             /\ p # owner /\ s.parked => t.parked \/ t.queued > 0
<1> DEFINE t == settle(s, p, settled, known)
           ended == Ended(s, p)
           aside == [ended EXCEPT !.parked = TRUE]
<1>1. /\ LaneInv(ended) /\ ended \in Lane
      /\ ended.parked = s.parked
  <2>1. LaneInv(ended)
    BY EndedKeeps DEF Ready
  <2> QED
    BY <2>1, EndedFields DEF Ready, LaneInv
<1>2. /\ Tidy(ended, told, Ptys)
      /\ ~s.parkedOn[p] \/ p # owner => Tends(s, ended, told)
  BY EndedWatch DEF Ready, LaneInv
<1>3. /\ ~s.parkedOn[p] => t = ended
      /\ s.parkedOn[p] /\ p = owner => t = deliver(ended, p, FALSE, settled, known)
      /\ s.parkedOn[p] /\ p # owner => t = redrive(aside, FALSE)
  BY DEF settle, Ended
<1> DEFINE Good(u) == /\ Tidy(u, told, Ptys) /\ Tends(s, u, told)
                      /\ p # owner /\ s.parked => u.parked \/ u.queued > 0
<1> SUFFICES Good(t)
  OBVIOUS
<1> HIDE DEF t, ended
<1>4. CASE ~s.parkedOn[p]
  BY <1>1, <1>2, <1>3, <1>4
<1>5. CASE s.parkedOn[p] /\ p = owner
  <2>1. FALSE \in BOOLEAN
    OBVIOUS
  <2> DEFINE u == deliver(ended, p, FALSE, settled, known)
  <2>4. /\ Tidy(u, told, Ptys)
        /\ Resting /\ Writable(p) /\ (p = owner \/ (FALSE /\ Attended(ended, told)))
           => Attended(u, told)
    BY <1>1, <1>2, <2>1, DeliverWatch
  <2>5. t = u
    BY <1>3, <1>5
  <2> HIDE DEF u
  <2>2. /\ Tidy(t, told, Ptys)
        /\ Resting /\ Writable(p) => Attended(t, told)
    BY <1>5, <2>4, <2>5
  <2>3. Resting => Writable(p)
    BY <1>5 DEF Resting, Writable
  <2> QED
    BY <1>5, <2>2, <2>3 DEF Tends
<1>6. CASE s.parkedOn[p] /\ p # owner
  <2>1. /\ aside \in Lane /\ aside.row = ended.row /\ aside.flight = ended.flight
        /\ aside.mark = ended.mark /\ aside.parkedOn = ended.parkedOn /\ aside.parked
    BY <1>1 DEF Lane
  <2> HIDE DEF aside
  <2>2. Tidy(aside, told, Ptys)
    BY <1>2, <2>1, SameTidy
  <2>3. Tidy(t, told, Ptys) /\ Attended(t, told)
    BY <1>3, <1>6, <2>1, <2>2, RedriveWatch
  <2>4. t.queued > 0
    BY <1>3, <1>6, <2>1, RedriveQueues
  <2> QED
    BY <2>3, <2>4 DEF Tends
<1> QED
  BY <1>4, <1>5, <1>6

LEMMA ReadyRedrive ==
  ASSUME NEW s, NEW p, NEW told, Ready(s, p, told), NEW force \in BOOLEAN
  PROVE  /\ Ready(redrive(s, force), p, told) /\ Tends(s, redrive(s, force), told)
         /\ s.parked => Attended(redrive(s, force), told)
<1> DEFINE t == redrive(s, force)
<1>1. s \in Lane
  BY DEF Ready, LaneInv
<1>2. LaneInv(t) /\ t.mark = s.mark
  BY <1>1, RedriveKeeps, RedriveFields DEF Ready
<1>3. /\ Tidy(t, told, Ptys \ {p}) /\ Tends(s, t, told)
      /\ s.parked => Attended(t, told)
  BY <1>1, RedriveWatch DEF Ready
<1> HIDE DEF t
<1>4. Ready(t, p, told)
  BY <1>2, <1>3 DEF Ready, Silent
<1> QED
  BY <1>3, <1>4 DEF t

(* The watermark of a flight is cleared. *)
LEMMA ReadyClear ==
  ASSUME NEW s, LaneInv(s), NEW told, Tidy(s, told, Ptys), NEW p \in Ptys, HasFlight(s, p)
  PROVE  LET t == clearWatermark(s, p, Max(s.flight[p].batch))
         IN  /\ Ready(t, p, told)
             /\ t.row = s.row /\ t.flight = s.flight /\ t.parked = s.parked
             /\ ~HandsOnAt(s, p) => Tends(s, t, told)
             /\ Informed(s, told) => Attended(t, told)
<1> DEFINE newest == Max(s.flight[p].batch)
           t == clearWatermark(s, p, newest)
<1>1. s \in Lane /\ Landed(s, {p})
  BY DEF LaneInv, Tidy, Landed
<1>2. LaneInv(t) /\ Silent(t, p)
  BY ClearKeeps
<1>3. /\ Tidy(t, told, Ptys)
      /\ ~HandsOnAt(s, p) => Tends(s, t, told)
      /\ Informed(s, told) => Attended(t, told)
  BY <1>1, ClearWatch
<1>4. t.row = s.row /\ t.flight = s.flight /\ t.parked = s.parked
  BY <1>1, ClearFields
<1> HIDE DEF t
<1>5. Ready(t, p, told)
  BY <1>2, <1>3, TidyLess DEF Ready
<1> QED
  BY <1>3, <1>4, <1>5 DEF t

LEMMA ReadyDeactivate ==
  ASSUME NEW s, LaneInv(s), NEW told, Tidy(s, told, Ptys), NEW p \in Ptys
  PROVE  LET t == deactivateWatermark(s, p, Max(s.flight[p].batch))
         IN  Ready(t, p, told) /\ (~HandsOnAt(s, p) => Tends(s, t, told))
<1> DEFINE t == deactivateWatermark(s, p, Max(s.flight[p].batch))
<1>1. s \in Lane
  BY DEF LaneInv
<1>2. LaneInv(t) /\ Silent(t, p)
  BY DeactivateKeeps
<1>3. /\ Tidy(t, told, Ptys \ {p})
      /\ ~HandsOnAt(s, p) => Tends(s, t, told)
  BY <1>1, DeactivateWatch
<1> HIDE DEF t
<1>4. Ready(t, p, told) /\ (~HandsOnAt(s, p) => Tends(s, t, told))
  BY <1>2, <1>3 DEF Ready
<1> QED
  BY <1>4 DEF t

-----------------------------------------------------------------------------
(* The handlers of a flight. *)

(* What a step of the lane owes a coordinator at rest. *)
Attentive ==
  /\ Tidy(lane', declined', Ptys)
  /\ Resting /\ status[owner] = "idle" /\ Attended(lane, declined)
       => Attended(lane', declined')

LEMMA ReadySettled ==
  ASSUME World, IncPositive, NEW p \in Ptys, NEW v, Ready(v, p, declined'), NEW settled, NEW known,
         lane' = settle(v, p, settled, known),
         Resting /\ Attended(lane, declined) => Attended(v, declined')
  PROVE  Attentive
<1>1. Tidy(lane', declined', Ptys) /\ Tends(v, lane', declined')
  BY SettleWatch
<1> QED
  BY <1>1 DEF Attentive, Tends

(* Mail left behind counts as told. *)
LEMMA LeftBehindTold ==
  ASSUME NEW s, NEW p, LaneInv(lane), HandsOnAt(lane, p), LeftBehind(p) \subseteq declined'
  PROVE  Resting => Attended(s, declined')
<1>1. MarkAt(lane, p, Max(lane.flight[p].batch)) # {}
  BY DEF HandsOnAt, MarkAt, LaneInv, MarksSound
<1> QED
  BY <1>1 DEF HandsOnAt, LeftBehind, Resting, Attended, Informed

LEMMA PointerWriteWatch ==
  ASSUME World, IncPositive, LaneInv(lane), Tidy(lane, declined, Ptys),
         NEW p \in Ptys, NEW outcome, NEW enterless, NEW settled, NEW known,
         finishPointerWrite(p, outcome, enterless, settled, known)
  PROVE  Attentive
<1> DEFINE f == lane.flight[p]
           told == declined'
           cleared == clearWatermark(lane, p, Max(f.batch))
           doubtful == deactivateWatermark(lane, p, Max(f.batch))
           undelivered == markAsUndelivered(cleared, f.batch)
           delivered == markAsDelivered(cleared, f.batch)
           next == CASE f.stage = "writing" -> "timer"
                     [] f.stage = "writing_deferred" -> "held"
                     [] OTHER -> "probing"
           none == MarkAt(lane, p, Max(f.batch)) = {}
<1>0. /\ f.stage \in {"writing", "writing_deferred", "writing_ready"} /\ HasFlight(lane, p)
      /\ declined \subseteq told
      /\ outcome = "unverifiable" => LeftBehind(p) \subseteq told
      /\ outcome = "refused" => f.batch \subseteq told
  BY DEF finishPointerWrite, HasFlight
<1>1. /\ Tidy(lane, told, Ptys) /\ lane \in Lane
      /\ Attended(lane, declined) => Attended(lane, told)
  BY <1>0, AttendedMore DEF LaneInv
<1>2. outcome = "unverifiable" /\ HandsOnAt(lane, p) => \A s : Resting => Attended(s, told)
  BY <1>0, LeftBehindTold
<1> HIDE DEF told
<1>3. CASE outcome = "unverifiable"
  <2>1. lane' = settle(doubtful, p, settled, known)
    BY <1>3 DEF finishPointerWrite
  <2>2. Ready(doubtful, p, told) /\ (~HandsOnAt(lane, p) => Tends(lane, doubtful, told))
    BY <1>1, ReadyDeactivate
  <2> HIDE DEF doubtful
  <2>3. Resting /\ Attended(lane, declined) => Attended(doubtful, told)
    BY <1>1, <1>2, <1>3, <2>2 DEF Tends
  <2> QED
    BY <2>1, <2>2, <2>3, ReadySettled DEF told
<1>4. /\ Ready(cleared, p, told)
      /\ cleared.row = lane.row /\ cleared.flight = lane.flight
      /\ cleared.parked = lane.parked
      /\ ~HandsOnAt(lane, p) => Tends(lane, cleared, told)
  BY <1>0, <1>1, ReadyClear
<1>5. cleared \in Lane /\ LaneInv(cleared) /\ Tidy(cleared, told, Ptys \ {p})
  BY <1>4 DEF Ready, LaneInv
<1> HIDE DEF cleared
<1>6. CASE outcome = "refused"
  <2>1. \/ none /\ lane' = settle(undelivered, p, settled, known)
        \/ ~none /\ lane' = settle(redrive(undelivered, FALSE), p, settled, known)
    BY <1>6 DEF finishPointerWrite, cleared
  <2> DEFINE rows == f.batch \ read
  <2>2. undelivered = SetRows(cleared, rows, FALSE)
    BY DEF markAsUndelivered
  <2>3. rows \subseteq told
    BY <1>0, <1>6
  <2>10. HandsOnAt(lane, p) => ~none /\ (lane.parked \/ \A s : Attended(s, told))
    <3> SUFFICES ASSUME HandsOnAt(lane, p), ~lane.parked, NEW s
                 PROVE  Attended(s, told)
      BY DEF HandsOnAt, MarkAt, LaneInv, MarksSound
    <3>1. PICK m : m \in f.batch /\ m \in Unread
      BY <1>0 DEF HandsOnAt, LaneInv, FlightsSound
    <3> QED
      BY <1>0, <1>6, <3>1 DEF Attended, Informed
  <2> HIDE DEF rows, undelivered, none
  <2>4. LaneInv(undelivered) /\ undelivered.mark = cleared.mark
    BY <1>5, <2>2, SetRowsKeeps, SetRowsSame
  <2>5. Tidy(undelivered, told, Ptys \ {p}) /\ Tends(cleared, undelivered, told)
    BY <1>5, <2>2, <2>3, SetRowsWatch
  <2>6. Ready(undelivered, p, told)
    BY <1>4, <2>4, <2>5 DEF Ready, Silent
  <2>7. Resting /\ Attended(lane, declined)
          => Attended(undelivered, told) \/ (~none /\ undelivered.parked)
    <3>1. undelivered.parked = lane.parked
      <4>1. FALSE \in BOOLEAN
        OBVIOUS
      <4>2. SetRows(cleared, rows, FALSE).parked = cleared.parked
        BY <1>5, <4>1, SetRowsElse
      <4>3. undelivered.parked = cleared.parked
        BY <2>2, <4>2
      <4> QED
        BY <1>4, <4>3
    <3> QED
      BY <1>1, <1>4, <2>5, <2>10, <3>1 DEF Tends
  <2>8. /\ Ready(redrive(undelivered, FALSE), p, told)
        /\ Tends(undelivered, redrive(undelivered, FALSE), told)
        /\ undelivered.parked => Attended(redrive(undelivered, FALSE), told)
    BY <2>6, ReadyRedrive
  <2>9. Resting /\ Attended(lane, declined) => Attended(redrive(undelivered, FALSE), told)
    BY <2>7, <2>8 DEF Tends
  <2>11. CASE none /\ lane' = settle(undelivered, p, settled, known)
    BY <2>6, <2>7, <2>11, ReadySettled DEF told
  <2>12. CASE ~none /\ lane' = settle(redrive(undelivered, FALSE), p, settled, known)
    BY <2>8, <2>9, <2>12, ReadySettled DEF told
  <2> QED
    BY <2>1, <2>11, <2>12
<1>7. CASE outcome = "accepted" /\ ReaderHas(f.batch)
  <2>1. \/ none /\ lane' = settle(cleared, p, settled, known)
        \/ ~none /\ lane' = settle(redrive(cleared, FALSE), p, settled, known)
    BY <1>7 DEF finishPointerWrite, cleared
  <2>2. /\ Ready(redrive(cleared, FALSE), p, told)
        /\ Tends(cleared, redrive(cleared, FALSE), told)
        /\ cleared.parked => Attended(redrive(cleared, FALSE), told)
    BY <1>4, ReadyRedrive
  <2>3. HandsOnAt(lane, p) => ~none
    BY DEF HandsOnAt, MarkAt, LaneInv, MarksSound
  <2>4. Resting /\ HandsOnAt(lane, p) => cleared.parked
    BY <1>4, <1>7 DEF Resting, HandsOnAt, ReaderHas
  <2> HIDE DEF none
  <2>5. CASE none
    <3>1. Resting /\ Attended(lane, declined) => Attended(cleared, told)
      BY <1>1, <1>4, <2>3, <2>5 DEF Tends
    <3> QED
      BY <1>4, <2>1, <2>5, <3>1, ReadySettled DEF told
  <2>6. CASE ~none
    <3>1. Resting /\ Attended(lane, declined) => Attended(redrive(cleared, FALSE), told)
      BY <1>1, <1>4, <2>2, <2>4 DEF Tends
    <3> QED
      BY <2>1, <2>2, <2>6, <3>1, ReadySettled DEF told
  <2> QED
    BY <2>5, <2>6
<1>8. CASE outcome = "accepted" /\ ~ReaderHas(f.batch) /\ enterless
  <2>1. lane' = settle(redrive(delivered, FALSE), p, settled, known)
    BY <1>8 DEF finishPointerWrite, cleared
  <2>2. delivered = SetRows(cleared, f.batch, TRUE)
    BY DEF markAsDelivered
  <2>3. f.batch \subseteq Unread /\ f.batch # {} /\ \A m \in Mail \cap f.batch : m <= arrived
    BY <1>0, <1>8 DEF ReaderHas, LaneInv, FlightsSound
  <2> HIDE DEF delivered
  <2>4. LaneInv(delivered) /\ delivered.mark = cleared.mark
    BY <1>5, <2>2, <2>3, SetRowsKeeps, SetRowsSame
  <2>5. Unread \cap f.batch # {}
    BY <2>3
  <2>6. Tidy(delivered, told, Ptys \ {p}) /\ Attended(delivered, told)
    <3> DEFINE batch == f.batch
    <3>1. delivered = SetRows(cleared, batch, TRUE) /\ Unread \cap batch # {}
      BY <2>2, <2>5
    <3> HIDE DEF batch
    <3> QED
      BY <1>5, <3>1, SettledRowsWatch
  <2>7. Ready(delivered, p, told)
    BY <1>4, <2>4, <2>6 DEF Ready, Silent
  <2>8. /\ Ready(redrive(delivered, FALSE), p, told)
        /\ Tends(delivered, redrive(delivered, FALSE), told)
    BY <2>7, ReadyRedrive
  <2>9. Resting /\ Attended(lane, declined) => Attended(redrive(delivered, FALSE), told)
    BY <2>6, <2>8 DEF Tends
  <2> QED
    BY <2>1, <2>8, <2>9, ReadySettled DEF told
<1>9. CASE /\ outcome # "unverifiable" /\ outcome # "refused"
           /\ ~(outcome = "accepted" /\ ReaderHas(f.batch))
           /\ ~(outcome = "accepted" /\ ~ReaderHas(f.batch) /\ enterless)
  <2>1. lane' = ToStage(lane, p, next)
    BY <1>9 DEF finishPointerWrite, ToStage
  <2>2. next \in FlightStages /\ next # "none" /\ next # "entering"
    BY DEF FlightStages
  <2> HIDE DEF next
  <2>3. Tidy(lane', told, Ptys) /\ Tends(lane, lane', told)
    BY <1>0, <1>1, <2>1, <2>2, ToStageWatch
  <2> QED
    BY <1>1, <2>3 DEF Attentive, Tends, told
<1> QED
  BY <1>3, <1>6, <1>7, <1>8, <1>9

LEMMA TimerWatch ==
  ASSUME LaneInv(lane), Tidy(lane, declined, Ptys), NEW p \in Ptys, EnterTimer(p)
  PROVE  Attentive
<1>1. /\ lane' = ToStage(lane, p, "probing") /\ declined' = declined /\ HasFlight(lane, p)
      /\ "probing" \in FlightStages /\ lane \in Lane
  BY DEF EnterTimer, ToStage, history, HasFlight, FlightStages, LaneInv
<1>2. Tidy(lane', declined, Ptys) /\ Tends(lane, lane', declined)
  BY <1>1, ToStageWatch
<1> QED
  BY <1>1, <1>2 DEF Attentive, Tends

(* The rows of a flight are settled in "u" and its watermark cleared. *)
LEMMA CountAsDeliveredWatch ==
  ASSUME World, IncPositive, LaneInv(lane), NEW told, Tidy(lane, told, Ptys),
         NEW p \in Ptys, HasFlight(lane, p), NEW phase, phase # 0, NEW settled, NEW known
  PROVE  LET f == lane.flight[p]
             u == settleMailboxPointerEnter(lane, f.batch, <<p, f.inc>>, {phase})
             t == CountAsDelivered(lane, p, phase, settled, known)
         IN  /\ Tidy(t, told, Ptys) /\ t \in Lane
             /\ ~HandsOnAt(lane, p) \/ Informed(u, told) => Tends(lane, t, told)
             /\ p # owner /\ lane.parked => t.parked \/ t.queued > 0
<1> DEFINE f == lane.flight[p]
           rows == Held(lane, f.batch, <<p, f.inc>>, {phase})
           u == settleMailboxPointerEnter(lane, f.batch, <<p, f.inc>>, {phase})
           v == clearWatermark(u, p, Max(f.batch))
           t == CountAsDelivered(lane, p, phase, settled, known)
<1>0. t = settle(v, p, settled, known) /\ u = SetRows(lane, rows, TRUE) /\ lane \in Lane
  BY DEF CountAsDelivered, settleMailboxPointerEnter, LaneInv
<1>1. LaneInv(u) /\ u.flight = lane.flight /\ u.mark = lane.mark
  BY SettleRowsKeeps DEF RowsKept
<1>2. Tidy(u, told, Ptys) /\ Tends(lane, u, told) /\ u.parked = lane.parked
  <2> HIDE DEF rows, u
  <2>1. u.parked = lane.parked
    BY <1>0, SetRowsElse
  <2> QED
    BY <1>0, <2>1, SettledRowsWatch
<1>3. t \in Lane
  BY CountAsDeliveredKeeps DEF Keeps, LaneInv
<1> HIDE DEF t, u
<1>4. HandsOnAt(u, p) => HandsOnAt(lane, p)
  BY <1>1, <1>2 DEF HandsOnAt
<1>5. /\ Ready(v, p, told) /\ v.parked = u.parked
      /\ ~HandsOnAt(u, p) => Tends(u, v, told)
      /\ Informed(u, told) => Attended(v, told)
  <2>1. HasFlight(u, p)
    BY <1>1 DEF HasFlight
  <2> QED
    BY <1>1, <1>2, <2>1, ReadyClear
<1> HIDE DEF v
<1>6. /\ Tidy(t, told, Ptys) /\ Tends(v, t, told)
      /\ p # owner /\ v.parked => t.parked \/ t.queued > 0
  BY <1>0, <1>5, SettleWatch
<1>7. ~HandsOnAt(lane, p) \/ Informed(u, told) => Tends(lane, t, told)
  BY <1>2, <1>4, <1>5, <1>6 DEF Tends
<1> QED
  BY <1>2, <1>3, <1>5, <1>6, <1>7 DEF t, u

LEMMA KeepInDoubtWatch ==
  ASSUME World, IncPositive, LaneInv(lane), NEW told, Tidy(lane, told, Ptys),
         NEW p \in Ptys, NEW settled, NEW known
  PROVE  LET t == KeepInDoubt(lane, p, settled, known)
         IN  Tidy(t, told, Ptys) /\ (~HandsOnAt(lane, p) => Tends(lane, t, told))
<1> DEFINE v == deactivateWatermark(lane, p, Max(lane.flight[p].batch))
           kept == settle(v, p, settled, known)
           t == KeepInDoubt(lane, p, settled, known)
<1>1. t \in {kept, redrive(kept, FALSE)}
  BY DEF KeepInDoubt
<1>2. Ready(v, p, told) /\ (~HandsOnAt(lane, p) => Tends(lane, v, told))
  BY ReadyDeactivate
<1>3. kept \in Lane
  BY DeactivateAndSettle DEF Keeps, LaneInv
<1> HIDE DEF v
<1>4. Tidy(kept, told, Ptys) /\ Tends(v, kept, told)
  BY <1>2, SettleWatch
<1> HIDE DEF kept, t
<1>5. Tidy(redrive(kept, FALSE), told, Ptys) /\ Tends(kept, redrive(kept, FALSE), told)
  BY <1>3, <1>4, RedriveWatch
<1>6. Tidy(t, told, Ptys) /\ (~HandsOnAt(lane, p) => Tends(lane, t, told))
  BY <1>1, <1>2, <1>4, <1>5 DEF Tends
<1> QED
  BY <1>6 DEF t

LEMMA EnterWriteWatch ==
  ASSUME World, IncPositive, LaneInv(lane), Tidy(lane, declined, Ptys),
         NEW p \in Ptys, NEW outcome \in Outcomes, NEW settled, NEW known,
         finishEnterWrite(p, outcome, settled, known)
  PROVE  Attentive
<1> DEFINE f == lane.flight[p]
           told == declined'
           u == settleMailboxPointerEnter(lane, f.batch, <<p, f.inc>>, {EnterAttempted})
           counted == CountAsDelivered(lane, p, EnterAttempted, settled, known)
           kept == KeepInDoubt(lane, p, settled, known)
           none == MarkAt(lane, p, Max(f.batch)) = {}
<1>0. /\ f.stage = "entering" /\ HasFlight(lane, p)
      /\ declined \subseteq told
      /\ outcome # "accepted" => LeftBehind(p) \subseteq told
  BY DEF finishEnterWrite, HasFlight
<1>1. /\ Tidy(lane, told, Ptys) /\ lane \in Lane
      /\ Attended(lane, declined) => Attended(lane, told)
  BY <1>0, AttendedMore DEF LaneInv
<1>2. outcome # "accepted" /\ HandsOnAt(lane, p) => \A s : Resting => Attended(s, told)
  BY <1>0, LeftBehindTold
<1>3. \/ outcome = "accepted" /\ none /\ lane' = counted
      \/ outcome = "accepted" /\ ~none /\ lane' = redrive(counted, FALSE)
      \/ outcome # "accepted" /\ lane' \in {counted, kept}
  BY MailboxAssumption DEF finishEnterWrite
<1>4. /\ Tidy(counted, told, Ptys) /\ counted \in Lane
      /\ ~HandsOnAt(lane, p) \/ Informed(u, told) => Tends(lane, counted, told)
      /\ p # owner /\ lane.parked => counted.parked \/ counted.queued > 0
  <2>1. EnterAttempted # 0
    BY Phases
  <2> QED
    BY <1>0, <1>1, <2>1, CountAsDeliveredWatch
<1>5. Tidy(kept, told, Ptys) /\ (~HandsOnAt(lane, p) => Tends(lane, kept, told))
  BY <1>1, KeepInDoubtWatch
<1>6. HandsOnAt(lane, p) => ~none /\ (lane.parked \/ Informed(u, told))
  <2> HAVE HandsOnAt(lane, p)
  <2>1. PICK w \in lane.mark : w.active /\ w.pty = p
                               /\ (lane.parked \/ f.batch \subseteq Unread)
    BY DEF HandsOnAt
  <2>2. ~none
    BY <2>1 DEF MarkAt, LaneInv, MarksSound
  <2>3. ASSUME f.batch \subseteq Unread PROVE Informed(u, told)
    <3>1. PICK m : m \in f.batch /\ m \in Unread
      BY <1>0, <2>3 DEF LaneInv, FlightsSound
    <3>2. \/ lane.row[m].delivered \/ m \in told
          \/ lane.row[m].target = <<p, f.inc>> /\ lane.row[m].phase = EnterAttempted
      BY <1>0, <1>1, <2>1, <3>1 DEF Tidy, Submitted
    <3> DEFINE rows == Held(lane, f.batch, <<p, f.inc>>, {EnterAttempted})
    <3>3. u = SetRows(lane, rows, TRUE)
      BY DEF settleMailboxPointerEnter
    <3>4. Informed(lane, told) \/ Unread \cap rows # {}
      <4>1. m \in rows => m \in Unread \cap rows
        BY <3>1
      <4>2. lane.row[m].target = <<p, f.inc>> /\ lane.row[m].phase = EnterAttempted
              => m \in rows
        BY <3>1 DEF Held
      <4>3. lane.row[m].delivered \/ m \in told => Informed(lane, told)
        BY <3>1 DEF Informed
      <4> QED
        BY <3>2, <4>1, <4>2, <4>3
    <3> HIDE DEF rows, u
    <3> QED
      BY <1>1, <3>3, <3>4, SettledRowsWatch
  <2> QED
    BY <2>1, <2>2, <2>3
<1>7. /\ Tidy(redrive(counted, FALSE), told, Ptys)
      /\ Tends(counted, redrive(counted, FALSE), told)
      /\ counted.parked \/ counted.queued > 0 => Attended(redrive(counted, FALSE), told)
  BY <1>4, RedriveWatch
<1> HIDE DEF told, counted, kept, none, u
<1>8. Tidy(lane', told, Ptys)
  BY <1>3, <1>4, <1>5, <1>7
<1>9. ASSUME Resting, Attended(lane, told) PROVE Attended(lane', told)
  <2>1. CASE outcome = "accepted" /\ none /\ lane' = counted
    BY <1>4, <1>6, <1>9, <2>1 DEF Tends
  <2>2. CASE outcome = "accepted" /\ ~none /\ lane' = redrive(counted, FALSE)
    <3>1. CASE ~HandsOnAt(lane, p) \/ Informed(u, told)
      BY <1>4, <1>7, <1>9, <2>2, <3>1 DEF Tends
    <3>2. CASE HandsOnAt(lane, p) /\ lane.parked
      BY <1>4, <1>7, <2>2, <3>2 DEF HandsOnAt
    <3> QED
      BY <1>6, <3>1, <3>2
  <2>3. CASE outcome # "accepted" /\ lane' \in {counted, kept}
    <3>1. CASE ~HandsOnAt(lane, p)
      BY <1>4, <1>5, <1>9, <2>3, <3>1 DEF Tends
    <3>2. CASE HandsOnAt(lane, p)
      BY <1>2, <1>9, <2>3, <3>2
    <3> QED
      BY <3>1, <3>2
  <2> QED
    BY <1>3, <2>1, <2>2, <2>3
<1> QED
  BY <1>1, <1>8, <1>9 DEF Attentive, told

(* Rows that were typed go back to the mailbox. *)
LEMMA ReleaseWatch ==
  ASSUME World, NEW s, LaneInv(s), NEW told, Tidy(s, told, Ptys), NEW p \in Ptys,
         NEW phases, phases \subseteq {Reserved, WriteAttempted}
  PROVE  LET f == s.flight[p]
             u == releaseMailboxPointerEnter(s, f.batch, <<p, f.inc>>, phases)
         IN  /\ LaneInv(u) /\ Tidy(u, told, Ptys)
             /\ u.flight = s.flight /\ u.mark = s.mark /\ u.parkedOn = s.parkedOn
             /\ u.parked = s.parked /\ u.queued = s.queued /\ u.recheck = s.recheck
             /\ u.asked = s.asked
             /\ p # owner => Tends(s, u, told) /\ (Informed(s, told) => Informed(u, told))
<1> DEFINE f == s.flight[p]
           rows == Held(s, f.batch, <<p, f.inc>>, phases) \ read
           u == releaseMailboxPointerEnter(s, f.batch, <<p, f.inc>>, phases)
<1>1. u = SetRows(s, rows, FALSE) /\ s \in Lane
  BY DEF releaseMailboxPointerEnter, LaneInv
<1>2. \A m \in Unread \cap rows : /\ ~s.row[m].delivered /\ s.row[m].phase # EnterAttempted
                                  /\ s.row[m].target = <<p, f.inc>>
  <2> TAKE m \in Unread \cap rows
  <2>1. m \in Mail /\ 0 \notin phases /\ EnterAttempted \notin phases
    BY UnreadIsMail, Phases
  <2>2. m \in Mail \cap Held(s, f.batch, <<p, f.inc>>, phases)
    BY <2>1
  <2>3. ~s.row[m].delivered /\ s.row[m].phase \in phases
    BY <2>1, <2>2, HeldRows
  <2> QED
    BY <2>1, <2>2, <2>3 DEF Held
<1>3. LaneInv(u) /\ u.flight = s.flight /\ u.mark = s.mark
  BY ReleaseKeeps DEF RowsKept
<1>4. /\ u.parkedOn = s.parkedOn /\ u.parked = s.parked /\ u.queued = s.queued
      /\ u.recheck = s.recheck /\ u.asked = s.asked
  BY <1>1 DEF SetRows, Lane
<1>5. p # owner => \A m \in Unread \cap rows : s.row[m].target # Process(owner)
  BY <1>2 DEF Process
<1> HIDE DEF rows, u
<1>6. Tidy(u, told, Ptys)
  BY <1>1, <1>2, SetRowsWatch
<1>7. p # owner => Tends(s, u, told) /\ (Informed(s, told) => Informed(u, told))
  BY <1>1, <1>2, <1>5, SetRowsWatch
<1> QED
  BY <1>3, <1>4, <1>6, <1>7 DEF u

LEMMA ClearAndRedriveWatch ==
  ASSUME World, IncPositive, LaneInv(lane), NEW told, Tidy(lane, told, Ptys),
         NEW p \in Ptys, HasFlight(lane, p), NEW settled, NEW known
  PROVE  LET t == ClearAndRedrive(lane, p, settled, known)
         IN  Tidy(t, told, Ptys) /\ (p # owner => Tends(lane, t, told))
<1> DEFINE f == lane.flight[p]
           u == releaseMailboxPointerEnter(lane, f.batch, <<p, f.inc>>, {WriteAttempted})
           v == clearWatermark(u, p, Max(f.batch))
           freed == settle(v, p, settled, known)
           none == MarkAt(lane, p, Max(f.batch)) = {}
           t == ClearAndRedrive(lane, p, settled, known)
<1>1. t = IF none THEN freed ELSE redrive(freed, TRUE)
  BY DEF ClearAndRedrive
<1>2. /\ LaneInv(u) /\ Tidy(u, told, Ptys) /\ u.flight = lane.flight /\ u.mark = lane.mark
      /\ p # owner => Tends(lane, u, told)
  BY ReleaseWatch
<1>3. HandsOnAt(u, p) => ~none
  BY <1>2 DEF HandsOnAt, MarkAt, LaneInv, MarksSound
<1>4. freed \in Lane
  <2>1. RowsKept(lane, u)
    BY ReleaseKeeps
  <2> HIDE DEF u
  <2>2. Keeps(lane, freed, p)
    BY <2>1, ClearAndSettle
  <2> HIDE DEF freed
  <2> QED
    BY <2>2 DEF Keeps, LaneInv
<1> HIDE DEF u, none, t
<1>5. Ready(v, p, told) /\ (~HandsOnAt(u, p) => Tends(u, v, told))
  <2>1. HasFlight(u, p)
    BY <1>2 DEF HasFlight
  <2> QED
    BY <1>2, <2>1, ReadyClear
<1> HIDE DEF v
<1>6. Tidy(freed, told, Ptys) /\ Tends(v, freed, told)
  BY <1>5, SettleWatch
<1> HIDE DEF freed
<1>7. CASE none
  <2>1. p # owner => Tends(lane, freed, told)
    BY <1>2, <1>3, <1>5, <1>6, <1>7 DEF Tends
  <2> QED
    BY <1>1, <1>6, <1>7, <2>1 DEF t
<1>8. CASE ~none
  <2>1. TRUE \in BOOLEAN
    OBVIOUS
  <2>2. t = redrive(freed, TRUE)
    BY <1>1, <1>8
  <2>3. Tidy(t, told, Ptys) /\ Attended(t, told)
    BY <1>4, <1>6, <2>2, RedriveTrueWatch
  <2> QED
    BY <2>3 DEF Tends, t
<1> QED
  BY <1>7, <1>8

Press(s, p, row) == [s EXCEPT !.row = row, !.flight[p].stage = "entering"]

LEMMA PressFields ==
  ASSUME NEW s \in Lane, NEW p \in Ptys, NEW row
  PROVE  LET t == Press(s, p, row)
         IN  /\ t.row = row /\ t.mark = s.mark /\ t.parkedOn = s.parkedOn
             /\ t.parked = s.parked /\ t.queued = s.queued /\ t.recheck = s.recheck
             /\ t.asked = s.asked
             /\ \A q \in Ptys : q # p => t.flight[q] = s.flight[q]
             /\ t.flight[p].stage = "entering" /\ t.flight[p].batch = s.flight[p].batch
             /\ t.flight[p].inc = s.flight[p].inc
BY DEF Press, Lane, Flight

(* The Enter is pressed: the rows stay pointed at the same process. *)
LEMMA PressWatch ==
  ASSUME World, LaneInv(lane), NEW told, Tidy(lane, told, Ptys), NEW p \in Ptys,
         HasFlight(lane, p), NEW rows, lane.flight[p].batch = rows,
         \A m \in rows : /\ lane.row[m].target = <<p, lane.flight[p].inc>>
                         /\ lane.row[m].phase = WriteAttempted
  PROVE  LET row == [m \in Mail |-> IF m \in rows
                       THEN [lane.row[m] EXCEPT !.phase = EnterAttempted] ELSE lane.row[m]]
             t == Press(lane, p, row)
         IN  Tidy(t, told, Ptys) /\ Tends(lane, t, told)
<1> DEFINE row == [m \in Mail |-> IF m \in rows
                     THEN [lane.row[m] EXCEPT !.phase = EnterAttempted] ELSE lane.row[m]]
           t == Press(lane, p, row)
<1>1. lane \in Lane /\ Unread \subseteq Mail
  BY UnreadIsMail DEF LaneInv
<1>2. \A m \in rows : lane.row[m].target = <<p, lane.flight[p].inc>> /\ lane.row[m].phase > 0
  BY Phases
<1>3. \A m \in Mail : /\ row[m].target = lane.row[m].target
                      /\ row[m].delivered = lane.row[m].delivered
                      /\ m \in rows => row[m].phase = EnterAttempted
                      /\ m \notin rows => row[m].phase = lane.row[m].phase
  <2> TAKE m \in Mail
  <2>1. lane.row[m] \in Row /\ EnterAttempted \in 0..EnterAttempted
    BY <1>1, Phases DEF Lane
  <2>2. row[m] = IF m \in rows THEN [lane.row[m] EXCEPT !.phase = EnterAttempted] ELSE lane.row[m]
    OBVIOUS
  <2> HIDE DEF row
  <2> QED
    BY <2>1, <2>2 DEF Row
<1> HIDE DEF row
<1>4. /\ t.row = row /\ t.mark = lane.mark /\ t.parkedOn = lane.parkedOn
      /\ t.parked = lane.parked /\ t.queued = lane.queued /\ t.recheck = lane.recheck
      /\ t.asked = lane.asked
  BY <1>1, PressFields
<1>5. /\ \A q \in Ptys : q # p => t.flight[q] = lane.flight[q]
      /\ t.flight[p].stage = "entering" /\ t.flight[p].batch = rows
      /\ t.flight[p].inc = lane.flight[p].inc
  BY <1>1, PressFields
<1> HIDE DEF t
<1>6. \A q \in Ptys : /\ HasFlight(t, q) <=> HasFlight(lane, q)
                      /\ t.flight[q].batch = lane.flight[q].batch
                      /\ t.flight[q].inc = lane.flight[q].inc
  BY <1>5 DEF HasFlight
<1>7. \A w \in t.mark : w \in lane.mark /\ w.pty \in Ptys
  BY <1>1, <1>4 DEF Lane, Mark
<1>8. Landed(t, Ptys) /\ ParkedFlies(t)
  BY <1>4, <1>6, <1>7 DEF Tidy, Landed, ParkedFlies
<1>9. PointedByMark(t)
  <2>1. \A m \in Unread : /\ t.row[m].phase > 0 => lane.row[m].phase > 0
                          /\ t.row[m].target = lane.row[m].target
    <3> TAKE m \in Unread
    <3>1. m \in Mail /\ t.row[m] = row[m]
      BY <1>1, <1>4
    <3>2. m \in rows => lane.row[m].phase > 0
      BY <1>2
    <3>3. m \notin rows => row[m].phase = lane.row[m].phase
      BY <1>3, <3>1
    <3>4. row[m].target = lane.row[m].target
      BY <1>3, <3>1
    <3> QED
      BY <3>1, <3>2, <3>3, <3>4
  <2> QED
    BY <1>4, <2>1 DEF Tidy, PointedByMark
<1>10. Submitted(t, told)
  <2> SUFFICES ASSUME NEW w \in t.mark, w.active, t.flight[w.pty].stage = "entering",
                      NEW m \in t.flight[w.pty].batch \cap Unread
               PROVE  \/ t.row[m].delivered \/ m \in told
                      \/ /\ t.row[m].target = <<w.pty, t.flight[w.pty].inc>>
                         /\ t.row[m].phase = EnterAttempted
    BY DEF Submitted
  <2>1. m \in Mail
    BY <1>1
  <2>2. CASE w.pty = p
    <3>1. m \in rows /\ t.flight[w.pty].inc = lane.flight[p].inc
      BY <1>5, <2>2
    <3>2. t.row[m].target = lane.row[m].target /\ t.row[m].phase = EnterAttempted
      BY <1>3, <1>4, <2>1, <3>1
    <3> QED
      BY <1>2, <2>2, <3>1, <3>2
  <2>3. CASE w.pty # p
    <3>1. t.flight[w.pty] = lane.flight[w.pty] /\ w \in lane.mark
      BY <1>5, <1>7, <2>3
    <3>2. \/ lane.row[m].delivered \/ m \in told
          \/ /\ lane.row[m].target = <<w.pty, lane.flight[w.pty].inc>>
             /\ lane.row[m].phase = EnterAttempted
      BY <3>1 DEF Tidy, Submitted
    <3> QED
      BY <1>3, <1>4, <2>1, <3>1, <3>2
  <2> QED
    BY <2>2, <2>3
<1>11. Tends(lane, t, told)
  <2>1. HandsOn(lane) => HandsOn(t)
    BY <1>4, <1>6, <1>7 DEF HandsOn
  <2>2. Informed(lane, told) => Informed(t, told)
    BY <1>1, <1>3, <1>4 DEF Informed
  <2> QED
    BY <1>4, <2>1, <2>2 DEF Tends, Attended, Doubted
<1> QED
  BY <1>8, <1>9, <1>10, <1>11 DEF Tidy, t, row

LEMMA SubmitWatch ==
  ASSUME World, IncPositive, LaneInv(lane), Tidy(lane, declined, Ptys),
         NEW p \in Ptys, NEW absent, NEW settled, NEW known,
         submitPointer(p, absent, settled, known)
  PROVE  Attentive
<1> DEFINE f == lane.flight[p]
           rows == Held(lane, f.batch, <<p, f.inc>>, {WriteAttempted})
           row == [m \in Mail |-> IF m \in rows
                     THEN [lane.row[m] EXCEPT !.phase = EnterAttempted] ELSE lane.row[m]]
           cleared == ClearAndRedrive(lane, p, settled, known)
           counted == CountAsDelivered(lane, p, WriteAttempted, settled, known)
           kept == KeepInDoubt(lane, p, settled, known)
<1>1. /\ f.stage = "probing" /\ HasFlight(lane, p) /\ lane \in Lane
      /\ declined' = declined /\ (absent => proc[p] # "live")
  BY DEF submitPointer, HasFlight, LaneInv
<1>2. \/ /\ absent \/ ~(Writable(p) /\ <<p, f.inc>> = Process(p)) \/ p # owner
         /\ lane' = cleared
      \/ p = owner /\ lane' = counted
      \/ p = owner /\ lane' = kept
      \/ lane' = ToStage(lane, p, "held")
      \/ rows = f.batch /\ lane' = Press(lane, p, row)
  BY DEF submitPointer, ToStage, Press
<1>3. Resting /\ (absent \/ ~(Writable(p) /\ <<p, f.inc>> = Process(p)) \/ p # owner)
        => p # owner
  BY <1>1 DEF Resting, Writable, LaneInv, FlightsSound, Process
<1>4. Tidy(cleared, declined, Ptys) /\ (p # owner => Tends(lane, cleared, declined))
  BY <1>1, ClearAndRedriveWatch
<1>5. Tidy(counted, declined, Ptys) /\ (p = owner => Tends(lane, counted, declined))
  <2>1. WriteAttempted # 0 /\ (p = owner => ~HandsOnAt(lane, p))
    BY Phases DEF HandsOnAt
  <2> QED
    BY <1>1, <2>1, CountAsDeliveredWatch
<1>6. Tidy(kept, declined, Ptys) /\ (p = owner => Tends(lane, kept, declined))
  <2>1. p = owner => ~HandsOnAt(lane, p)
    BY DEF HandsOnAt
  <2> QED
    BY <2>1, KeepInDoubtWatch
<1> HIDE DEF cleared, counted, kept
<1>7. CASE lane' = ToStage(lane, p, "held")
  <2>1. "held" \in FlightStages /\ "held" # "none" /\ "held" # "entering"
    BY DEF FlightStages
  <2>2. Tidy(lane', declined, Ptys) /\ Tends(lane, lane', declined)
    BY <1>1, <1>7, <2>1, ToStageWatch
  <2> QED
    BY <1>1, <2>2 DEF Attentive, Tends
<1>8. CASE rows = f.batch /\ lane' = Press(lane, p, row)
  <2>0. \A m \in rows : lane.row[m].target = <<p, f.inc>> /\ lane.row[m].phase = WriteAttempted
    BY DEF Held
  <2> HIDE DEF rows
  <2>1. Tidy(lane', declined, Ptys) /\ Tends(lane, lane', declined)
    BY <1>1, <1>8, <2>0, PressWatch
  <2> QED
    BY <1>1, <2>1 DEF Attentive, Tends
<1>9. CASE /\ absent \/ ~(Writable(p) /\ <<p, f.inc>> = Process(p)) \/ p # owner
           /\ lane' = cleared
  BY <1>1, <1>3, <1>4, <1>9 DEF Attentive, Tends
<1>10. CASE p = owner /\ lane' \in {counted, kept}
  BY <1>1, <1>5, <1>6, <1>10 DEF Attentive, Tends
<1> QED
  BY <1>2, <1>7, <1>8, <1>9, <1>10

(* The answer to the probe of a flight that is over. *)
LEMMA StrayWatch ==
  ASSUME LaneInv(lane), Tidy(lane, declined, Ptys),
         NEW stray \in lane.strays, NEW absent, StrayAnswered(stray, absent)
  PROVE  Attentive
<1> DEFINE dropped == [lane EXCEPT !.strays = @ \ {stray}]
           freed == clearWatermark(dropped, stray.pty, stray.sequence)
<1>1. /\ declined' = declined /\ lane \in Lane
      /\ lane' \in {dropped, redrive(freed, TRUE)}
  BY DEF StrayAnswered, history, LaneInv
<1>2. /\ dropped \in Lane /\ dropped.row = lane.row /\ dropped.flight = lane.flight
      /\ dropped.mark = lane.mark /\ dropped.parkedOn = lane.parkedOn
      /\ dropped.parked = lane.parked /\ dropped.queued = lane.queued
      /\ dropped.recheck = lane.recheck /\ dropped.asked = lane.asked
  BY <1>1 DEF Lane
<1> HIDE DEF dropped
<1>3. Tidy(dropped, declined, Ptys) /\ Tends(lane, dropped, declined)
  BY <1>2, SameWatch
<1>4. Tidy(freed, declined, Ptys) /\ freed \in Lane
  BY <1>2, <1>3, ClearWatch, ClearFields
<1> HIDE DEF freed
<1>5. /\ Tidy(redrive(freed, TRUE), declined, Ptys)
      /\ Attended(redrive(freed, TRUE), declined)
  BY <1>4, RedriveTrueWatch
<1> QED
  BY <1>1, <1>3, <1>5 DEF Attentive, Tends

-----------------------------------------------------------------------------
(* The handlers that deliver. *)

LEMMA DeliverToOwner ==
  ASSUME World, IncPositive, NEW s, LaneInv(s), NEW told, Tidy(s, told, Ptys),
         NEW settled, NEW known
  PROVE  /\ Tidy(deliver(s, owner, FALSE, settled, known), told, Ptys)
         /\ Resting => Attended(deliver(s, owner, FALSE, settled, known), told)
<1>1. FALSE \in BOOLEAN /\ owner \in Ptys /\ (Resting => Writable(owner))
  BY DEF World, Resting, Writable
<1> QED
  BY <1>1, DeliverWatch

LEMMA DeliverProbed ==
  ASSUME World, IncPositive, NEW s, LaneInv(s), NEW told, Tidy(s, told, Ptys), NEW p \in Ptys,
         NEW settled, NEW known
  PROVE  /\ Tidy(deliver(s, p, TRUE, settled, known), told, Ptys)
         /\ Resting /\ Writable(p) /\ (p = owner \/ Attended(s, told))
            => Attended(deliver(s, p, TRUE, settled, known), told)
<1>1. TRUE \in BOOLEAN
  OBVIOUS
<1> QED
  BY <1>1, DeliverWatch

LEMMA ForHandleWatch ==
  ASSUME World, IncPositive, NEW s, LaneInv(s), NEW told, Tidy(s, told, Ptys),
         NEW settled, NEW known
  PROVE  /\ Tidy(deliverForHandle(s, settled, known), told, Ptys)
         /\ Resting /\ status[owner] = "idle"
            => Attended(deliverForHandle(s, settled, known), told)
BY DeliverToOwner DEF deliverForHandle

LEMMA QueuedWatch ==
  ASSUME World, IncPositive, LaneInv(lane), Tidy(lane, declined, Ptys),
         NEW settled, NEW known, QueuedDelivery(settled, known)
  PROVE  Attentive
<1> DEFINE s == [lane EXCEPT !.queued = @ - 1]
<1>1. /\ lane.queued > 0 /\ lane' = deliverForHandle(s, settled, known)
      /\ declined' = declined /\ lane \in Lane /\ owner \in Ptys
  BY DEF QueuedDelivery, history, LaneInv, World
<1>2. Same(lane, s)
  BY <1>1, Bookkeeping
<1>3. s.parkedOn = lane.parkedOn
  BY <1>1 DEF Lane
<1> HIDE DEF s
<1>4. LaneInv(s) /\ Tidy(s, declined, Ptys)
  BY <1>2, <1>3, SameCore, SameTidy DEF Same
<1> QED
  BY <1>1, <1>4, ForHandleWatch DEF Attentive

LEMMA RepointWatch ==
  ASSUME World, IncPositive, LaneInv(lane), Tidy(lane, declined, Ptys),
         NEW settled, NEW known, repointPendingMessages(settled, known)
  PROVE  /\ Tidy(lane', declined', Ptys)
         /\ Resting /\ status[owner] = "idle" => Attended(lane', declined')
<1>1. lane' = deliverForHandle(lane, settled, known) /\ declined' = declined
  BY DEF repointPendingMessages, history
<1> QED
  BY <1>1, ForHandleWatch

LEMMA RecheckWatch ==
  ASSUME World, IncPositive, LaneInv(lane), Tidy(lane, declined, Ptys),
         NEW p \in Ptys, NEW settled, NEW known, DeliveryRecheck(p, settled, known)
  PROVE  Attentive
<1> DEFINE s == [lane EXCEPT !.recheck[p] = FALSE]
<1>1. /\ lane' = IF p = owner THEN deliver(s, p, FALSE, TRUE, known) ELSE s
      /\ declined' = declined /\ lane \in Lane
  BY DEF DeliveryRecheck, history, LaneInv
<1>2. Same(lane, s)
  BY <1>1, Bookkeeping
<1>3. /\ s.parkedOn = lane.parkedOn /\ s.parked = lane.parked /\ s.queued = lane.queued
      /\ s.asked = lane.asked
      /\ \A q \in Ptys : q # p => s.recheck[q] = lane.recheck[q]
  BY <1>1 DEF Lane
<1> HIDE DEF s
<1>4. LaneInv(s) /\ Tidy(s, declined, Ptys)
  BY <1>2, <1>3, SameCore, SameTidy DEF Same
<1>5. p # owner => Tends(lane, s, declined)
  BY <1>2, <1>3, SameWatch DEF Same, World
<1>6. CASE p = owner
  BY <1>1, <1>4, <1>6, DeliverToOwner DEF Attentive
<1>7. CASE p # owner
  BY <1>1, <1>4, <1>5, <1>7 DEF Attentive, Tends
<1> QED
  BY <1>6, <1>7

(* No title of rest outlives its process. *)
NoneIdlesGone == \A p \in Ptys : proc[p] = "gone" => status[p] # "idle"

LEMMA ProbeWatch ==
  ASSUME World, IncPositive, NoneIdlesGone, LaneInv(lane), Tidy(lane, declined, Ptys),
         NEW p \in Ptys, NEW absent \in BOOLEAN, NEW settled, AbsenceAnswered(p, absent, settled)
  PROVE  Attentive
<1> DEFINE s == [lane EXCEPT !.asked[p] = 0]
           probed == deliver(s, p, TRUE, settled, TRUE)
           told == declined'
<1>1. /\ lane' = IF ~absent /\ status[p] = "idle" THEN probed ELSE s
      /\ lane \in Lane /\ declined \subseteq told
      /\ absent /\ proc[p] = "live" => Unread \subseteq told
  <2>1. /\ lane' = IF ~absent /\ status[p] = "idle" THEN probed ELSE s
        /\ declined' = IF absent /\ proc[p] = "live" THEN declined \cup Unread ELSE declined
    BY Zenon DEF AbsenceAnswered
  <2> HIDE DEF probed, s
  <2> QED
    BY <2>1 DEF LaneInv
<1>2. Same(lane, s)
  BY <1>1, Bookkeeping
<1>3. /\ s.parkedOn = lane.parkedOn /\ s.parked = lane.parked /\ s.queued = lane.queued
      /\ s.recheck = lane.recheck
      /\ \A q \in Ptys : q # p => s.asked[q] = lane.asked[q]
  BY <1>1 DEF Lane
<1> HIDE DEF s, told
<1>4. /\ Tidy(lane, told, Ptys)
      /\ Attended(lane, declined) => Attended(lane, told)
  BY <1>1, AttendedMore
<1>5. LaneInv(s) /\ Tidy(s, told, Ptys)
  BY <1>2, <1>3, <1>4, SameCore, SameTidy DEF Same
<1>6. p # owner => Tends(lane, s, told)
  BY <1>2, <1>3, <1>4, SameWatch DEF Same, World
<1>7. /\ Tidy(probed, told, Ptys)
      /\ Resting /\ Writable(p) /\ (p = owner \/ Attended(s, told)) => Attended(probed, told)
  BY <1>5, DeliverProbed
<1>8. status[p] = "idle" => Writable(p)
  BY DEF NoneIdlesGone, Writable
<1> HIDE DEF probed
<1>9. Tidy(lane', told, Ptys)
  BY <1>1, <1>5, <1>7
<1>10. ASSUME Resting, status[owner] = "idle", Attended(lane, declined)
       PROVE  Attended(lane', told)
  <2>1. CASE ~absent /\ status[p] = "idle"
    BY <1>1, <1>4, <1>6, <1>7, <1>8, <1>10, <2>1 DEF Tends
  <2>2. CASE ~absent /\ status[p] # "idle"
    BY <1>1, <1>4, <1>6, <1>10, <2>2 DEF Tends
  <2>3. CASE absent /\ p = owner
    BY <1>1, <1>10, <2>3 DEF Attended, Informed, Resting
  <2>4. CASE absent /\ p # owner
    BY <1>1, <1>4, <1>6, <1>10, <2>4 DEF Tends
  <2> QED
    BY <2>1, <2>2, <2>3, <2>4
<1> QED
  BY <1>9, <1>10 DEF Attentive, told

LEMMA TitleIdleWatch ==
  ASSUME World, IncPositive, LaneInv(lane), Tidy(lane, declined, Ptys),
         NEW p \in Ptys, NEW settled, NEW known, TitleIdle(p, settled, known)
  PROVE  /\ Tidy(lane', declined', Ptys)
         /\ Resting /\ (p = owner \/ Attended(lane, declined)) => Attended(lane', declined')
<1> DEFINE parked == IF p \in cold THEN deferFlightUntilIdle(lane, p) ELSE lane
           seen == takeDeferredEnter(parked, p)
           set(b) == [seen EXCEPT !.recheck[p] = b]
<1>1. /\ declined' = declined /\ lane \in Lane
      /\ lane' = IF ~settled THEN set(TRUE)
                 ELSE IF p = owner THEN deliver(seen, p, FALSE, TRUE, known) ELSE set(FALSE)
  BY DEF TitleIdle, history, LaneInv
<1>2. /\ LaneInv(parked) /\ parked \in Lane
      /\ Tidy(parked, declined, Ptys) /\ Tends(lane, parked, declined)
  <2>1. LaneInv(deferFlightUntilIdle(lane, p))
    BY DeferKeeps
  <2>2. LaneInv(parked)
    BY <2>1
  <2>3. /\ Tidy(deferFlightUntilIdle(lane, p), declined, Ptys)
        /\ Tends(lane, deferFlightUntilIdle(lane, p), declined)
    BY <1>1, TakeWatch
  <2>4. Tidy(parked, declined, Ptys) /\ Tends(lane, parked, declined)
    BY <2>3 DEF Tends
  <2> QED
    BY <2>2, <2>4 DEF LaneInv
<1> HIDE DEF parked
<1>3. /\ LaneInv(seen) /\ seen \in Lane
      /\ Tidy(seen, declined, Ptys) /\ Tends(lane, seen, declined)
  <2>1. LaneInv(seen)
    BY <1>2, TakeKeeps DEF Keeps
  <2>2. Tidy(seen, declined, Ptys) /\ Tends(parked, seen, declined)
    BY <1>2, TakeWatch
  <2> QED
    BY <1>2, <2>1, <2>2 DEF Tends, LaneInv
<1> HIDE DEF seen
<1>4. \A b \in BOOLEAN :
        /\ set(b).row = seen.row /\ set(b).flight = seen.flight /\ set(b).mark = seen.mark
        /\ set(b).parkedOn = seen.parkedOn /\ set(b).parked = seen.parked
        /\ set(b).queued = seen.queued /\ set(b).asked = seen.asked
        /\ set(b).recheck[p] = b
        /\ \A q \in Ptys : q # p => set(b).recheck[q] = seen.recheck[q]
  BY <1>3 DEF Lane
<1> HIDE DEF set
<1>5. \A b \in BOOLEAN : /\ Tidy(set(b), declined, Ptys)
                         /\ b \/ p # owner => Tends(seen, set(b), declined)
  <2> TAKE b \in BOOLEAN
  <2>1. Tidy(set(b), declined, Ptys)
    BY <1>3, <1>4, SameTidy
  <2>2. b \/ p # owner => (seen.recheck[owner] => set(b).recheck[owner])
    BY <1>4 DEF World
  <2>3. b \/ p # owner => Tends(seen, set(b), declined)
    BY <1>3, <1>4, <2>2, SameWatch
  <2> QED
    BY <2>1, <2>3
<1>6. CASE ~settled
  <2>1. p = owner => Attended(lane', declined)
    BY <1>1, <1>4, <1>6 DEF Attended
  <2> QED
    BY <1>1, <1>3, <1>5, <1>6, <2>1 DEF Tends
<1>7. CASE settled /\ p = owner
  BY <1>1, <1>3, <1>7, DeliverToOwner
<1>8. CASE settled /\ p # owner
  BY <1>1, <1>3, <1>5, <1>8 DEF Tends
<1> QED
  BY <1>6, <1>7, <1>8

(* A terminal's flight is dropped, and its watermark: the mail is offered again. *)
LEMMA RetireWatch ==
  ASSUME World, NEW s, LaneInv(s), NEW told, Tidy(s, told, Ptys), NEW p \in Ptys
  PROVE  LET t == retirePty(s, p)
         IN  /\ Tidy(t, told, Ptys) /\ (p # owner => Tends(s, t, told))
             /\ \A w \in t.mark : w.pty # p
<1> DEFINE f == s.flight[p]
           marks == {w \in s.mark : w.pty = p}
           u == releaseMailboxPointerEnter(s, f.batch, <<p, f.inc>>, {Reserved, WriteAttempted})
           strays == IF f.stage = "probing"
                     THEN u.strays \cup {[pty |-> p, sequence |-> Max(f.batch)]} ELSE u.strays
           dropped == [u EXCEPT !.flight[p] = NoFlight, !.parkedOn[p] = FALSE,
                                !.mark = @ \ marks, !.strays = strays]
           t == retirePty(s, p)
<1>1. /\ LaneInv(u) /\ u \in Lane /\ Tidy(u, told, Ptys) /\ u.mark = s.mark
      /\ p # owner => Tends(s, u, told)
  <2>1. {Reserved, WriteAttempted} \subseteq {Reserved, WriteAttempted}
    OBVIOUS
  <2>2. /\ LaneInv(u) /\ Tidy(u, told, Ptys) /\ u.mark = s.mark
        /\ p # owner => Tends(s, u, told)
    BY <2>1, ReleaseWatch
  <2> QED
    BY <2>2 DEF LaneInv
<1>2. t = IF marks = {} THEN dropped ELSE redrive(dropped, TRUE)
  BY DEF retirePty
<1> HIDE DEF u, t
<1>3. dropped.strays = strays
  BY <1>1 DEF Lane
<1> HIDE DEF strays
<1>4. /\ dropped.row = u.row /\ dropped.parked = u.parked /\ dropped.queued = u.queued
      /\ dropped.recheck = u.recheck /\ dropped.asked = u.asked
      /\ dropped.mark = {w \in s.mark : w.pty # p}
      /\ \A q \in Ptys : q # p => /\ dropped.flight[q] = u.flight[q]
                                  /\ dropped.parkedOn[q] = u.parkedOn[q]
      /\ dropped.flight[p] = NoFlight /\ dropped.parkedOn[p] = FALSE
  BY <1>1 DEF Lane
<1> HIDE DEF dropped
<1>5. \A w \in s.mark : w.pty \in Ptys
  BY DEF LaneInv, Lane, Mark
<1>6. ~HasFlight(dropped, p) /\ \A q \in Ptys : q # p => (HasFlight(dropped, q) <=> HasFlight(u, q))
  BY <1>4 DEF HasFlight, NoFlight
<1>7. Tidy(dropped, told, Ptys)
  <2>1. Landed(dropped, Ptys) /\ ParkedFlies(dropped)
    BY <1>1, <1>4, <1>5, <1>6 DEF Tidy, Landed, ParkedFlies
  <2>2. PointedByMark(dropped)
    BY <1>1, <1>4 DEF Tidy, PointedByMark
  <2>3. Submitted(dropped, told)
    BY <1>1, <1>4, <1>5 DEF Tidy, Submitted
  <2> QED
    BY <2>1, <2>2, <2>3 DEF Tidy
<1>8. p # owner /\ marks = {} => Tends(u, dropped, told)
  <2> HAVE p # owner /\ marks = {}
  <2>1. HandsOn(u) => HandsOn(dropped)
    BY <1>1, <1>4, <1>5 DEF HandsOn
  <2>2. Doubted(u) => Doubted(dropped)
    BY <1>1, <1>4 DEF Doubted
  <2>3. Informed(u, told) => Informed(dropped, told)
    BY <1>4 DEF Informed
  <2> QED
    BY <1>4, <2>1, <2>2, <2>3 DEF Tends, Attended, World
<1>9. CASE marks = {}
  <2>1. p # owner => Tends(s, dropped, told)
    BY <1>1, <1>8, <1>9 DEF Tends
  <2> QED
    BY <1>2, <1>4, <1>7, <1>9, <2>1 DEF t
<1>10. CASE marks # {}
  <2>1. t = [dropped EXCEPT !.parked = FALSE, !.queued = @ + 1]
    BY <1>2, <1>10 DEF redrive
  <2>2. /\ t.row = dropped.row /\ t.flight = dropped.flight /\ t.mark = dropped.mark
        /\ t.parkedOn = dropped.parkedOn /\ t.queued = dropped.queued + 1
    BY <2>1
  <2>3. dropped.queued \in Nat
    BY <1>1, <1>4 DEF Lane
  <2>4. Tidy(t, told, Ptys) /\ t.queued > 0
    BY <1>7, <2>2, <2>3, SameTidy
  <2> QED
    BY <1>4, <2>2, <2>4 DEF Tends, Attended, t
<1> QED
  BY <1>9, <1>10

(* Working output of another terminal's agent settles nothing the coordinator knows by. *)
LEMMA ReleaseForPtyWatch ==
  ASSUME World, NEW s, LaneInv(s), NEW told, Tidy(s, told, Ptys), NEW p \in Ptys,
         \A w \in s.mark : w.pty # p
  PROVE  LET t == releasePendingMailboxPointerForPty(s, p)
         IN  Tidy(t, told, Ptys) /\ (p # owner => Tends(s, t, told))
<1> DEFINE pending == {m \in Mail : s.row[m].phase > 0 /\ s.row[m].target[1] = p}
           reserved == {m \in pending : s.row[m].phase = Reserved}
           u == SetRows(s, pending, TRUE)
           t == SetRows(u, reserved, FALSE)
<1>1. releasePendingMailboxPointerForPty(s, p) = t
  BY DEF releasePendingMailboxPointerForPty
<1>2. s \in Lane /\ Unread \subseteq Mail
  BY UnreadIsMail DEF LaneInv
<1>3. s.mark # {} => Unread \cap pending = {}
  BY DEF Tidy, PointedByMark
<1>4. \A m \in pending : ~s.row[m].delivered /\ (p # owner => s.row[m].target # Process(owner))
  BY DEF LaneInv, RowsSound, Process
<1>5. reserved \subseteq pending
  OBVIOUS
<1> HIDE DEF pending, reserved
<1>6. /\ u \in Lane /\ Tidy(u, told, Ptys) /\ u.mark = s.mark /\ u.flight = s.flight
      /\ u.parkedOn = s.parkedOn /\ u.parked = s.parked /\ u.queued = s.queued
      /\ u.recheck = s.recheck /\ u.asked = s.asked
      /\ \A m \in Mail : m \notin pending => u.row[m] = s.row[m]
  <2>1. Tidy(u, told, Ptys)
    BY <1>2, SettledRowsWatch
  <2>2. TRUE \in BOOLEAN
    OBVIOUS
  <2> QED
    BY <1>2, <2>1, <2>2, SetRowsElse
<1> HIDE DEF u
<1>7. /\ t.mark = u.mark /\ t.flight = u.flight
      /\ t.parkedOn = u.parkedOn /\ t.parked = u.parked /\ t.queued = u.queued
      /\ t.recheck = u.recheck /\ t.asked = u.asked
      /\ \A m \in Mail : m \notin reserved => t.row[m] = u.row[m]
  BY <1>6, SetRowsElse
<1>8. Tidy(t, told, Ptys)
  <2>1. ~hasActiveWatermark(u) \/ Unread \cap reserved = {}
    BY <1>3, <1>5, <1>6 DEF hasActiveWatermark
  <2> QED
    BY <1>6, <2>1, SetRowsWatch
<1> HIDE DEF t
<1>9. p # owner => Tends(s, t, told)
  <2> HAVE p # owner
  <2>1. \A m \in Mail : m \notin pending => t.row[m] = s.row[m]
    BY <1>5, <1>6, <1>7
  <2>2. Informed(s, told) => Informed(t, told)
    BY <1>2, <1>4, <2>1 DEF Informed
  <2> QED
    BY <1>6, <1>7, <2>2 DEF Tends, Attended, HandsOn, Doubted
<1> QED
  BY <1>1, <1>8, <1>9

LEMMA TitleBusyWatch ==
  ASSUME World, LaneInv(lane), Tidy(lane, declined, Ptys),
         NEW p \in Ptys, NEW busy, TitleBusy(p, busy)
  PROVE  /\ Tidy(lane', declined', Ptys)
         /\ p # owner /\ Resting /\ Attended(lane, declined) => Attended(lane', declined')
<1> DEFINE retired == retirePty(lane, p)
           released == releasePendingMailboxPointerForPty(retired, p)
<1>1. /\ declined' = declined /\ lane \in Lane
      /\ lane' \in {lane, deferFlightUntilIdle(lane, p), released}
  BY DEF TitleBusy, history, LaneInv
<1>2. /\ Tidy(deferFlightUntilIdle(lane, p), declined, Ptys)
      /\ Tends(lane, deferFlightUntilIdle(lane, p), declined)
  BY <1>1, TakeWatch
<1>3. LaneInv(retired)
  BY RetireKeeps DEF Keeps
<1>4. /\ Tidy(retired, declined, Ptys) /\ (p # owner => Tends(lane, retired, declined))
      /\ \A w \in retired.mark : w.pty # p
  BY RetireWatch
<1> HIDE DEF retired
<1>5. Tidy(released, declined, Ptys) /\ (p # owner => Tends(retired, released, declined))
  BY <1>3, <1>4, ReleaseForPtyWatch
<1> HIDE DEF released
<1> QED
  BY <1>1, <1>2, <1>4, <1>5 DEF Tends

-----------------------------------------------------------------------------
(* The invariant. *)

(* A check that waits has nothing to read, and neither it nor one just woken is fenced. *)
ChecksCurrent ==
  \A p \in Ptys :
    /\ check[p].stage \in {"waiting", "woken"} => ~Fenced(p)
    /\ check[p].stage = "waiting" => Unread = {}

BeingRead == \E p \in Ptys : check[p].stage \in {"reading", "woken"} /\ ~Fenced(p)

Watched ==
  status[owner] = "idle" /\ Resting => BeingRead \/ repoint \/ Attended(lane, declined)

Watching ==
  IncPositive /\ NoneIdlesGone /\ ChecksCurrent /\ Tidy(lane, declined, Ptys) /\ Watched

LEMMA TidyAgain ==
  ASSUME Tidy(lane', declined', Ptys), UNCHANGED <<arrived, read>>
  PROVE  Tidy(lane, declined, Ptys)'
<1>1. Unread' = Unread
  BY DEF Unread
<1>2. Landed(lane', Ptys) /\ PointedByMark(lane') /\ Submitted(lane', declined')
      /\ ParkedFlies(lane')
  BY DEF Tidy
<1>3. PointedByMark(lane)'
  BY <1>1, <1>2 DEF PointedByMark
<1>4. Submitted(lane, declined)'
  BY <1>1, <1>2 DEF Submitted
<1>5. Landed(lane, Ptys)' /\ ParkedFlies(lane)'
  BY <1>2 DEF Landed, ParkedFlies, HasFlight
<1> QED
  BY <1>3, <1>4, <1>5 DEF Tidy

LEMMA AttendedAgain ==
  ASSUME Attended(lane', declined'), UNCHANGED <<arrived, read, owner>>, inc'[owner] = inc[owner]
  PROVE  Attended(lane, declined)'
<1>1. Unread' = Unread /\ Process(owner)' = Process(owner)
  BY DEF Unread, Process
<1>2. HandsOn(lane') => HandsOn(lane)'
  BY <1>1 DEF HandsOn
<1>3. Doubted(lane') => Doubted(lane)'
  BY <1>1 DEF Doubted
<1>4. Informed(lane', declined') => Informed(lane, declined)'
  BY <1>1 DEF Informed
<1> QED
  BY <1>2, <1>3, <1>4 DEF Attended

(* The mailbox and its reader stay as they are. *)
LEMMA SameReader ==
  ASSUME UNCHANGED <<arrived, reader, check>>
  PROVE  /\ UNCHANGED <<arrived, read, owner>>
         /\ ChecksCurrent => ChecksCurrent'
         /\ BeingRead' <=> BeingRead
         /\ Resting' /\ (proc'[owner] = "live" => proc[owner] = "live") => Resting
<1>1. UNCHANGED <<read, deliveries, standing, owner, generation>>
  BY DEF reader
<1>2. Unread' = Unread /\ Waiters' = Waiters /\ \A p : Fenced(p)' <=> Fenced(p)
  BY <1>1 DEF Unread, Waiters, Fenced
<1>3. Outstanding' = Outstanding
  BY <1>1, <1>2 DEF Outstanding
<1> QED
  BY <1>1, <1>2, <1>3 DEF ChecksCurrent, BeingRead, Resting

(* A step of the lane alone. *)
LEMMA AttentiveStep ==
  ASSUME Watching, Attentive, UNCHANGED <<arrived, reader, check, terminals, repoint>>
  PROVE  Watching'
<1>1. UNCHANGED <<arrived, read, owner, proc, inc, status>>
  BY DEF reader, terminals
<1>2. Tidy(lane, declined, Ptys)'
  BY <1>1, TidyAgain DEF Attentive
<1>3. ChecksCurrent' /\ (BeingRead' <=> BeingRead) /\ (Resting' => Resting)
  BY <1>1, SameReader DEF Watching
<1>4. Attended(lane', declined') => Attended(lane, declined)'
  BY <1>1, AttendedAgain
<1>5. Watched'
  BY <1>1, <1>3, <1>4 DEF Watching, Watched, Attentive
<1>6. IncPositive' /\ NoneIdlesGone'
  BY <1>1 DEF Watching, IncPositive, NoneIdlesGone
<1> QED
  BY <1>2, <1>3, <1>5, <1>6 DEF Watching

LEMMA RepointStepWatch ==
  ASSUME MailboxInv, Watching, NEW settled, NEW known, repointPendingMessages(settled, known)
  PROVE  Watching'
<1>1. /\ UNCHANGED <<arrived, reader, check>>
      /\ UNCHANGED <<arrived, read, owner, proc, inc, status>>
  BY DEF repointPendingMessages, reader, terminals
<1>2. /\ Tidy(lane', declined', Ptys)
      /\ Resting /\ status[owner] = "idle" => Attended(lane', declined')
  BY RepointWatch DEF MailboxInv, Watching
<1>3. Tidy(lane, declined, Ptys)'
  BY <1>1, <1>2, TidyAgain
<1>4. ChecksCurrent' /\ (Resting' => Resting)
  BY <1>1, SameReader DEF Watching
<1>5. Attended(lane', declined') => Attended(lane, declined)'
  BY <1>1, AttendedAgain
<1>6. Watched'
  BY <1>1, <1>2, <1>4, <1>5 DEF Watched
<1>7. IncPositive' /\ NoneIdlesGone'
  BY <1>1 DEF Watching, IncPositive, NoneIdlesGone
<1> QED
  BY <1>3, <1>4, <1>6, <1>7 DEF Watching

(* A terminal shows something: the lane may act on it. *)
LEMMA ShownStep ==
  ASSUME World, Watching, NEW p \in Ptys, UNCHANGED <<arrived, reader, check, proc, inc>>,
         repoint => repoint', NEW shown, status' = [status EXCEPT ![p] = shown],
         proc[p] = "gone" => shown # "idle",
         Tidy(lane', declined', Ptys),
         p = owner /\ shown = "idle" /\ Resting => Attended(lane', declined'),
         p # owner /\ Resting /\ Attended(lane, declined) => Attended(lane', declined')
  PROVE  Watching'
<1>1. UNCHANGED <<arrived, read, owner>> /\ owner \in Ptys
  BY DEF reader, World
<1>2. \A q \in Ptys : status'[q] = IF q = p THEN shown ELSE status[q]
  BY DEF World
<1>3. Tidy(lane, declined, Ptys)'
  BY <1>1, TidyAgain
<1>4. ChecksCurrent' /\ (BeingRead' <=> BeingRead) /\ (Resting' => Resting)
  BY <1>1, SameReader DEF Watching
<1>5. Attended(lane', declined') => Attended(lane, declined)'
  BY <1>1, AttendedAgain
<1>6. Watched'
  BY <1>1, <1>2, <1>4, <1>5 DEF Watching, Watched
<1>7. IncPositive' /\ NoneIdlesGone'
  BY <1>2 DEF Watching, IncPositive, NoneIdlesGone
<1> QED
  BY <1>3, <1>4, <1>6, <1>7 DEF Watching

LEMMA TitlesWatch ==
  ASSUME MailboxInv, Watching, NEW p \in Ptys, NEW settled, NEW known, NEW busy, busy # "idle",
         TitleIdle(p, settled, known) \/ TitleBusy(p, busy) \/ TitleNeutral(p)
  PROVE  Watching'
<1>1. World /\ LaneInv(lane) /\ Tidy(lane, declined, Ptys) /\ IncPositive
  BY DEF MailboxInv, Watching
<1>2. CASE TitleIdle(p, settled, known)
  <2>1. /\ UNCHANGED <<arrived, reader, check, proc, inc>> /\ repoint' = repoint
        /\ status' = [status EXCEPT ![p] = "idle"] /\ proc[p] = "live"
    BY <1>2 DEF TitleIdle
  <2>2. /\ Tidy(lane', declined', Ptys)
        /\ Resting /\ (p = owner \/ Attended(lane, declined)) => Attended(lane', declined')
    BY <1>1, <1>2, TitleIdleWatch
  <2> QED
    BY <1>1, <2>1, <2>2, ShownStep
<1>3. CASE TitleBusy(p, busy)
  <2>1. /\ UNCHANGED <<arrived, reader, check, proc, inc>> /\ repoint' = repoint
        /\ status' = [status EXCEPT ![p] = busy]
    BY <1>3 DEF TitleBusy
  <2>2. /\ Tidy(lane', declined', Ptys)
        /\ p # owner /\ Resting /\ Attended(lane, declined) => Attended(lane', declined')
    BY <1>1, <1>3, TitleBusyWatch
  <2> QED
    BY <1>1, <2>1, <2>2, ShownStep
<1>4. CASE TitleNeutral(p)
  <2>1. /\ UNCHANGED <<arrived, reader, check, proc, inc>> /\ repoint' = repoint
        /\ status' = [status EXCEPT ![p] = "none"] /\ lane' = lane /\ declined' = declined
    BY <1>4 DEF TitleNeutral, history
  <2> QED
    BY <1>1, <2>1, ShownStep
<1> QED
  BY <1>2, <1>3, <1>4

(* The process of a terminal changes: the coordinator's is not one at rest. *)
LEMMA ProcessStep ==
  ASSUME World, Watching, NEW p \in Ptys, UNCHANGED <<arrived, reader, check, declined>>,
         repoint => repoint',
         \A q \in Ptys : q # p => /\ proc'[q] = proc[q] /\ status'[q] = status[q]
                                  /\ inc'[q] = inc[q],
         inc'[p] > 0, proc'[p] = "gone" => status'[p] # "idle",
         Tidy(lane', declined, Ptys),
         p = owner => status'[p] # "idle" \/ proc'[p] # "live",
         p # owner => Tends(lane, lane', declined)
  PROVE  Watching'
<1>1. UNCHANGED <<arrived, read, owner>> /\ owner \in Ptys
  BY DEF reader, World
<1>2. Tidy(lane, declined, Ptys)'
  BY <1>1, TidyAgain
<1>3. ChecksCurrent' /\ (BeingRead' <=> BeingRead)
      /\ (Resting' /\ (proc'[owner] = "live" => proc[owner] = "live") => Resting)
  BY SameReader DEF Watching
<1>4. p # owner /\ Attended(lane', declined') => Attended(lane, declined)'
  BY <1>1, AttendedAgain
<1>5. Watched'
  <2> SUFFICES ASSUME status'[owner] = "idle", Resting'
               PROVE  BeingRead' \/ repoint' \/ Attended(lane, declined)'
    BY <1>1 DEF Watched
  <2>1. proc'[owner] = "live"
    BY <1>1 DEF Resting
  <2>2. p # owner
    BY <2>1
  <2>3. Resting /\ status[owner] = "idle"
    BY <1>1, <1>3, <2>2
  <2> QED
    BY <1>1, <1>3, <1>4, <2>2, <2>3 DEF Watching, Watched, Tends
<1>6. IncPositive' /\ NoneIdlesGone'
  BY DEF Watching, IncPositive, NoneIdlesGone
<1> QED
  BY <1>2, <1>3, <1>5, <1>6 DEF Watching

LEMMA ProcessesWatch ==
  ASSUME MailboxInv, Watching, NEW p \in Ptys,
         ProcessDies(p) \/ PtyExit(p) \/ Respawn(p)
  PROVE  Watching'
<1>1. /\ World /\ LaneInv(lane) /\ Tidy(lane, declined, Ptys) /\ inc[p] > 0 /\ inc[p] \in Nat
      /\ Tends(lane, lane, declined)
  BY DEF MailboxInv, Watching, IncPositive, World, Tends
<1>2. CASE ProcessDies(p)
  <2>1. /\ UNCHANGED <<arrived, reader, check, declined, inc, status, repoint, lane>>
        /\ proc' = [proc EXCEPT ![p] = "dying"]
    BY <1>2 DEF ProcessDies, history
  <2>2. proc'[p] = "dying" /\ \A q \in Ptys : q # p => proc'[q] = proc[q]
    BY <1>1, <2>1 DEF World
  <2> QED
    BY <1>1, <2>1, <2>2, ProcessStep
<1>3. CASE PtyExit(p)
  <2>1. /\ UNCHANGED <<arrived, reader, check, declined, inc>> /\ (repoint => repoint')
        /\ proc' = [proc EXCEPT ![p] = "gone"] /\ status' = [status EXCEPT ![p] = "other"]
        /\ lane' = retirePty(lane, p)
    BY <1>3 DEF PtyExit, history
  <2>2. /\ status'[p] = "other"
        /\ \A q \in Ptys : q # p => proc'[q] = proc[q] /\ status'[q] = status[q]
    BY <1>1, <2>1 DEF World
  <2>3. Tidy(lane', declined, Ptys) /\ (p # owner => Tends(lane, lane', declined))
    BY <1>1, <2>1, RetireWatch
  <2> QED
    BY <1>1, <2>1, <2>2, <2>3, ProcessStep
<1>4. CASE Respawn(p)
  <2>1. /\ UNCHANGED <<arrived, reader, check, declined, status, repoint, lane>>
        /\ proc[p] = "gone" /\ proc' = [proc EXCEPT ![p] = "live"]
        /\ inc' = [inc EXCEPT ![p] = @ + 1]
    BY <1>4 DEF Respawn, history
  <2>2. /\ inc'[p] > 0 /\ proc'[p] = "live"
        /\ \A q \in Ptys : q # p => proc'[q] = proc[q] /\ inc'[q] = inc[q]
    BY <1>1, <2>1 DEF World
  <2>3. status'[p] # "idle"
    BY <2>1 DEF Watching, NoneIdlesGone
  <2> QED
    BY <1>1, <2>1, <2>2, <2>3, ProcessStep
<1> QED
  BY <1>2, <1>3, <1>4

(* Nothing that matters here changes. *)
LEMMA StillWatching ==
  ASSUME Watching,
         UNCHANGED <<arrived, reader, check, proc, inc, status, repoint, lane, declined>>
  PROVE  Watching'
<1>1. UNCHANGED <<arrived, read, owner>>
  BY DEF reader
<1>2. Tidy(lane, declined, Ptys)'
  BY <1>1, TidyAgain DEF Watching
<1>3. ChecksCurrent' /\ (BeingRead' <=> BeingRead) /\ (Resting' => Resting)
  BY SameReader DEF Watching
<1>4. Attended(lane, declined) => Attended(lane, declined)'
  BY <1>1, AttendedAgain
<1>5. Watched'
  BY <1>1, <1>3, <1>4 DEF Watching, Watched
<1>6. IncPositive' /\ NoneIdlesGone'
  BY DEF Watching, IncPositive, NoneIdlesGone
<1> QED
  BY <1>2, <1>3, <1>5, <1>6 DEF Watching

(* A message is for the check that waits, or a delivery is queued. *)
LEMMA ArrivalWatch ==
  ASSUME MailboxInv, Watching, ReaderInv, notifyMessageArrived
  PROVE  Watching'
<1>1. /\ arrived' = arrived + 1
      /\ check' = [p \in Ptys |-> IF p \in Waiters THEN AtStage(p, "woken") ELSE check[p]]
      /\ lane' = IF Waiters = {} THEN [lane EXCEPT !.queued = @ + 1] ELSE lane
      /\ UNCHANGED <<read, owner, generation, proc, inc, status, repoint, declined>>
  BY DEF notifyMessageArrived, reader, terminals, history
<1>2. /\ World /\ LaneInv(lane) /\ lane \in Lane /\ arrived \in Nat /\ arrived + 1 \notin 1..arrived
      /\ Unread' \subseteq Unread \cup {arrived + 1}
  BY <1>1, UnreadIsMail DEF MailboxInv, LaneInv, Unread
<1>3. /\ lane'.row = lane.row /\ lane'.flight = lane.flight /\ lane'.mark = lane.mark
      /\ lane'.parkedOn = lane.parkedOn
      /\ Waiters = {} => lane'.queued = lane.queued + 1
  BY <1>1, <1>2 DEF Lane
<1>4. Tidy(lane', declined, Ptys)
  BY <1>3, SameTidy DEF Watching
<1>5. \A p \in Ptys : check'[p] = IF p \in Waiters THEN AtStage(p, "woken") ELSE check[p]
  BY <1>1
<1>6. Tidy(lane, declined, Ptys)'
  <2>1. Landed(lane, Ptys)' /\ ParkedFlies(lane)'
    BY <1>4 DEF Tidy, Landed, ParkedFlies, HasFlight
  <2>2. PointedByMark(lane)'
    <3> SUFFICES ASSUME NEW w \in lane'.mark, NEW m \in Unread', lane'.row[m].phase > 0
                 PROVE  lane'.row[m].target[1] = w.pty
      BY DEF PointedByMark
    <3>1. m \in Mail
      <4>1. arrived + 1 <= MaxMail /\ m \in 1..(arrived + 1) /\ MaxMail \in Nat
        BY <1>1, <1>2, MailboxAssumption DEF notifyMessageArrived, Unread
      <4> QED
        BY <1>2, <4>1 DEF Mail
    <3>2. m <= arrived
      BY <1>2, <1>3, <3>1 DEF LaneInv, RowsSound
    <3>3. m \in Unread
      BY <1>2, <3>2
    <3> QED
      BY <1>3, <3>3 DEF Watching, Tidy, PointedByMark
  <2>3. Submitted(lane, declined)'
    <3> SUFFICES ASSUME NEW w \in lane'.mark, w.active,
                        lane'.flight[w.pty].stage = "entering",
                        NEW m \in lane'.flight[w.pty].batch \cap Unread'
                 PROVE  \/ lane'.row[m].delivered \/ m \in declined'
                        \/ /\ lane'.row[m].target = <<w.pty, lane'.flight[w.pty].inc>>
                           /\ lane'.row[m].phase = EnterAttempted
      BY DEF Submitted
    <3>1. w \in lane.mark /\ w.pty \in Ptys
      BY <1>2, <1>3 DEF Lane, Mark
    <3>2. m \in 1..arrived
      BY <1>2, <1>3, <3>1 DEF LaneInv, FlightsSound
    <3>3. m \in lane.flight[w.pty].batch \cap Unread
      BY <1>2, <1>3, <3>2
    <3> QED
      BY <1>1, <1>3, <3>1, <3>3 DEF Watching, Tidy, Submitted
  <2> QED
    BY <2>1, <2>2, <2>3 DEF Tidy
<1>7. \A p \in Ptys : Fenced(p)' <=> Fenced(p)
  BY <1>1, <1>5 DEF Fenced, AtStage
<1>8. \A p \in Ptys : /\ p \in Waiters => check'[p].stage = "woken"
                      /\ p \notin Waiters => check'[p].stage = check[p].stage
  <2> TAKE p \in Ptys
  <2>1. p \in Waiters => check'[p] = AtStage(p, "woken")
    BY <1>5
  <2>2. p \notin Waiters => check'[p] = check[p]
    BY <1>5
  <2> QED
    BY <2>1, <2>2 DEF AtStage
<1>9. ChecksCurrent'
  <2>1. \A p \in Ptys : check'[p].stage # "waiting"
    BY <1>8 DEF Waiters
  <2>2. \A p \in Ptys : check'[p].stage = "woken" => ~Fenced(p)
    BY <1>8 DEF Watching, ChecksCurrent, Waiters
  <2> QED
    BY <1>7, <2>1, <2>2 DEF ChecksCurrent
<1>10. Watched'
  <2>1. CASE Waiters = {}
    <3>1. lane'.queued > 0
      BY <1>2, <1>3, <2>1 DEF Lane
    <3> QED
      BY <3>1 DEF Watched, Attended
  <2>2. CASE Waiters # {}
    <3>1. PICK p \in Ptys : check[p].stage = "waiting"
      BY <2>2 DEF Waiters
    <3>2. check'[p].stage = "woken" /\ ~Fenced(p)'
      BY <1>7, <1>8, <3>1 DEF Watching, ChecksCurrent, Waiters
    <3> QED
      BY <3>2 DEF Watched, BeingRead
  <2> QED
    BY <2>1, <2>2
<1>11. IncPositive' /\ NoneIdlesGone'
  BY <1>1 DEF Watching, IncPositive, NoneIdlesGone
<1> QED
  BY <1>6, <1>9, <1>10, <1>11 DEF Watching
-----------------------------------------------------------------------------
(* The reader. *)

(* One check moves: it leaves a reading only with nothing left for it to read. *)
LEMMA CheckMoves ==
  ASSUME Watching, NEW p \in Ptys, check \in [Ptys -> CheckRow], NEW c,
         UNCHANGED <<arrived, reader, proc, inc, status, repoint, lane, declined>>,
         check' = [check EXCEPT ![p] = c],
         c.stage # "woken", c.stage = "waiting" => Unread = {} /\ c.generation = generation,
         check[p].stage \in {"reading", "woken"}
           => Fenced(p) \/ Outstanding # {} \/ Unread = {}
  PROVE  Watching'
<1>1. UNCHANGED <<arrived, read, deliveries, standing, owner, generation>>
  BY DEF reader
<1>2. Unread' = Unread
  BY <1>1 DEF Unread
<1>3. Outstanding' = Outstanding
  BY <1>1, <1>2 DEF Outstanding
<1>4. \A q \in Ptys : check'[q] = IF q = p THEN c ELSE check[q]
  OBVIOUS
<1>5. \A q \in Ptys : q # p => (Fenced(q)' <=> Fenced(q))
  BY <1>1, <1>4 DEF Fenced
<1>6. Tidy(lane, declined, Ptys)'
  BY <1>1, TidyAgain DEF Watching
<1>7. ChecksCurrent'
  <2> SUFFICES ASSUME NEW q \in Ptys
               PROVE  /\ check'[q].stage \in {"waiting", "woken"} => ~Fenced(q)'
                      /\ check'[q].stage = "waiting" => Unread = {}
    BY <1>2 DEF ChecksCurrent
  <2>1. CASE q = p
    BY <1>1, <1>4, <2>1 DEF Fenced
  <2>2. CASE q # p
    BY <1>4, <1>5, <2>2 DEF Watching, ChecksCurrent
  <2> QED
    BY <2>1, <2>2
<1>8. Unread # {} => Waiters = {}
  BY DEF Watching, ChecksCurrent, Waiters
<1>9. Resting' => Resting
  BY <1>1, <1>2, <1>3, <1>8 DEF Resting
<1>10. BeingRead /\ Resting => BeingRead'
  <2> SUFFICES ASSUME BeingRead, Resting PROVE BeingRead'
    OBVIOUS
  <2>1. PICK q \in Ptys : check[q].stage \in {"reading", "woken"} /\ ~Fenced(q)
    BY DEF BeingRead
  <2>2. q # p
    BY <2>1 DEF Resting
  <2> QED
    BY <1>4, <1>5, <2>1, <2>2 DEF BeingRead
<1>11. Attended(lane, declined) => Attended(lane, declined)'
  BY <1>1, AttendedAgain
<1>12. Watched'
  BY <1>1, <1>9, <1>10, <1>11 DEF Watching, Watched
<1>13. IncPositive' /\ NoneIdlesGone'
  BY DEF Watching, IncPositive, NoneIdlesGone
<1> QED
  BY <1>6, <1>7, <1>12, <1>13 DEF Watching

LEMMA ChecksWatch ==
  ASSUME ReaderInv, Watching, NEW p \in Ptys,
         (\E ack \in {0, Len(deliveries)} : CheckBegins(p, ack)) \/ WaitEnds(p)
  PROVE  Watching'
<1>1. UNCHANGED <<arrived, reader, proc, inc, status, repoint, lane, declined>>
  BY DEF CheckBegins, WaitEnds, terminals, history
<1>2. check \in [Ptys -> CheckRow]
  BY DEF ReaderInv, ReaderType
<1>3. PICK c : /\ check' = [check EXCEPT ![p] = c] /\ c.stage \notin {"woken", "waiting"}
               /\ check[p].stage \notin {"reading", "woken"}
  <2>1. CASE WaitEnds(p)
    BY <2>1 DEF WaitEnds, Ends, NoCheck
  <2>2. CASE \E ack \in {0, Len(deliveries)} : CheckBegins(p, ack)
    <3>1. PICK ack : CheckBegins(p, ack)
      BY <2>2
    <3>2. /\ check[p].stage = "none"
          /\ check' = [check EXCEPT ![p] =
                         [stage |-> "routing", generation |-> generation, ack |-> ack]]
      BY <3>1 DEF CheckBegins
    <3>3. [stage |-> "routing", generation |-> generation, ack |-> ack].stage = "routing"
      OBVIOUS
    <3> QED
      BY <3>2, <3>3
  <2> QED
    BY <2>1, <2>2
<1> QED
  BY <1>1, <1>2, <1>3, CheckMoves

(* A reading that opens a Delivery hands the mail over. *)
LEMMA DeliveryWatch ==
  ASSUME ReaderInv, Watching, NEW p \in Ptys, getOrCreateMailboxDelivery(p)
  PROVE  Watching'
<1> DEFINE fresh == [batch |-> Unread, generation |-> check[p].generation, reader |-> p]
           n == Len(deliveries) + 1
<1>1. /\ UNCHANGED <<arrived, read, owner, generation, proc, inc, status, repoint, lane, declined>>
      /\ check[p].stage \in {"reading", "woken"} /\ check \in [Ptys -> CheckRow]
  BY DEF getOrCreateMailboxDelivery, terminals, history, ReaderInv, ReaderType
<1>2. \/ check' = [check EXCEPT ![p] = NoCheck]
      \/ ~Fenced(p) /\ Unread = {} /\ check' = [check EXCEPT ![p] = AtStage(p, "waiting")]
  BY Zenon DEF getOrCreateMailboxDelivery, Ends, Proceeds
<1>3. CASE Fenced(p) \/ Outstanding # {} \/ Unread = {}
  <2>1. UNCHANGED <<deliveries, standing>>
    BY <1>3 DEF getOrCreateMailboxDelivery
  <2>2. UNCHANGED reader
    BY <1>1, <2>1 DEF reader
  <2>3. CASE check' = [check EXCEPT ![p] = NoCheck]
    <3>1. NoCheck.stage = "none"
      BY DEF NoCheck
    <3> QED
      BY <1>1, <1>3, <2>2, <2>3, <3>1, CheckMoves
  <2>4. CASE ~Fenced(p) /\ Unread = {} /\ check' = [check EXCEPT ![p] = AtStage(p, "waiting")]
    <3>1. AtStage(p, "waiting").stage = "waiting" /\ AtStage(p, "waiting").generation = generation
      BY <2>4 DEF AtStage, Fenced
    <3> QED
      BY <1>1, <1>3, <2>2, <2>4, <3>1, CheckMoves
  <2> QED
    BY <1>2, <2>3, <2>4
<1>4. CASE ~Fenced(p) /\ Outstanding = {} /\ Unread # {}
  <2>1. /\ deliveries' = Append(deliveries, fresh)
        /\ standing' = Append(standing, "outstanding")
        /\ check' = [check EXCEPT ![p] = NoCheck]
    BY <1>2, <1>4 DEF getOrCreateMailboxDelivery
  <2>2. Unread' = Unread
    BY <1>1 DEF Unread
  <2>3. Outstanding' # {}
    <3>1. /\ deliveries'[n] = fresh /\ n \in DOMAIN deliveries' /\ standing'[n] = "outstanding"
      <4>1. /\ deliveries \in Seq(DeliveryRow) /\ standing \in Seq(Standing)
            /\ Len(standing) = Len(deliveries)
        BY DEF ReaderInv, ReaderType
      <4> HIDE DEF fresh
      <4> QED
        BY <2>1, <4>1
    <3>2. deliveries'[n].batch \cap Unread' # {}
      BY <1>4, <2>2, <3>1
    <3>3. n \in Outstanding'
      BY <3>1, <3>2 DEF Outstanding
    <3> QED
      BY <3>3
  <2>4. Watched'
    BY <2>3 DEF Watched, Resting
  <2>5. ChecksCurrent'
    <3>1. \A q \in Ptys : check'[q] = IF q = p THEN NoCheck ELSE check[q]
      BY <1>1, <2>1
    <3>2. \A q \in Ptys : q # p => (Fenced(q)' <=> Fenced(q))
      BY <1>1, <3>1 DEF Fenced
    <3> QED
      BY <2>2, <3>1, <3>2 DEF ChecksCurrent, Watching, NoCheck
  <2>6. Tidy(lane, declined, Ptys)'
    BY <1>1, TidyAgain DEF Watching
  <2>7. IncPositive' /\ NoneIdlesGone'
    BY <1>1 DEF Watching, IncPositive, NoneIdlesGone
  <2> QED
    BY <2>4, <2>5, <2>6, <2>7 DEF Watching
<1> QED
  BY <1>3, <1>4
(* An acknowledgment takes mail away; the check that made it reads on. *)
LEMMA AcknowledgeWatch ==
  ASSUME ReaderInv, AckKnown, MailboxInv, Watching, NEW p \in Ptys,
         acknowledgeMailboxDelivery(p)
  PROVE  Watching'
<1> DEFINE d == check[p].ack
           batch == deliveries[d].batch
           valid == ~Fenced(p) /\ (d = 0 \/ (deliveries[d].generation = generation
                                             /\ standing[d] # "fenced"))
<1>1. /\ UNCHANGED <<arrived, deliveries, owner, generation, proc, inc, status, repoint, declined>>
      /\ check[p].stage = "routing" /\ check \in [Ptys -> CheckRow]
      /\ valid => check' = [check EXCEPT ![p] = AtStage(p, "reading")]
      /\ ~valid => /\ check' = [check EXCEPT ![p] = NoCheck]
                   /\ UNCHANGED <<read, lane, standing>>
      /\ \/ UNCHANGED <<read, lane>>
         \/ read' = read \cup batch /\ lane' = forgetReservations(lane, batch)
  BY DEF acknowledgeMailboxDelivery, terminals, history, ReaderInv, ReaderType, Ends, Proceeds
<1>2. CASE ~valid
  <2>1. UNCHANGED reader /\ NoCheck.stage = "none"
    BY <1>1, <1>2 DEF reader, NoCheck
  <2> QED
    BY <1>1, <1>2, <2>1, CheckMoves
<1>3. CASE valid
  <2>0. ~Fenced(p)
    BY <1>3
  <2>1. /\ World /\ LaneInv(lane) /\ lane \in Lane /\ Unread \subseteq Mail
    BY UnreadIsMail DEF MailboxInv, LaneInv
  <2>2. Unread' \subseteq Unread
    BY <1>1 DEF Unread
  <2>3. /\ lane'.flight = lane.flight /\ lane'.mark = lane.mark /\ lane'.parkedOn = lane.parkedOn
        /\ \A m \in Unread' : lane'.row[m] = lane.row[m]
    <3>1. CASE UNCHANGED <<read, lane>>
      BY <3>1
    <3>2. CASE read' = read \cup batch /\ lane' = forgetReservations(lane, batch)
      <4>1. Unread' \cap batch = {}
        BY <3>2 DEF Unread
      <4> HIDE DEF batch
      <4>2. /\ lane'.flight = lane.flight /\ lane'.mark = lane.mark
            /\ lane'.parkedOn = lane.parkedOn
            /\ lane'.row = [m \in Mail |->
                 IF m \in batch
                 THEN [lane.row[m] EXCEPT !.phase = 0, !.target = NoProcess] ELSE lane.row[m]]
        BY <2>1, <3>2 DEF forgetReservations, Lane
      <4> QED
        BY <2>1, <2>2, <4>1, <4>2
    <3> QED
      BY <1>1, <3>1, <3>2
  <2>4. Tidy(lane, declined, Ptys)'
    <3>1. Landed(lane, Ptys)' /\ ParkedFlies(lane)'
      BY <2>3 DEF Watching, Tidy, Landed, ParkedFlies, HasFlight
    <3>2. PointedByMark(lane)'
      BY <2>2, <2>3 DEF Watching, Tidy, PointedByMark
    <3>3. Submitted(lane, declined)'
      BY <1>1, <2>2, <2>3 DEF Watching, Tidy, Submitted
    <3> QED
      BY <3>1, <3>2, <3>3 DEF Tidy
  <2>5. \A q \in Ptys : check'[q] = IF q = p THEN AtStage(p, "reading") ELSE check[q]
    BY <1>1, <1>3
  <2>6. \A q \in Ptys : Fenced(q)' <=> Fenced(q)
    BY <1>1, <2>5 DEF Fenced, AtStage
  <2>7. check'[p].stage = "reading"
    BY <2>5 DEF AtStage
  <2>8. Watched'
    BY <2>0, <2>6, <2>7 DEF Watched, BeingRead
  <2>9. ChecksCurrent'
    BY <2>2, <2>5, <2>6, <2>7 DEF Watching, ChecksCurrent
  <2>10. IncPositive' /\ NoneIdlesGone'
    BY <1>1 DEF Watching, IncPositive, NoneIdlesGone
  <2> QED
    BY <2>4, <2>8, <2>9, <2>10 DEF Watching
<1> QED
  BY <1>2, <1>3

(* A coordinator that has just bound the Run is at work. *)
LEMMA BindWatch ==
  ASSUME MailboxInv, Watching, Drained, NEW p \in Ptys, bindRun(p)
  PROVE  Watching'
<1>1. /\ UNCHANGED <<arrived, read, proc, inc, status, repoint, lane, declined>>
      /\ owner' = p /\ status[p] # "idle"
      /\ check' = [q \in Ptys |-> IF q \in Waiters THEN NoCheck ELSE check[q]]
  BY DEF bindRun, terminals, history
<1>2. \A q \in Ptys : check'[q].stage \notin {"waiting", "woken"}
  BY <1>1 DEF Waiters, Drained, NoCheck
<1>3. ChecksCurrent' /\ Watched'
  BY <1>1, <1>2 DEF ChecksCurrent, Watched
<1>4. Tidy(lane, declined, Ptys)'
  BY <1>1, TidyAgain DEF Watching
<1>5. IncPositive' /\ NoneIdlesGone'
  BY <1>1 DEF Watching, IncPositive, NoneIdlesGone
<1> QED
  BY <1>3, <1>4, <1>5 DEF Watching

LEMMA EmptyTidy ==
  ASSUME lane.mark = {}, \A p \in Ptys : ~lane.parkedOn[p]
  PROVE  Tidy(lane, declined, Ptys)
BY DEF Tidy, Landed, PointedByMark, Submitted, ParkedFlies

(* After a restart no terminal is known to be at rest. *)
LEMMA RestartWatch ==
  ASSUME MailboxInv, Watching, NEW torn, Restart(torn)
  PROVE  Watching'
<1>1. /\ \A p \in Ptys : check'[p].stage = "none" /\ status'[p] = "other"
      /\ UNCHANGED <<owner, inc>> /\ owner \in Ptys
  BY DEF Restart, NoCheck, reader, MailboxInv, World
<1>2. lane'.mark = {} /\ \A p \in Ptys : ~lane'.parkedOn[p]
  BY DEF Restart
<1>3. Tidy(lane, declined, Ptys)'
  BY <1>2 DEF Tidy, Landed, PointedByMark, Submitted, ParkedFlies
<1>4. ChecksCurrent' /\ Watched' /\ NoneIdlesGone'
  BY <1>1 DEF ChecksCurrent, Watched, NoneIdlesGone
<1>5. IncPositive'
  BY <1>1 DEF Watching, IncPositive
<1> QED
  BY <1>3, <1>4, <1>5 DEF Watching

LEMMA WatchInit == Init => Watching
<1> SUFFICES ASSUME Init PROVE Watching
  OBVIOUS
<1>1. /\ \A p \in Ptys : /\ check[p].stage = "none" /\ status[p] = "other"
                         /\ proc[p] = "live" /\ inc[p] = 1
      /\ owner \in Ptys /\ lane.mark = {} /\ \A p \in Ptys : ~lane.parkedOn[p]
  BY DEF Init, NoCheck
<1>2. Tidy(lane, declined, Ptys)
  BY <1>1, EmptyTidy
<1>3. ChecksCurrent /\ Watched /\ NoneIdlesGone /\ IncPositive
  BY <1>1 DEF ChecksCurrent, Watched, NoneIdlesGone, IncPositive
<1> QED
  BY <1>2, <1>3 DEF Watching

LEMMA WatchNext == ReaderInv /\ AckKnown /\ MailboxInv /\ Watching /\ [Next]_vars => Watching'
<1> SUFFICES ASSUME ReaderInv, AckKnown, MailboxInv, Watching, [Next]_vars PROVE Watching'
  OBVIOUS
<1>0. /\ World /\ IncPositive /\ NoneIdlesGone /\ LaneInv(lane) /\ Tidy(lane, declined, Ptys)
  BY DEF MailboxInv, Watching
<1>1. ASSUME NEW settled, NEW known, QueuedDelivery(settled, known) PROVE Watching'
  <2>1. Attentive
    BY <1>0, <1>1, QueuedWatch
  <2> QED
    BY <1>1, <2>1, AttentiveStep, Zenon DEF QueuedDelivery
<1>2. ASSUME NEW p \in Ptys, NEW settled, NEW known,
             \/ DeliveryRecheck(p, settled, known)
             \/ \E outcome \in Outcomes :
                  \/ \E enterless \in BOOLEAN :
                       finishPointerWrite(p, outcome, enterless, settled, known)
                  \/ finishEnterWrite(p, outcome, settled, known)
             \/ \E absent \in BOOLEAN : submitPointer(p, absent, settled, known)
             \/ \E absent \in BOOLEAN : AbsenceAnswered(p, absent, settled)
             \/ EnterTimer(p)
      PROVE  Watching'
  <2>1. Attentive
    BY <1>0, <1>2, RecheckWatch, PointerWriteWatch, EnterWriteWatch, SubmitWatch, ProbeWatch,
       TimerWatch, Zenon
  <2>2. UNCHANGED <<arrived, reader, check, terminals, repoint>>
    BY <1>2, Zenon DEF DeliveryRecheck, finishPointerWrite, finishEnterWrite, submitPointer,
       AbsenceAnswered, EnterTimer
  <2> QED
    BY <2>1, <2>2, AttentiveStep
<1>3. ASSUME NEW stray \in lane.strays, NEW absent, StrayAnswered(stray, absent) PROVE Watching'
  <2>1. Attentive
    BY <1>0, <1>3, StrayWatch
  <2> QED
    BY <1>3, <2>1, AttentiveStep, Zenon DEF StrayAnswered
<1>4. ASSUME NEW p \in Ptys, getOrCreateMailboxDelivery(p) PROVE Watching'
  BY <1>4, DeliveryWatch
<1>5. ASSUME NEW p \in Ptys,
             \/ (\E ack \in {0, Len(deliveries)} : CheckBegins(p, ack)) \/ WaitEnds(p)
             \/ acknowledgeMailboxDelivery(p)
             \/ TitleNeutral(p) \/ (\E busy \in {"working", "other"} : TitleBusy(p, busy))
             \/ (\E settled, known \in BOOLEAN : TitleIdle(p, settled, known))
             \/ ProcessDies(p) \/ PtyExit(p) \/ Respawn(p)
      PROVE  Watching'
  <2>1. "working" # "idle" /\ "other" # "idle"
    OBVIOUS
  <2>2. CASE TitleNeutral(p) \/ \E settled, known \in BOOLEAN : TitleIdle(p, settled, known)
    BY <2>1, <2>2, TitlesWatch, Zenon
  <2>3. CASE \E busy \in {"working", "other"} : TitleBusy(p, busy)
    <3>1. PICK busy \in {"working", "other"} : TitleBusy(p, busy)
      BY <2>3
    <3>2. busy # "idle"
      OBVIOUS
    <3> QED
      BY <3>1, <3>2, TitlesWatch, Zenon
  <2> QED
    BY <1>5, <2>2, <2>3, ChecksWatch, AcknowledgeWatch, ProcessesWatch, Zenon
<1>6. ASSUME NEW p \in Ptys, markPtyColdParked(p) \/ clearPtyColdParked(p) PROVE Watching'
  <2>1. UNCHANGED <<arrived, reader, check, proc, inc, status, repoint, lane, declined>>
    BY <1>6, Zenon DEF markPtyColdParked, clearPtyColdParked, history
  <2> QED
    BY <2>1, StillWatching
<1>7. CASE Microtask
  BY <1>1, <1>4, <1>7, Zenon DEF Microtask
<1>8. CASE Drained /\ Turn
  <2>1. CASE LaneStep
    BY <1>1, <1>2, <1>3, <1>5, <1>6, <2>1, RepointStepWatch, Zenon DEF LaneStep
  <2> QED
    BY <1>4, <1>5, <1>8, <2>1, TurnSplits, ArrivalWatch, BindWatch, RestartWatch, Zenon
       DEF TurnKinds
<1>9. CASE UNCHANGED vars
  <2>1. UNCHANGED <<arrived, reader, check, proc, inc, status, repoint, lane, declined>>
    BY <1>9 DEF vars, terminals, history
  <2> QED
    BY <2>1, StillWatching
<1> QED
  BY <1>7, <1>8, <1>9 DEF Next

(* A coordinator at rest with mail it was not told of is not forgotten: whichever way mail,
   checks, titles, exits, restarts, takeovers and failed writes interleave, something that
   will look at its mailbox is under way, or a check that is not fenced. *)
THEOREM CoordinatorIsNotForgotten == Spec => []NobodyForgotten
<1>1. ASSUME MailboxInv, Watching PROVE NobodyForgotten
  <2> SUFFICES ASSUME status[owner] = "idle", proc[owner] = "live", Untold, Outstanding = {}
               PROVE  \/ \E p \in Ptys : HasFlight(lane, p) \/ (check[p].stage # "none"
                                                                 /\ ~Fenced(p))
                      \/ lane.queued > 0 \/ repoint \/ lane.recheck[owner]
                      \/ lane.asked[owner] > 0
    BY DEF NobodyForgotten
  <2>1. /\ owner \in Ptys /\ LaneInv(lane) /\ Unread # {} /\ lane \in Lane
    BY <1>1 DEF MailboxInv, World, LaneInv, Untold
  <2>2. CASE Waiters # {}
    BY <1>1, <2>2 DEF Watching, ChecksCurrent, Waiters
  <2>3. CASE Waiters = {}
    <3>1. BeingRead \/ repoint \/ Attended(lane, declined)
      BY <1>1, <2>1, <2>3 DEF Watching, Watched, Resting
    <3>2. ~Doubted(lane) /\ ~Informed(lane, declined)
      BY DEF Untold, InDoubt, ToldOf, Doubted, Informed
    <3>3. lane.parkedOn[owner] => HasFlight(lane, owner)
      BY <1>1, <2>1 DEF Watching, Tidy, ParkedFlies
    <3>4. HandsOn(lane) => \E p \in Ptys : HasFlight(lane, p)
      BY <2>1 DEF HandsOn, LaneInv, MarksSound, Lane, Mark
    <3>5. BeingRead => \E p \in Ptys : check[p].stage # "none" /\ ~Fenced(p)
      BY DEF BeingRead
    <3> QED
      BY <2>1, <3>1, <3>2, <3>3, <3>4, <3>5 DEF Attended
  <2> QED
    BY <2>2, <2>3
<1>2. Spec => []Watching
  BY LaneInvariant, WatchInit, WatchNext, PTL DEF Spec
<1> QED
  BY <1>1, <1>2, LaneInvariant, PTL
=============================================================================
