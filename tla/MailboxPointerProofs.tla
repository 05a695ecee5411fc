------------------------ MODULE MailboxPointerProofs ------------------------
(***************************************************************************)
(* One Run mailbox, for any number of terminals, messages, generations and *)
(* upsets.  First the readers: one Delivery holds the unread mail, and it  *)
(* is the present coordinator's; the pointer lane does not touch what this *)
(* rests on.  Then the lane: the types of its rows and its memory, its     *)
(* watermark, the Enter that is held back, and that no process is sent a   *)
(* second Enter for the same mail.  The operators of the lane come first,  *)
(* each with what it returns and what it keeps, and the actions are        *)
(* composed from them.  Last, that the mailbox implements MailConsumer.    *)
(***************************************************************************)
EXTENDS MailboxPointer, FiniteSetTheorems, SequenceTheorems, WellFoundedInduction, TLAPS

DeliveryRow == [batch : SUBSET Nat, generation : Nat, reader : Ptys]
Standing == {"outstanding", "acknowledged", "fenced"}
CheckRow == [stage : {"none", "routing", "reading", "waiting", "woken"},
             generation : Nat, ack : Nat]

ReaderType ==
  /\ arrived \in Nat /\ generation \in Nat
  /\ deliveries \in Seq(DeliveryRow)
  /\ standing \in Seq(Standing) /\ Len(standing) = Len(deliveries)
  /\ check \in [Ptys -> CheckRow]

(* A Delivery holds only mail that had arrived, so what arrives later revives none. *)
HoldsArrived == \A d \in DOMAIN deliveries : deliveries[d].batch \subseteq 1..arrived

(* Whoever binds the Run fences what is outstanding. *)
OutstandingIsCurrent ==
  \A d \in DOMAIN deliveries :
    standing[d] = "outstanding" => deliveries[d].generation = generation

OneOutstanding == \A d, e \in Outstanding : d = e

ReaderInv == ReaderType /\ HoldsArrived /\ OutstandingIsCurrent /\ OneOutstanding

-----------------------------------------------------------------------------
LEMMA ReaderInit == Init => ReaderInv
<1> SUFFICES ASSUME Init PROVE ReaderInv
  OBVIOUS
<1>1. /\ deliveries = <<>> /\ DOMAIN deliveries = {} /\ Len(deliveries) = 0
      /\ standing = <<>> /\ Len(standing) = 0
  BY DEF Init
<1>2. ReaderType
  BY <1>1 DEF Init, ReaderType, CheckRow, NoCheck
<1> QED
  BY <1>1, <1>2 DEF ReaderInv, HoldsArrived, OutstandingIsCurrent, OneOutstanding, Outstanding

(* What matters of a step is which Deliveries hold unread mail afterwards: none but those
   that did before, unless there was none and the step opened one. *)
LEMMA NoneRevived ==
  ASSUME HoldsArrived, arrived \in Nat, arrived' \in Nat, arrived <= arrived',
         read \subseteq read',
         NEW d \in DOMAIN deliveries, d \in DOMAIN deliveries',
         deliveries'[d].batch = deliveries[d].batch,
         standing'[d] = "outstanding" => standing[d] = "outstanding",
         d \in Outstanding'
  PROVE  d \in Outstanding
<1>1. PICK m \in deliveries[d].batch : m \in 1..arrived' /\ m \notin read'
  BY DEF Outstanding, Unread
<1>2. m \in 1..arrived /\ m \notin read
  BY <1>1 DEF HoldsArrived
<1> QED
  BY <1>1, <1>2 DEF Outstanding, Unread

(* Actions that leave the Deliveries and the generation alone. *)
LEMMA QuietStep ==
  ASSUME ReaderInv, UNCHANGED <<deliveries, standing, generation, read>>,
         arrived' \in Nat, arrived <= arrived', check' \in [Ptys -> CheckRow]
  PROVE  ReaderInv'
<1> USE DEF ReaderInv
<1>1. ReaderType'
  BY DEF ReaderType
<1>2. HoldsArrived'
  BY DEF HoldsArrived, ReaderType
<1>3. OutstandingIsCurrent'
  BY DEF OutstandingIsCurrent
<1>4. \A d \in Outstanding' : d \in Outstanding
  <2> TAKE d \in Outstanding'
  <2>1. d \in DOMAIN deliveries /\ d \in DOMAIN deliveries'
    BY DEF Outstanding
  <2> QED
    BY <2>1, NoneRevived DEF ReaderType
<1>5. OneOutstanding'
  BY <1>4 DEF OneOutstanding
<1> QED
  BY <1>1, <1>2, <1>3, <1>5

LEMMA StandingAgain ==
  ASSUME NEW s \in Seq(Standing), NEW f \in [1..Len(s) -> Standing]
  PROVE  f \in Seq(Standing) /\ Len(f) = Len(s)
<1>1. Len(s) \in Nat
  OBVIOUS
<1>2. f \in Seq(Standing)
  BY <1>1, SeqDef
<1> QED
  BY <1>1, <1>2

(* A check ends, or goes on to its next stage. *)
LEMMA CheckTyped ==
  ASSUME check \in [Ptys -> CheckRow], NEW p \in Ptys,
         NEW stage \in {"reading", "waiting"}, Ends(p) \/ Proceeds(p, stage)
  PROVE  check' \in [Ptys -> CheckRow]
<1>1. NoCheck \in CheckRow /\ AtStage(p, stage) \in CheckRow
  BY DEF NoCheck, AtStage, CheckRow
<1> QED
  BY <1>1 DEF Ends, Proceeds

LEMMA AcknowledgeStep ==
  ASSUME ReaderInv, NEW p \in Ptys, acknowledgeMailboxDelivery(p)
  PROVE  ReaderInv'
<1> DEFINE d == check[p].ack
<1> USE DEF ReaderInv
<1>0. check' \in [Ptys -> CheckRow] /\ UNCHANGED <<arrived, generation, deliveries>>
  <2>1. Ends(p) \/ Proceeds(p, "reading")
    BY Zenon DEF acknowledgeMailboxDelivery
  <2> QED
    BY <2>1, CheckTyped DEF acknowledgeMailboxDelivery, ReaderType
<1>1. CASE UNCHANGED <<standing, read>>
  BY <1>0, <1>1, QuietStep DEF ReaderType
<1>2. CASE ~UNCHANGED <<standing, read>>
  <2>1. /\ read' = read \cup deliveries[d].batch
        /\ standing' = [standing EXCEPT ![d] = "acknowledged"]
    BY <1>2 DEF acknowledgeMailboxDelivery
  <2>2. /\ standing' \in Seq(Standing) /\ Len(standing') = Len(standing)
        /\ \A e \in DOMAIN standing :
             standing'[e] = "outstanding" => standing[e] = "outstanding"
    <3> DEFINE f == [standing EXCEPT ![d] = "acknowledged"]
    <3>0. standing \in [1..Len(standing) -> Standing]
      BY DEF ReaderType
    <3>1. f \in [1..Len(standing) -> Standing]
      BY <3>0 DEF Standing
    <3>2. \A e \in DOMAIN standing : f[e] = "outstanding" => standing[e] = "outstanding"
      OBVIOUS
    <3>3. f \in Seq(Standing) /\ Len(f) = Len(standing)
      BY <3>1, StandingAgain DEF ReaderType
    <3> QED
      BY <2>1, <3>2, <3>3
  <2>3. DOMAIN standing = DOMAIN deliveries
    BY DEF ReaderType
  <2>4. \A e \in Outstanding' : e \in Outstanding
    <3> TAKE e \in Outstanding'
    <3>1. e \in DOMAIN deliveries
      BY <1>0 DEF Outstanding
    <3> QED
      BY <1>0, <2>1, <2>2, <2>3, <3>1, NoneRevived DEF ReaderType
  <2> QED
    BY <1>0, <2>2, <2>3, <2>4
       DEF ReaderType, HoldsArrived, OutstandingIsCurrent, OneOutstanding
<1> QED
  BY <1>1, <1>2

LEMMA DeliveryStep ==
  ASSUME ReaderInv, NEW p \in Ptys, getOrCreateMailboxDelivery(p)
  PROVE  ReaderInv'
<1> DEFINE fresh == [batch |-> Unread, generation |-> check[p].generation, reader |-> p]
           n == Len(deliveries) + 1
<1> USE DEF ReaderInv
<1>0. check' \in [Ptys -> CheckRow] /\ UNCHANGED <<arrived, generation, read>>
  <2>1. Ends(p) \/ Proceeds(p, "waiting")
    BY Zenon DEF getOrCreateMailboxDelivery
  <2> QED
    BY <2>1, CheckTyped DEF getOrCreateMailboxDelivery, ReaderType
<1>1. CASE UNCHANGED <<deliveries, standing>>
  BY <1>0, <1>1, QuietStep DEF ReaderType
<1>2. CASE ~UNCHANGED <<deliveries, standing>>
  <2>1. /\ deliveries' = Append(deliveries, fresh)
        /\ standing' = Append(standing, "outstanding")
        /\ check[p].generation = generation /\ Outstanding = {}
    BY <1>2 DEF getOrCreateMailboxDelivery, Fenced
  <2>2. fresh \in DeliveryRow /\ fresh.batch \subseteq 1..arrived
    BY <2>1 DEF ReaderType, DeliveryRow, Unread
  <2>3. /\ deliveries' \in Seq(DeliveryRow) /\ Len(deliveries') = n
        /\ DOMAIN deliveries' = DOMAIN deliveries \cup {n}
        /\ deliveries'[n] = fresh
        /\ \A e \in DOMAIN deliveries : deliveries'[e] = deliveries[e] /\ e # n
    BY <2>1, <2>2 DEF ReaderType
  <2>4. /\ standing' \in Seq(Standing) /\ Len(standing') = n
        /\ \A e \in DOMAIN deliveries : standing'[e] = standing[e]
    BY <2>1 DEF ReaderType, Standing
  <2>5. Outstanding' \subseteq {n}
    <3> SUFFICES ASSUME NEW e \in Outstanding', e # n PROVE FALSE
      OBVIOUS
    <3>1. e \in DOMAIN deliveries /\ e \in DOMAIN deliveries'
      BY <2>3 DEF Outstanding
    <3>2. e \in Outstanding
      BY <1>0, <2>3, <2>4, <3>1, NoneRevived DEF ReaderType
    <3> QED
      BY <2>1, <3>2
  <2> QED
    BY <1>0, <2>1, <2>2, <2>3, <2>4, <2>5
       DEF ReaderType, HoldsArrived, OutstandingIsCurrent, OneOutstanding
<1> QED
  BY <1>1, <1>2

LEMMA BindStep ==
  ASSUME ReaderInv, NEW p \in Ptys, bindRun(p)
  PROVE  ReaderInv'
<1> USE DEF ReaderInv
<1>1. /\ check' \in [Ptys -> CheckRow] /\ generation' = generation + 1
      /\ UNCHANGED <<arrived, read, deliveries>>
  BY DEF bindRun, ReaderType, CheckRow, NoCheck
<1>2. /\ DOMAIN standing = 1..Len(standing) /\ Len(standing) \in Nat
      /\ standing' = [d \in 1..Len(standing) |->
                        IF standing[d] = "outstanding" THEN "fenced" ELSE standing[d]]
      /\ \A d \in 1..Len(standing) : standing[d] \in Standing
  BY DEF bindRun, ReaderType
<1>3. /\ standing' \in Seq(Standing) /\ Len(standing') = Len(standing)
      /\ \A d \in 1..Len(standing) : standing'[d] # "outstanding"
  <2> DEFINE f == [d \in 1..Len(standing) |->
                     IF standing[d] = "outstanding" THEN "fenced" ELSE standing[d]]
  <2>1. f \in [1..Len(standing) -> Standing] /\ \A d \in 1..Len(standing) : f[d] # "outstanding"
    BY <1>2 DEF Standing
  <2>2. f \in Seq(Standing) /\ Len(f) = Len(standing)
    BY <2>1, StandingAgain DEF ReaderType
  <2> QED
    BY <1>2, <2>1, <2>2
<1> QED
  BY <1>1, <1>3
     DEF ReaderType, HoldsArrived, OutstandingIsCurrent, OneOutstanding, Outstanding

(* The other moves of a check, and the mail that arrives. *)
LEMMA CheckStep ==
  ASSUME ReaderInv, NEW p \in Ptys,
         (\E ack \in {0, Len(deliveries)} : CheckBegins(p, ack)) \/ WaitEnds(p)
  PROVE  ReaderInv'
<1> USE DEF ReaderInv
<1>1. UNCHANGED <<arrived, read, deliveries, standing, generation>>
  BY DEF CheckBegins, WaitEnds, reader
<1>2. check' \in [Ptys -> CheckRow]
  BY DEF CheckBegins, WaitEnds, ReaderType, CheckRow, Ends, NoCheck
<1> QED
  BY <1>1, <1>2, QuietStep DEF ReaderType

LEMMA ArrivalStep == ReaderInv /\ notifyMessageArrived => ReaderInv'
<1> SUFFICES ASSUME ReaderInv, notifyMessageArrived PROVE ReaderInv'
  OBVIOUS
<1> USE DEF ReaderInv
<1>1. UNCHANGED <<read, deliveries, standing, generation>> /\ arrived' = arrived + 1
  BY DEF notifyMessageArrived, reader
<1>2. check' = [p \in Ptys |-> IF p \in Waiters THEN AtStage(p, "woken") ELSE check[p]]
  BY Zenon DEF notifyMessageArrived
<1>3. check' \in [Ptys -> CheckRow]
  BY <1>2 DEF ReaderType, CheckRow, AtStage
<1> QED
  BY <1>1, <1>3, QuietStep DEF ReaderType

LEMMA RestartStep ==
  ASSUME ReaderInv, NEW torn \in SUBSET Typing, Restart(torn)
  PROVE  ReaderInv'
<1> USE DEF ReaderInv
<1>1. UNCHANGED <<arrived, read, deliveries, standing, generation>>
  BY Zenon DEF Restart, reader
<1>2. check' = [p \in Ptys |-> NoCheck]
  BY Zenon DEF Restart
<1>3. check' \in [Ptys -> CheckRow]
  BY <1>2 DEF CheckRow, NoCheck
<1> QED
  BY <1>1, <1>3, QuietStep DEF ReaderType

(* The pointer lane and the terminals touch neither the Deliveries nor the checks. *)
LaneStep ==
  \/ \E settled, known \in BOOLEAN :
       \/ QueuedDelivery(settled, known) \/ repointPendingMessages(settled, known)
       \/ \E p \in Ptys :
            \/ DeliveryRecheck(p, settled, known)
            \/ TitleIdle(p, settled, known)
            \/ \E outcome \in Outcomes :
                 \/ \E enterless \in BOOLEAN :
                      finishPointerWrite(p, outcome, enterless, settled, known)
                 \/ finishEnterWrite(p, outcome, settled, known)
            \/ \E absent \in BOOLEAN : submitPointer(p, absent, settled, known)
            \/ \E absent \in BOOLEAN : AbsenceAnswered(p, absent, settled)
  \/ \E stray \in lane.strays, absent \in BOOLEAN : StrayAnswered(stray, absent)
  \/ \E p \in Ptys :
       \/ EnterTimer(p)
       \/ TitleNeutral(p) \/ markPtyColdParked(p) \/ clearPtyColdParked(p)
       \/ \E busy \in {"working", "other"} : TitleBusy(p, busy)
       \/ ProcessDies(p) \/ PtyExit(p) \/ Respawn(p)

LEMMA LaneIsQuiet == LaneStep => UNCHANGED <<arrived, reader, check>>
<1>1. ASSUME NEW settled, NEW known, QueuedDelivery(settled, known)
      PROVE  UNCHANGED <<arrived, reader, check>>
  BY <1>1, Zenon DEF QueuedDelivery
<1>2. ASSUME NEW settled, NEW known, repointPendingMessages(settled, known)
      PROVE  UNCHANGED <<arrived, reader, check>>
  BY <1>2, Zenon DEF repointPendingMessages
<1>3. ASSUME NEW p, NEW settled, NEW known, DeliveryRecheck(p, settled, known)
      PROVE  UNCHANGED <<arrived, reader, check>>
  BY <1>3, Zenon DEF DeliveryRecheck
<1>4. ASSUME NEW p, NEW settled, NEW known, TitleIdle(p, settled, known)
      PROVE  UNCHANGED <<arrived, reader, check>>
  BY <1>4, Zenon DEF TitleIdle
<1>5. ASSUME NEW p, NEW outcome, NEW enterless, NEW settled, NEW known,
             finishPointerWrite(p, outcome, enterless, settled, known)
      PROVE  UNCHANGED <<arrived, reader, check>>
  BY <1>5, Zenon DEF finishPointerWrite
<1>6. ASSUME NEW p, NEW outcome, NEW settled, NEW known,
             finishEnterWrite(p, outcome, settled, known)
      PROVE  UNCHANGED <<arrived, reader, check>>
  BY <1>6, Zenon DEF finishEnterWrite
<1>7. ASSUME NEW p, NEW absent, NEW settled, NEW known, submitPointer(p, absent, settled, known)
      PROVE  UNCHANGED <<arrived, reader, check>>
  BY <1>7, Zenon DEF submitPointer
<1>8. ASSUME NEW p, NEW absent, NEW settled, AbsenceAnswered(p, absent, settled)
      PROVE  UNCHANGED <<arrived, reader, check>>
  BY <1>8, Zenon DEF AbsenceAnswered
<1>9. ASSUME NEW stray, NEW absent, StrayAnswered(stray, absent)
      PROVE  UNCHANGED <<arrived, reader, check>>
  BY <1>9, Zenon DEF StrayAnswered
<1>10. ASSUME NEW p, NEW busy, TitleBusy(p, busy)
       PROVE  UNCHANGED <<arrived, reader, check>>
  BY <1>10, Zenon DEF TitleBusy
<1>11. ASSUME NEW p,
              \/ EnterTimer(p) \/ TitleNeutral(p)
              \/ markPtyColdParked(p) \/ clearPtyColdParked(p)
       PROVE  UNCHANGED <<arrived, reader, check>>
  BY <1>11, Zenon DEF EnterTimer, TitleNeutral, markPtyColdParked, clearPtyColdParked
<1>12. ASSUME NEW p, ProcessDies(p) \/ PtyExit(p) \/ Respawn(p)
       PROVE  UNCHANGED <<arrived, reader, check>>
  BY <1>12, Zenon DEF ProcessDies, PtyExit, Respawn
<1> QED
  BY <1>1, <1>2, <1>3, <1>4, <1>5, <1>6, <1>7, <1>8, <1>9, <1>10, <1>11, <1>12, Zenon
     DEF LaneStep

TurnKinds ==
  \/ LaneStep
  \/ notifyMessageArrived
  \/ \E p \in Ptys :
       \/ (\E ack \in {0, Len(deliveries)} : CheckBegins(p, ack)) \/ WaitEnds(p)
       \/ acknowledgeMailboxDelivery(p)
       \/ getOrCreateMailboxDelivery(p) \/ bindRun(p)
  \/ \E torn \in SUBSET Typing : Restart(torn)

LEMMA TurnSplits == Turn => TurnKinds
<1>1. /\ Evidence \subseteq BOOLEAN
      /\ \A p : Consulted(p) \subseteq BOOLEAN /\ MayBeEnterless(p) \subseteq BOOLEAN
  BY DEF Evidence, Consulted, MayBeEnterless
<1>2. ASSUME NEW p \in Ptys, NEW settled \in BOOLEAN, NEW absent \in BOOLEAN,
             AbsenceAnswered(p, absent, settled)
      PROVE  LaneStep
  <2>1. TRUE \in BOOLEAN
    OBVIOUS
  <2> QED
    BY <1>2, <2>1, Zenon DEF LaneStep
<1>3. ASSUME NEW p \in Ptys, NEW settled \in BOOLEAN, NEW known \in BOOLEAN,
             \/ \E outcome \in Outcomes :
                  \/ \E enterless \in MayBeEnterless(p) :
                       finishPointerWrite(p, outcome, enterless, settled, known)
                  \/ finishEnterWrite(p, outcome, settled, known)
             \/ \E absent \in BOOLEAN : submitPointer(p, absent, settled, known)
      PROVE  LaneStep
  BY <1>1, <1>3, Zenon DEF LaneStep
<1>4. ASSUME NEW settled \in BOOLEAN, NEW known \in BOOLEAN,
             \/ repointPendingMessages(settled, known)
             \/ \E p \in Ptys : DeliveryRecheck(p, settled, known) \/ TitleIdle(p, settled, known)
      PROVE  LaneStep
  BY <1>4, Zenon DEF LaneStep
<1>5. ASSUME \/ \E stray \in lane.strays, absent \in BOOLEAN : StrayAnswered(stray, absent)
             \/ \E p \in Ptys :
                  \/ EnterTimer(p)
                  \/ TitleNeutral(p) \/ markPtyColdParked(p) \/ clearPtyColdParked(p)
                  \/ \E busy \in {"working", "other"} : TitleBusy(p, busy)
                  \/ ProcessDies(p) \/ PtyExit(p) \/ Respawn(p)
      PROVE  LaneStep
  BY <1>5, Zenon DEF LaneStep
<1> QED
  BY <1>1, <1>2, <1>3, <1>4, <1>5, Zenon DEF Turn, TurnKinds

LEMMA NextStep == ReaderInv /\ [Next]_vars => ReaderInv'
<1> SUFFICES ASSUME ReaderInv, [Next]_vars PROVE ReaderInv'
  OBVIOUS
<1>1. Evidence \subseteq BOOLEAN
  BY DEF Evidence
<1>2. ASSUME UNCHANGED <<arrived, reader, check>> PROVE ReaderInv'
  BY <1>2, QuietStep DEF ReaderInv, ReaderType, reader
<1>3. CASE LaneStep
  BY <1>2, <1>3, LaneIsQuiet
<1>4. CASE Microtask
  BY <1>1, <1>2, <1>4, DeliveryStep, LaneIsQuiet DEF Microtask, LaneStep
<1>5. CASE Turn
  <2>1. TurnKinds
    BY <1>5, TurnSplits
  <2> QED
    BY <1>3, <2>1, ArrivalStep, CheckStep, AcknowledgeStep, DeliveryStep, BindStep,
       RestartStep, Zenon DEF TurnKinds
<1>6. CASE UNCHANGED vars
  BY <1>2, <1>6 DEF vars
<1> QED
  BY <1>4, <1>5, <1>6 DEF Next

(* One Delivery at most holds unread mail of the mailbox, and it was opened under the
   Run's present generation: no check that began before a takeover leaves another. *)
THEOREM MailboxReaderIsCurrent == Spec => []UnreadDeliveryIsCurrent
<1>1. ReaderInv => UnreadDeliveryIsCurrent
  <2> SUFFICES ASSUME ReaderInv PROVE UnreadDeliveryIsCurrent
    OBVIOUS
  <2>1. \A d \in Outstanding : deliveries[d].generation = generation
    BY DEF ReaderInv, OutstandingIsCurrent, Outstanding
  <2>2. Cardinality(Outstanding) <= 1
    <3>1. CASE Outstanding = {}
      BY <3>1, FS_EmptySet
    <3>2. CASE Outstanding # {}
      <4>1. PICK d : Outstanding = {d}
        BY <3>2 DEF ReaderInv, OneOutstanding
      <4> QED
        BY <4>1, FS_Singleton
    <3> QED
      BY <3>1, <3>2
  <2> QED
    BY <2>1, <2>2 DEF UnreadDeliveryIsCurrent
<1> QED
  BY <1>1, ReaderInit, NextStep, PTL DEF Spec

-----------------------------------------------------------------------------
Row == [phase : 0..EnterAttempted, target : Processes \cup {NoProcess}, delivered : BOOLEAN]
FlightStages == {"none", "writing", "writing_deferred", "writing_ready", "timer", "held",
                 "probing", "entering"}
Flight == [stage : FlightStages, batch : SUBSET Nat, inc : Nat]
Mark == [pty : Ptys, sequence : Nat, active : BOOLEAN]
Stray == [pty : Ptys, sequence : Nat]
Lane == [row : [Mail -> Row], flight : [Ptys -> Flight], mark : SUBSET Mark,
         parkedOn : [Ptys -> BOOLEAN], parked : BOOLEAN, queued : Nat,
         recheck : [Ptys -> BOOLEAN], asked : [Ptys -> Nat], strays : SUBSET Stray]

World ==
  /\ arrived \in 0..MaxMail /\ read \subseteq 1..arrived
  /\ owner \in Ptys /\ generation \in 1..MaxGeneration
  /\ proc \in [Ptys -> {"live", "dying", "gone"}]
  /\ status \in [Ptys -> {"other", "none", "idle", "working"}]
  /\ inc \in [Ptys -> Nat]

RowsSound(s) ==
  \A m \in Mail :
    /\ s.row[m].phase > 0 <=> s.row[m].target \in Processes
    /\ s.row[m].phase > 0 \/ s.row[m].delivered => m <= arrived
    /\ s.row[m].delivered => s.row[m].phase = 0

FlightsSound(s) ==
  \A p \in Ptys :
    /\ HasFlight(s, p) <=> s.flight[p].batch # {}
    /\ s.flight[p].batch \subseteq 1..arrived
    /\ HasFlight(s, p) => proc[p] # "gone" /\ s.flight[p].inc = inc[p]

MarksSound(s) ==
  /\ \A v, w \in s.mark : v = w
  /\ \A w \in s.mark : w.active =>
       HasFlight(s, w.pty) /\ w.sequence = Max(s.flight[w.pty].batch)

OneTarget(s) ==
  \A m, n \in Unread :
    s.row[m].phase > 0 /\ s.row[n].phase > 0 => s.row[m].target = s.row[n].target

LaneInv(s) == s \in Lane /\ RowsSound(s) /\ FlightsSound(s) /\ MarksSound(s) /\ OneTarget(s)

LEMMA Phases == Reserved = 1 /\ WriteAttempted = 2 /\ EnterAttempted = 3
  BY DEF Reserved, WriteAttempted, EnterAttempted

LEMMA NoProcessIsNone == NoProcess \notin Processes
  BY DEF NoProcess, Processes

LEMMA UnreadIsMail ==
  ASSUME World
  PROVE  Unread \subseteq Mail /\ Unread \subseteq 1..arrived /\ 1..arrived \subseteq Mail
         /\ arrived \in Nat
BY MailboxAssumption DEF World, Unread, Mail

LEMMA NoPointerTyped == NoPointer \in Row
  BY Phases DEF NoPointer, Row

LEMMA MaxOfBatch ==
  ASSUME NEW n \in Nat, NEW B \in SUBSET (1..n), B # {}
  PROVE  Max(B) \in B /\ \A m \in B : m <= Max(B)
<1> DEFINE T == {k \in Nat : n - k \in B}
           R == OpToRel(<, Nat)
<1>1. T \subseteq Nat /\ T # {}
  <2>1. PICK m \in B : TRUE
    OBVIOUS
  <2>2. n - m \in T
    BY <2>1
  <2> QED
    BY <2>2
<1>2. PICK k \in T : \A j \in T : ~(<<j, k>> \in R)
  <2> HIDE DEF T, R
  <2> QED
    BY <1>1, NatLessThanWellFounded, WFMin DEF R
<1>3. \A j \in T : j >= k
  <2>1. R = {pair \in Nat \X Nat : pair[1] < pair[2]}
    BY DEF OpToRel
  <2>2. k \in Nat /\ \A j \in T : j \in Nat
    BY <1>1
  <2> SUFFICES ASSUME NEW j \in T, j < k PROVE FALSE
    BY <2>2
  <2>3. <<j, k>> \in Nat \X Nat /\ <<j, k>>[1] < <<j, k>>[2]
    BY <2>2
  <2> HIDE DEF T, R
  <2>4. <<j, k>> \in R
    BY <2>1, <2>3
  <2> QED
    BY <1>2, <2>4
<1>4. n - k \in B /\ k \in Nat
  BY <1>2
<1>5. \A m \in B : n - k >= m
  <2> TAKE m \in B
  <2>1. n - m \in T
    OBVIOUS
  <2> QED
    BY <1>3, <1>4, <2>1
<1> QED
  BY <1>4, <1>5 DEF Max

-----------------------------------------------------------------------------
(* Rows. *)

LEMMA SetRowsFields ==
  ASSUME NEW s \in Lane, NEW rows, NEW delivered \in BOOLEAN
  PROVE  LET t == SetRows(s, rows, delivered)
         IN  /\ t \in Lane
             /\ t.flight = s.flight /\ t.mark = s.mark /\ t.parkedOn = s.parkedOn
             /\ t.parked = s.parked /\ t.queued = s.queued /\ t.recheck = s.recheck
             /\ t.asked = s.asked /\ t.strays = s.strays
             /\ \A m \in Mail : m \notin rows => t.row[m] = s.row[m]
             /\ \A m \in Mail \cap rows :
                  /\ t.row[m].phase = 0 /\ t.row[m].target = NoProcess
                  /\ t.row[m].delivered = delivered
                  /\ t.row[m] = NoPointer <=> ~delivered
<1> DEFINE new == [NoPointer EXCEPT !.delivered = delivered]
           row == [m \in Mail |-> IF m \in rows THEN new ELSE s.row[m]]
           t == SetRows(s, rows, delivered)
<1>1. /\ new \in Row /\ new.phase = 0 /\ new.target = NoProcess /\ new.delivered = delivered
      /\ new = NoPointer <=> ~delivered
  <2>1. new = [phase |-> 0, target |-> NoProcess, delivered |-> delivered]
    BY DEF NoPointer
  <2>2. new = NoPointer <=> ~delivered
    BY <2>1 DEF NoPointer
  <2> QED
    BY <2>1, <2>2, Phases DEF Row
<1>2. row \in [Mail -> Row]
  BY <1>1 DEF Lane
<1>3. t = [s EXCEPT !.row = row]
  BY DEF SetRows, Lane
<1> HIDE DEF row, t
<1>4. t \in Lane /\ t.row = row
  BY <1>2, <1>3 DEF Lane
<1>5. /\ t.flight = s.flight /\ t.mark = s.mark /\ t.parkedOn = s.parkedOn
      /\ t.parked = s.parked /\ t.queued = s.queued /\ t.recheck = s.recheck
      /\ t.asked = s.asked /\ t.strays = s.strays
  BY <1>3 DEF Lane
<1> QED
  BY <1>1, <1>4, <1>5 DEF row, t

(* The rows, the flights and the watermark are what the invariant speaks of. *)
LEMMA SameCore ==
  ASSUME NEW s, NEW t \in Lane, LaneInv(s),
         t.row = s.row, t.flight = s.flight, t.mark = s.mark
  PROVE  LaneInv(t)
BY DEF LaneInv, RowsSound, FlightsSound, MarksSound, OneTarget, HasFlight

LEMMA SetRowsKeeps ==
  ASSUME World, NEW s, LaneInv(s), NEW rows, NEW delivered \in BOOLEAN,
         delivered => \A m \in Mail \cap rows : m <= arrived
  PROVE  LaneInv(SetRows(s, rows, delivered))
<1> DEFINE t == SetRows(s, rows, delivered)
<1>1. /\ t \in Lane /\ t.flight = s.flight /\ t.mark = s.mark
      /\ \A m \in Mail : m \notin rows => t.row[m] = s.row[m]
      /\ \A m \in Mail \cap rows :
           /\ t.row[m].phase = 0 /\ t.row[m].target = NoProcess
           /\ t.row[m].delivered = delivered
  BY SetRowsFields DEF LaneInv
<1> HIDE DEF t
<1>2. RowsSound(t)
  BY <1>1, NoProcessIsNone DEF LaneInv, RowsSound
<1>3. OneTarget(t)
  BY <1>1, UnreadIsMail DEF LaneInv, OneTarget
<1>4. FlightsSound(t) /\ MarksSound(t)
  BY <1>1 DEF LaneInv, FlightsSound, MarksSound, HasFlight
<1> QED
  BY <1>1, <1>2, <1>3, <1>4 DEF LaneInv, t

-----------------------------------------------------------------------------
(* The watermark. *)

LEMMA ClearFields ==
  ASSUME NEW s \in Lane, NEW p, NEW newest
  PROVE  LET t == clearWatermark(s, p, newest)
         IN  /\ t \in Lane
             /\ t.row = s.row /\ t.flight = s.flight /\ t.parkedOn = s.parkedOn
             /\ t.parked = s.parked /\ t.queued = s.queued /\ t.recheck = s.recheck
             /\ t.asked = s.asked /\ t.strays = s.strays
             /\ t.mark = {w \in s.mark : ~(w.pty = p /\ w.sequence = newest)}
BY DEF clearWatermark, MarkAt, Lane

LEMMA DeactivateFields ==
  ASSUME NEW s \in Lane, NEW p, NEW newest
  PROVE  LET t == deactivateWatermark(s, p, newest)
         IN  /\ t \in Lane
             /\ t.row = s.row /\ t.flight = s.flight /\ t.parkedOn = s.parkedOn
             /\ t.parked = s.parked /\ t.queued = s.queued /\ t.recheck = s.recheck
             /\ t.asked = s.asked /\ t.strays = s.strays
             /\ \A w \in t.mark : \E v \in s.mark :
                  /\ w.pty = v.pty /\ w.sequence = v.sequence
                  /\ (w.active => v.active /\ ~(v.pty = p /\ v.sequence = newest))
<1> DEFINE off(w) == IF w \in MarkAt(s, p, newest) THEN [w EXCEPT !.active = FALSE] ELSE w
           mark == {off(w) : w \in s.mark}
           t == deactivateWatermark(s, p, newest)
<1>1. \A w \in s.mark : /\ off(w) \in Mark
                        /\ off(w).pty = w.pty /\ off(w).sequence = w.sequence
                        /\ (off(w).active => w.active /\ ~(w.pty = p /\ w.sequence = newest))
  <2> TAKE w \in s.mark
  <2>1. w \in Mark
    BY DEF Lane
  <2>2. CASE w \in MarkAt(s, p, newest)
    BY <2>1, <2>2 DEF MarkAt, Mark
  <2>3. CASE w \notin MarkAt(s, p, newest)
    BY <2>1, <2>3 DEF MarkAt
  <2> QED
    BY <2>2, <2>3
<1>2. mark \subseteq Mark
  BY <1>1
<1>3. t = [s EXCEPT !.mark = mark]
  BY DEF deactivateWatermark
<1> HIDE DEF off
<1>4. \A w \in mark : \E v \in s.mark : w = off(v)
  OBVIOUS
<1> HIDE DEF mark, t
<1>5. /\ t \in Lane /\ t.mark = mark
      /\ t.row = s.row /\ t.flight = s.flight /\ t.parkedOn = s.parkedOn
      /\ t.parked = s.parked /\ t.queued = s.queued /\ t.recheck = s.recheck
      /\ t.asked = s.asked /\ t.strays = s.strays
  BY <1>2, <1>3 DEF Lane
<1> QED
  BY <1>1, <1>4, <1>5 DEF t

(* No active watermark is left behind at p, so its flight may end. *)
Silent(s, p) == \A w \in s.mark : w.active => w.pty # p

LEMMA ClearKeeps ==
  ASSUME NEW s, LaneInv(s), NEW p, NEW newest
  PROVE  LET t == clearWatermark(s, p, newest)
         IN  LaneInv(t) /\ (newest = Max(s.flight[p].batch) => Silent(t, p))
<1> DEFINE t == clearWatermark(s, p, newest)
<1>1. /\ t \in Lane /\ t.row = s.row /\ t.flight = s.flight
      /\ t.mark = {w \in s.mark : ~(w.pty = p /\ w.sequence = newest)}
  BY ClearFields DEF LaneInv
<1> HIDE DEF t
<1>2. LaneInv(t)
  BY <1>1 DEF LaneInv, RowsSound, FlightsSound, MarksSound, OneTarget, HasFlight
<1>3. newest = Max(s.flight[p].batch) => Silent(t, p)
  BY <1>1 DEF LaneInv, MarksSound, Silent
<1> QED
  BY <1>2, <1>3 DEF t

LEMMA DeactivateKeeps ==
  ASSUME NEW s, LaneInv(s), NEW p, NEW newest
  PROVE  LET t == deactivateWatermark(s, p, newest)
         IN  LaneInv(t) /\ (newest = Max(s.flight[p].batch) => Silent(t, p))
<1> DEFINE t == deactivateWatermark(s, p, newest)
<1>1. /\ t \in Lane /\ t.row = s.row /\ t.flight = s.flight
      /\ \A w \in t.mark : \E v \in s.mark :
           /\ w.pty = v.pty /\ w.sequence = v.sequence
           /\ (w.active => v.active /\ ~(v.pty = p /\ v.sequence = newest))
  BY DeactivateFields DEF LaneInv
<1>2. \A v, w \in t.mark : v = w
  <2> DEFINE off(w) == IF w \in MarkAt(s, p, newest) THEN [w EXCEPT !.active = FALSE] ELSE w
  <2>1. t.mark = {off(w) : w \in s.mark}
    BY DEF deactivateWatermark, LaneInv, Lane
  <2> HIDE DEF off, t
  <2> QED
    BY <2>1 DEF LaneInv, MarksSound
<1> HIDE DEF t
<1>3. LaneInv(t)
  BY <1>1, <1>2 DEF LaneInv, RowsSound, FlightsSound, MarksSound, OneTarget, HasFlight
<1>4. newest = Max(s.flight[p].batch) => Silent(t, p)
  BY <1>1 DEF LaneInv, MarksSound, Silent
<1> QED
  BY <1>3, <1>4 DEF t

(* The rest of the memory. *)
LEMMA RedriveFields ==
  ASSUME NEW s \in Lane, NEW force
  PROVE  LET t == redrive(s, force)
         IN  /\ t \in Lane
             /\ t.row = s.row /\ t.flight = s.flight /\ t.mark = s.mark
             /\ t.parkedOn = s.parkedOn /\ t.recheck = s.recheck
             /\ t.asked = s.asked /\ t.strays = s.strays
             /\ (force \/ s.parked) => t.queued = s.queued + 1 /\ t.parked = FALSE
             /\ ~(force \/ s.parked) => t = s
<1>1. s.queued + 1 \in Nat
  BY DEF Lane
<1> QED
  BY <1>1 DEF redrive, Lane

LEMMA RedriveKeeps ==
  ASSUME NEW s, LaneInv(s), NEW force
  PROVE  LaneInv(redrive(s, force))
<1> DEFINE t == redrive(s, force)
<1>1. t \in Lane /\ t.row = s.row /\ t.flight = s.flight /\ t.mark = s.mark
  BY RedriveFields DEF LaneInv
<1> HIDE DEF t
<1>2. LaneInv(t)
  BY <1>1, SameCore
<1> QED
  BY <1>2 DEF t

(* A flight goes on to another stage. *)
ToStage(s, p, stage) == [s EXCEPT !.flight[p].stage = stage]

LEMMA ToStageFields ==
  ASSUME NEW s \in Lane, NEW p \in Ptys, NEW stage \in FlightStages
  PROVE  LET t == ToStage(s, p, stage)
         IN  /\ t \in Lane
             /\ t.row = s.row /\ t.mark = s.mark /\ t.parkedOn = s.parkedOn
             /\ t.parked = s.parked /\ t.queued = s.queued /\ t.recheck = s.recheck
             /\ t.asked = s.asked /\ t.strays = s.strays
             /\ \A q \in Ptys : q # p => t.flight[q] = s.flight[q]
             /\ t.flight[p].stage = stage /\ t.flight[p].batch = s.flight[p].batch
             /\ t.flight[p].inc = s.flight[p].inc
<1> DEFINE flight == [s.flight EXCEPT ![p] = [@ EXCEPT !.stage = stage]]
           t == ToStage(s, p, stage)
<1>1. /\ flight \in [Ptys -> Flight]
      /\ \A q \in Ptys : q # p => flight[q] = s.flight[q]
      /\ flight[p].stage = stage /\ flight[p].batch = s.flight[p].batch
      /\ flight[p].inc = s.flight[p].inc
  BY DEF Lane, Flight
<1>2. t = [s EXCEPT !.flight = flight]
  BY DEF ToStage, Lane
<1> HIDE DEF flight, t
<1>3. t \in Lane /\ t.flight = flight
  BY <1>1, <1>2 DEF Lane
<1>4. /\ t.row = s.row /\ t.mark = s.mark /\ t.parkedOn = s.parkedOn
      /\ t.parked = s.parked /\ t.queued = s.queued /\ t.recheck = s.recheck
      /\ t.asked = s.asked /\ t.strays = s.strays
  BY <1>2 DEF Lane
<1> QED
  BY <1>1, <1>3, <1>4 DEF t

LEMMA ToStageKeeps ==
  ASSUME NEW s, LaneInv(s), NEW p \in Ptys, NEW stage \in FlightStages,
         stage = "none" <=> ~HasFlight(s, p)
  PROVE  LaneInv(ToStage(s, p, stage))
<1> DEFINE t == ToStage(s, p, stage)
<1>1. /\ t \in Lane /\ t.row = s.row /\ t.mark = s.mark
      /\ \A q \in Ptys : q # p => t.flight[q] = s.flight[q]
      /\ t.flight[p].stage = stage /\ t.flight[p].batch = s.flight[p].batch
      /\ t.flight[p].inc = s.flight[p].inc
  BY ToStageFields DEF LaneInv
<1> HIDE DEF t
<1>2. \A q \in Ptys : /\ HasFlight(t, q) <=> HasFlight(s, q)
                      /\ t.flight[q].batch = s.flight[q].batch
                      /\ t.flight[q].inc = s.flight[q].inc
  BY <1>1 DEF HasFlight
<1>3. FlightsSound(t)
  BY <1>2 DEF LaneInv, FlightsSound
<1>4. MarksSound(t)
  <2>1. \A w \in s.mark : w.pty \in Ptys
    BY DEF LaneInv, Lane, Mark
  <2> QED
    BY <1>1, <1>2, <2>1 DEF LaneInv, MarksSound
<1>5. RowsSound(t) /\ OneTarget(t)
  BY <1>1 DEF LaneInv, RowsSound, OneTarget
<1> QED
  BY <1>1, <1>3, <1>4, <1>5 DEF LaneInv, t

LEMMA DeferFields ==
  ASSUME NEW s \in Lane, NEW p \in Ptys
  PROVE  \E stage \in FlightStages :
           /\ deferFlightUntilIdle(s, p) = ToStage(s, p, stage)
           /\ stage = "none" <=> ~HasFlight(s, p)
           /\ stage = s.flight[p].stage \/ stage \in {"held", "writing_deferred"}
           /\ stage \in {"held", "writing_deferred", "writing_ready"}
                => s.flight[p].stage \notin {"probing", "entering"}
           /\ stage = "entering" => s.flight[p].stage = "entering"
<1> DEFINE stage == CASE s.flight[p].stage = "timer" -> "held"
                      [] s.flight[p].stage \in {"writing", "writing_ready"} -> "writing_deferred"
                      [] OTHER -> s.flight[p].stage
<1>1. s.flight[p].stage \in FlightStages
  BY DEF Lane, Flight
<1>2. deferFlightUntilIdle(s, p) = ToStage(s, p, stage)
  BY DEF deferFlightUntilIdle, ToStage
<1>3. /\ stage \in FlightStages
      /\ stage = "none" <=> s.flight[p].stage = "none"
      /\ stage = s.flight[p].stage \/ stage \in {"held", "writing_deferred"}
      /\ stage \in {"held", "writing_deferred", "writing_ready"}
           => s.flight[p].stage \notin {"probing", "entering"}
      /\ stage = "entering" => s.flight[p].stage = "entering"
  BY <1>1 DEF FlightStages
<1> HIDE DEF stage
<1> QED
  BY <1>2, <1>3 DEF HasFlight

LEMMA TakeFields ==
  ASSUME NEW s \in Lane, NEW p \in Ptys
  PROVE  \E stage \in FlightStages :
           /\ takeDeferredEnter(s, p) = ToStage(s, p, stage)
           /\ stage = "none" <=> ~HasFlight(s, p)
           /\ stage \notin {"held", "writing_deferred"}
           /\ stage = "entering" => s.flight[p].stage = "entering"
           /\ s.flight[p].stage = "entering" => stage = "entering"
<1> DEFINE stage == CASE s.flight[p].stage = "held" -> "probing"
                      [] s.flight[p].stage = "writing_deferred" -> "writing_ready"
                      [] OTHER -> s.flight[p].stage
<1>1. s.flight[p].stage \in FlightStages
  BY DEF Lane, Flight
<1>2. takeDeferredEnter(s, p) = ToStage(s, p, stage)
  BY DEF takeDeferredEnter, ToStage
<1>3. /\ stage \in FlightStages
      /\ stage = "none" <=> s.flight[p].stage = "none"
      /\ stage \notin {"held", "writing_deferred"}
      /\ stage = "entering" => s.flight[p].stage = "entering"
      /\ s.flight[p].stage = "entering" => stage = "entering"
  BY <1>1 DEF FlightStages
<1> HIDE DEF stage
<1> QED
  BY <1>2, <1>3 DEF HasFlight

-----------------------------------------------------------------------------
(* A flight ends. *)
Ended(s, p) == [s EXCEPT !.flight[p] = NoFlight, !.parkedOn[p] = FALSE]

LEMMA EndedFields ==
  ASSUME NEW s \in Lane, NEW p \in Ptys
  PROVE  LET t == Ended(s, p)
         IN  /\ t \in Lane
             /\ t.row = s.row /\ t.mark = s.mark
             /\ t.parked = s.parked /\ t.queued = s.queued /\ t.recheck = s.recheck
             /\ t.asked = s.asked /\ t.strays = s.strays
             /\ t.flight = [s.flight EXCEPT ![p] = NoFlight]
             /\ t.parkedOn = [s.parkedOn EXCEPT ![p] = FALSE]
<1> DEFINE t == Ended(s, p)
           flight == [s.flight EXCEPT ![p] = NoFlight]
           parkedOn == [s.parkedOn EXCEPT ![p] = FALSE]
<1>1. flight \in [Ptys -> Flight] /\ parkedOn \in [Ptys -> BOOLEAN]
  BY DEF Lane, Flight, NoFlight, FlightStages
<1>2. /\ t.row = s.row /\ t.mark = s.mark
      /\ t.parked = s.parked /\ t.queued = s.queued /\ t.recheck = s.recheck
      /\ t.asked = s.asked /\ t.strays = s.strays
      /\ t.flight = flight /\ t.parkedOn = parkedOn
  BY DEF Ended, Lane
<1>3. t \in Lane
  <2>1. t = [s EXCEPT !.flight = flight, !.parkedOn = parkedOn]
    BY DEF Ended, Lane
  <2> HIDE DEF t, flight, parkedOn
  <2> QED
    BY <1>1, <2>1 DEF Lane
<1> QED
  BY <1>2, <1>3

LEMMA EndedKeeps ==
  ASSUME NEW s, LaneInv(s), NEW p \in Ptys, Silent(s, p)
  PROVE  LaneInv(Ended(s, p))
<1> DEFINE t == Ended(s, p)
<1>1. /\ t \in Lane /\ t.row = s.row /\ t.mark = s.mark
      /\ t.flight = [s.flight EXCEPT ![p] = NoFlight]
  BY EndedFields DEF LaneInv
<1> HIDE DEF t
<1>2. /\ \A q \in Ptys : q # p => t.flight[q] = s.flight[q]
      /\ t.flight[p].stage = "none" /\ t.flight[p].batch = {}
  BY <1>1 DEF LaneInv, Lane, NoFlight
<1>3. FlightsSound(t)
  BY <1>2 DEF LaneInv, FlightsSound, HasFlight
<1>4. MarksSound(t)
  <2>1. \A w \in s.mark : w.pty \in Ptys
    BY DEF LaneInv, Lane, Mark
  <2> QED
    BY <1>1, <1>2, <2>1 DEF LaneInv, MarksSound, Silent, HasFlight
<1>5. RowsSound(t) /\ OneTarget(t)
  BY <1>1 DEF LaneInv, RowsSound, OneTarget
<1> QED
  BY <1>1, <1>3, <1>4, <1>5 DEF LaneInv, t

(* A flight begins. *)
News(s) == {m \in Unread : s.row[m] = NoPointer}
Superseded(s) == [s EXCEPT !.mark = @ \ {w \in s.mark : w.sequence >= Max(News(s))}]
Begun(p, batch) == [stage |-> "writing", batch |-> batch, inc |-> inc[p]]
Announced(p, batch) == [pty |-> p, sequence |-> Max(batch), active |-> TRUE]
Staged(s, p) ==
  [stageMailboxPointerEnter(Superseded(s), News(s), Process(p))
     EXCEPT !.flight[p] = Begun(p, News(s)), !.mark = {Announced(p, News(s))}]
Asking(s, p) == [Superseded(s) EXCEPT !.asked[p] = IF @ = 0 THEN inc[p] ELSE @]
Covered(s, p) == \E w \in s.mark : w.sequence >= Max(News(s)) /\ (w.active \/ w.pty = p)

LEMMA PointCases ==
  ASSUME NEW s, NEW p, NEW skipProbe, NEW known
  PROVE  LET t == Point(s, p, skipProbe, known)
         IN  /\ News(s) = {} \/ ~Writable(p) \/ Covered(s, p) => t = s
             /\ News(s) # {} /\ Writable(p) /\ ~Covered(s, p) =>
                  t = IF ~skipProbe /\ ~known THEN Asking(s, p) ELSE Staged(s, p)
BY DEF Point, News, Superseded, Begun, Announced, Staged, Asking, Covered

LEMMA SupersededFields ==
  ASSUME NEW s \in Lane
  PROVE  LET t == Superseded(s)
         IN  /\ t \in Lane
             /\ t.row = s.row /\ t.flight = s.flight /\ t.parkedOn = s.parkedOn
             /\ t.parked = s.parked /\ t.queued = s.queued /\ t.recheck = s.recheck
             /\ t.asked = s.asked /\ t.strays = s.strays
             /\ t.mark = {w \in s.mark : ~(w.sequence >= Max(News(s)))}
BY DEF Superseded, Lane

LEMMA AskingFields ==
  ASSUME World, NEW s \in Lane, NEW p \in Ptys
  PROVE  LET t == Asking(s, p)
         IN  /\ t \in Lane
             /\ t.row = s.row /\ t.flight = s.flight /\ t.parkedOn = s.parkedOn
             /\ t.parked = s.parked /\ t.queued = s.queued /\ t.recheck = s.recheck
             /\ t.strays = s.strays /\ t.mark \subseteq s.mark
             /\ t.asked = [s.asked EXCEPT ![p] = IF @ = 0 THEN inc[p] ELSE @]
<1> DEFINE u == Superseded(s)
           asked == [u.asked EXCEPT ![p] = IF @ = 0 THEN inc[p] ELSE @]
           t == Asking(s, p)
<1>1. /\ u \in Lane
      /\ u.row = s.row /\ u.flight = s.flight /\ u.parkedOn = s.parkedOn
      /\ u.parked = s.parked /\ u.queued = s.queued /\ u.recheck = s.recheck
      /\ u.asked = s.asked /\ u.strays = s.strays /\ u.mark \subseteq s.mark
  BY SupersededFields
<1>2. t = [u EXCEPT !.asked = asked]
  BY DEF Asking
<1> HIDE DEF u, t
<1>3. asked \in [Ptys -> Nat]
  BY <1>1 DEF Lane, World
<1> HIDE DEF asked
<1>4. t \in Lane /\ t.asked = asked
  BY <1>1, <1>2, <1>3 DEF Lane
<1>5. /\ t.row = u.row /\ t.flight = u.flight /\ t.parkedOn = u.parkedOn
      /\ t.parked = u.parked /\ t.queued = u.queued /\ t.recheck = u.recheck
      /\ t.strays = u.strays /\ t.mark = u.mark
  BY <1>1, <1>2 DEF Lane
<1> QED
  BY <1>1, <1>4, <1>5 DEF t, asked

LEMMA RowStaged ==
  ASSUME NEW target \in Processes
  PROVE  LET r == [NoPointer EXCEPT !.phase = WriteAttempted, !.target = target]
         IN  r \in Row /\ r.phase = WriteAttempted /\ r.target = target /\ r.delivered = FALSE
<1>1. NoPointer \in Row /\ NoPointer.delivered = FALSE /\ WriteAttempted \in 0..EnterAttempted
  BY NoPointerTyped, Phases DEF NoPointer
<1> QED
  BY <1>1 DEF Row

LEMMA StagedFields ==
  ASSUME World, NEW s \in Lane, NEW p \in Ptys, News(s) # {}
  PROVE  LET t == Staged(s, p)
         IN  /\ t \in Lane
             /\ t.parkedOn = s.parkedOn /\ t.parked = s.parked /\ t.queued = s.queued
             /\ t.recheck = s.recheck /\ t.asked = s.asked /\ t.strays = s.strays
             /\ t.flight = [s.flight EXCEPT ![p] = Begun(p, News(s))]
             /\ t.mark = {Announced(p, News(s))}
             /\ \A m \in Mail : m \notin News(s) => t.row[m] = s.row[m]
             /\ \A m \in News(s) : /\ t.row[m].phase = WriteAttempted
                                   /\ t.row[m].target = Process(p)
                                   /\ t.row[m].delivered = FALSE
<1> DEFINE u == Superseded(s)
           batch == News(s)
           row == [m \in Mail |-> IF m \in batch
                     THEN [u.row[m] EXCEPT !.phase = WriteAttempted, !.target = Process(p)]
                     ELSE u.row[m]]
           flight == [u.flight EXCEPT ![p] = Begun(p, batch)]
           mark == {Announced(p, batch)}
           t == Staged(s, p)
<1>1. /\ u \in Lane
      /\ u.row = s.row /\ u.flight = s.flight /\ u.parkedOn = s.parkedOn
      /\ u.parked = s.parked /\ u.queued = s.queued /\ u.recheck = s.recheck
      /\ u.asked = s.asked /\ u.strays = s.strays
  BY SupersededFields
<1>2. batch \subseteq Mail /\ batch \subseteq Nat /\ Max(batch) \in Nat
  <2>1. batch \subseteq Mail /\ batch \in SUBSET (1..arrived) /\ arrived \in Nat
    BY UnreadIsMail DEF News
  <2> HIDE DEF batch
  <2>2. Max(batch) \in batch
    BY <2>1, MaxOfBatch DEF batch
  <2>3. \A m \in batch : m \in Nat
    BY <2>1
  <2> QED
    BY <2>1, <2>2, <2>3
<1> HIDE DEF u
<1>3. Process(p) \in Processes
  BY DEF Process, Processes, World
<1>4. \A m \in batch : /\ row[m] \in Row
                       /\ row[m].phase = WriteAttempted /\ row[m].target = Process(p)
                       /\ row[m].delivered = FALSE
  <2> TAKE m \in batch
  <2>1. m \in Mail /\ u.row[m] = NoPointer
    BY <1>1, <1>2 DEF News
  <2>2. row[m] = [NoPointer EXCEPT !.phase = WriteAttempted, !.target = Process(p)]
    BY <2>1
  <2> HIDE DEF row
  <2> QED
    BY <1>3, <2>2, RowStaged
<1>5. /\ \A m \in Mail : m \notin batch => row[m] = s.row[m] /\ row[m] \in Row
      /\ row \in [Mail -> Row]
  <2>1. \A m \in Mail : m \notin batch => row[m] = s.row[m] /\ row[m] \in Row
    BY <1>1 DEF Lane
  <2>2. \A m \in Mail : row[m] \in Row
    BY <1>4, <2>1
  <2>3. row = [m \in Mail |-> row[m]]
    OBVIOUS
  <2> HIDE DEF row
  <2> QED
    BY <2>1, <2>2, <2>3
<1>6. flight \in [Ptys -> Flight] /\ mark \subseteq Mark
  BY <1>1, <1>2 DEF Lane, Flight, FlightStages, Begun, Announced, Mark, World
<1>7. t = [u EXCEPT !.row = row, !.flight = flight, !.mark = mark]
  BY DEF Staged, stageMailboxPointerEnter, Lane, u
<1>8. flight = [s.flight EXCEPT ![p] = Begun(p, batch)]
  BY <1>1
<1> HIDE DEF batch, row, flight, mark, t
<1>9. t \in Lane /\ t.row = row /\ t.flight = flight /\ t.mark = mark
  BY <1>1, <1>5, <1>6, <1>7 DEF Lane
<1>10. /\ t.parkedOn = u.parkedOn /\ t.parked = u.parked /\ t.queued = u.queued
       /\ t.recheck = u.recheck /\ t.asked = u.asked /\ t.strays = u.strays
  BY <1>1, <1>7 DEF Lane
<1> QED
  BY <1>1, <1>4, <1>5, <1>8, <1>9, <1>10 DEF batch, t, mark

RestStages == {"held", "writing_deferred"}
BeforeEnter == {"writing", "writing_deferred", "writing_ready", "timer", "held", "probing"}

(* The present coordinator was sent an Enter for m. *)
EnteredHere(m) ==
  /\ m \notin returned
  /\ [mail |-> m, process |-> Process(owner), generation |-> generation] \in entered

Told(s) ==
  proc[owner] # "gone" =>
    \A m \in Unread : EnteredHere(m) =>
      \/ s.row[m].delivered
      \/ s.row[m].phase = EnterAttempted /\ s.row[m].target = Process(owner)

Fresh(s) ==
  s.flight[owner].stage \in BeforeEnter =>
    \A m \in s.flight[owner].batch : ~EnteredHere(m)

Memory(s) == Told(s) /\ Fresh(s)

(* What an operation at terminal p may do to flights and rows. *)
Moves(s, t, p) ==
  /\ \A q \in Ptys : q # p => t.flight[q] = s.flight[q]
  /\ t.flight[p].stage \in RestStages => s.flight[p].stage \in RestStages
  /\ \A m \in Mail : t.row[m].phase = EnterAttempted => t.row[m] = s.row[m]

LEMMA MovesTwice ==
  ASSUME NEW s, NEW t, NEW u, NEW p, Moves(s, t, p), Moves(t, u, p)
  PROVE  Moves(s, u, p)
BY DEF Moves

LEMMA MovesNot ==
  ASSUME NEW s, NEW t, NEW p, t.flight = s.flight, t.row = s.row
  PROVE  Moves(s, t, p) /\ (Memory(s) => Memory(t)) /\ (Told(s) => Told(t))
BY DEF Moves, Memory, Told, Fresh

LEMMA AskingKeeps ==
  ASSUME World, NEW s, LaneInv(s), NEW p \in Ptys
  PROVE  LaneInv(Asking(s, p))
<1> DEFINE t == Asking(s, p)
<1>1. t \in Lane /\ t.row = s.row /\ t.flight = s.flight /\ t.mark \subseteq s.mark
  BY AskingFields DEF LaneInv
<1> HIDE DEF t
<1>2. LaneInv(t)
  BY <1>1 DEF LaneInv, RowsSound, FlightsSound, MarksSound, OneTarget, HasFlight
<1> QED
  BY <1>2 DEF t

LEMMA StagedKeeps ==
  ASSUME World, NEW s, LaneInv(s), NEW p \in Ptys, News(s) # {}, Writable(p),
         \A m \in Unread : s.row[m].phase = 0
  PROVE  LET t == Staged(s, p)
         IN  /\ LaneInv(t) /\ Moves(s, t, p)
             /\ p = owner /\ Told(s) => Memory(t)
<1> DEFINE t == Staged(s, p)
           batch == News(s)
<1>1. /\ t \in Lane
      /\ t.flight = [s.flight EXCEPT ![p] = Begun(p, batch)]
      /\ t.mark = {Announced(p, batch)}
      /\ \A m \in Mail : m \notin batch => t.row[m] = s.row[m]
      /\ \A m \in batch : /\ t.row[m].phase = WriteAttempted
                          /\ t.row[m].target = Process(p)
                          /\ t.row[m].delivered = FALSE
  BY StagedFields DEF LaneInv
<1>2. /\ batch \subseteq Unread /\ batch \subseteq 1..arrived /\ batch # {}
      /\ \A m \in batch : s.row[m] = NoPointer
  BY UnreadIsMail DEF News
<1> HIDE DEF t, batch
<1>3. /\ \A q \in Ptys : q # p => t.flight[q] = s.flight[q]
      /\ t.flight[p].stage = "writing" /\ t.flight[p].batch = batch
      /\ t.flight[p].inc = inc[p]
  BY <1>1 DEF LaneInv, Lane, Begun
<1>4. Process(p) \in Processes
  BY DEF Process, Processes, World
<1>5. RowsSound(t)
  <2> SUFFICES ASSUME NEW m \in Mail
               PROVE  /\ t.row[m].phase > 0 <=> t.row[m].target \in Processes
                      /\ t.row[m].phase > 0 \/ t.row[m].delivered => m <= arrived
                      /\ t.row[m].delivered => t.row[m].phase = 0
    BY DEF RowsSound
  <2>1. CASE m \in batch
    <3>1. m <= arrived
      BY <1>2, <2>1
    <3> QED
      BY <1>1, <1>4, <2>1, <3>1, Phases
  <2>2. CASE m \notin batch
    BY <1>1, <2>2 DEF LaneInv, RowsSound
  <2> QED
    BY <2>1, <2>2
<1>6. FlightsSound(t)
  BY <1>2, <1>3 DEF LaneInv, FlightsSound, HasFlight, Writable
<1>7. MarksSound(t)
  BY <1>1, <1>3 DEF MarksSound, Announced, HasFlight
<1>8. OneTarget(t)
  BY <1>1, <1>2, UnreadIsMail DEF OneTarget
<1>9. Moves(s, t, p)
  BY <1>1, <1>2, <1>3, Phases DEF Moves, RestStages
<1>10. ASSUME p = owner, Told(s) PROVE Memory(t)
  <2>1. proc[owner] # "gone" /\ ~NoPointer.delivered /\ NoPointer.phase = 0
    BY <1>10 DEF Writable, NoPointer
  <2>2. \A m \in batch : ~EnteredHere(m)
    BY <1>2, <1>10, <2>1, Phases DEF Told
  <2>3. Told(t)
    BY <1>1, <1>10, <2>2, UnreadIsMail DEF Told
  <2> QED
    BY <1>3, <1>10, <2>2, <2>3 DEF Memory, Fresh
<1> QED
  BY <1>1, <1>5, <1>6, <1>7, <1>8, <1>9, <1>10 DEF LaneInv, t

LEMMA PointKeeps ==
  ASSUME World, NEW s, LaneInv(s), NEW p \in Ptys, NEW skipProbe, NEW known,
         \A m \in Unread : s.row[m].phase = 0
  PROVE  LET t == Point(s, p, skipProbe, known)
         IN  /\ LaneInv(t) /\ Moves(s, t, p)
             /\ p = owner /\ Memory(s) => Memory(t)
<1> DEFINE t == Point(s, p, skipProbe, known)
<1>1. CASE t = s
  BY <1>1, MovesNot
<1>2. CASE t = Asking(s, p)
  <2>1. t.row = s.row /\ t.flight = s.flight
    <3>1. s \in Lane
      BY DEF LaneInv
    <3>2. Asking(s, p).row = s.row /\ Asking(s, p).flight = s.flight
      BY <3>1, AskingFields
    <3> HIDE DEF t
    <3> QED
      BY <1>2, <3>2
  <2>2. LaneInv(t)
    BY <1>2, AskingKeeps
  <2> QED
    BY <2>1, <2>2, MovesNot
<1>3. CASE t = Staged(s, p) /\ News(s) # {} /\ Writable(p)
  BY <1>3, StagedKeeps DEF Memory
<1> QED
  BY <1>1, <1>2, <1>3, PointCases

LEMMA SetRowsMoves ==
  ASSUME World, NEW s, LaneInv(s), NEW rows, NEW delivered \in BOOLEAN, NEW p
  PROVE  LET t == SetRows(s, rows, delivered)
         IN  /\ Moves(s, t, p)
             /\ Fresh(s) => Fresh(t)
             /\ Told(s) /\ (delivered \/ proc[owner] = "gone"
                              \/ \A m \in Unread \cap rows : ~EnteredHere(m)) => Told(t)
<1> DEFINE t == SetRows(s, rows, delivered)
<1>1. /\ t.flight = s.flight
      /\ \A m \in Mail : m \notin rows => t.row[m] = s.row[m]
      /\ \A m \in Mail \cap rows : t.row[m].phase = 0 /\ t.row[m].delivered = delivered
  BY SetRowsFields DEF LaneInv
<1> HIDE DEF t
<1>2. Moves(s, t, p)
  BY <1>1, Phases DEF Moves
<1>3. Fresh(s) => Fresh(t)
  BY <1>1 DEF Fresh
<1>4. ASSUME Told(s), \/ delivered \/ proc[owner] = "gone"
                      \/ \A m \in Unread \cap rows : ~EnteredHere(m)
      PROVE  Told(t)
  BY <1>1, <1>4, UnreadIsMail DEF Told
<1> QED
  BY <1>2, <1>3, <1>4 DEF t

LEMMA SetRowsPhases ==
  ASSUME NEW s \in Lane, NEW rows, NEW delivered \in BOOLEAN, NEW m \in Mail
  PROVE  /\ m \notin rows => SetRows(s, rows, delivered).row[m] = s.row[m]
         /\ m \in rows => SetRows(s, rows, delivered).row[m].phase = 0
BY SetRowsFields

PendingOf(s) == {m \in Unread : s.row[m].phase > 0}

LEMMA ResumeKeeps ==
  ASSUME World, NEW s, LaneInv(s), NEW p \in Ptys, NEW skipProbe, NEW known
  PROVE  LET t == resumePending(s, p, skipProbe, known)
         IN  /\ LaneInv(t) /\ Moves(s, t, p)
             /\ p = owner /\ Memory(s) => Memory(t)
<1> DEFINE t == resumePending(s, p, skipProbe, known)
           pending == PendingOf(s)
           ours == Writable(p) /\ \A m \in pending : s.row[m].target = Process(p)
           settles == ours /\ pending # {} /\ {s.row[m].phase : m \in pending} # {Reserved}
           settled == Held(s, pending, Process(p), {WriteAttempted, EnterAttempted})
           freed == SetRows(s, pending, FALSE)
<1>0. ASSUME NEW m \in Mail
      PROVE  /\ m \notin pending => freed.row[m] = s.row[m]
             /\ m \in pending => freed.row[m].phase = 0
  <2> HIDE DEF pending
  <2>1. s \in Lane /\ FALSE \in BOOLEAN
    BY DEF LaneInv
  <2> QED
    BY <2>1, SetRowsPhases
<1>1. t = IF settles THEN SetRows(s, settled, TRUE) ELSE Point(freed, p, skipProbe, known)
  BY DEF resumePending, settleMailboxPointerEnter, PendingOf
<1>2. CASE settles
  <2>1. \A m \in Mail \cap settled : m <= arrived
    BY UnreadIsMail DEF Held, PendingOf
  <2>2. LaneInv(SetRows(s, settled, TRUE))
    BY <2>1, SetRowsKeeps
  <2>3. /\ Moves(s, SetRows(s, settled, TRUE), p)
        /\ Memory(s) => Memory(SetRows(s, settled, TRUE))
    BY SetRowsMoves DEF Memory
  <2> QED
    BY <1>1, <1>2, <2>2, <2>3
<1>3. CASE ~settles
  <2>1. LaneInv(freed)
    BY SetRowsKeeps
  <2>2. \A m \in Unread : freed.row[m].phase = 0
    <3> HIDE DEF freed, pending
    <3> SUFFICES ASSUME NEW m \in Unread PROVE freed.row[m].phase = 0
      OBVIOUS
    <3>1. m \in Mail /\ s.row[m].phase \in 0..3
      BY UnreadIsMail, Phases DEF LaneInv, Lane, Row
    <3>2. m \notin pending => s.row[m].phase = 0
      BY <3>1 DEF PendingOf, pending
    <3> QED
      BY <1>0, <3>1, <3>2
  <2>3. ASSUME p = owner, Memory(s) PROVE Memory(freed)
    <3>1. proc[owner] = "gone" \/ \A m \in Unread \cap pending : ~EnteredHere(m)
      <4> SUFFICES ASSUME proc[owner] # "gone", NEW m \in pending, EnteredHere(m) PROVE FALSE
        OBVIOUS
      <4>1. m \in Unread /\ m \in Mail /\ s.row[m].phase > 0
        BY UnreadIsMail DEF PendingOf
      <4>2. s.row[m].phase = EnterAttempted /\ s.row[m].target = Process(p)
        BY <2>3, <4>1 DEF Memory, Told, LaneInv, RowsSound
      <4>3. ours
        <5>1. \A n \in pending : s.row[n].target = s.row[m].target
          BY <4>1 DEF LaneInv, OneTarget, PendingOf
        <5> QED
          BY <2>3, <4>2, <5>1 DEF Writable
      <4>4. EnterAttempted \in {s.row[n].phase : n \in pending}
        BY <4>2
      <4>5. {s.row[n].phase : n \in pending} # {Reserved}
        BY <4>4, Phases
      <4> QED
        BY <1>3, <4>3, <4>5
    <3> QED
      BY <2>3, <3>1, SetRowsMoves DEF Memory
  <2>4. Moves(s, freed, p)
    BY SetRowsMoves
  <2>5. LET u == Point(freed, p, skipProbe, known)
        IN  /\ LaneInv(u) /\ Moves(freed, u, p)
            /\ p = owner /\ Memory(freed) => Memory(u)
    BY <2>1, <2>2, PointKeeps
  <2> QED
    BY <1>1, <1>3, <2>3, <2>4, <2>5, MovesTwice
<1> QED
  BY <1>2, <1>3

(* The rows, the flights and the watermark are left alone. *)
Same(s, t) == t \in Lane /\ t.row = s.row /\ t.flight = s.flight /\ t.mark = s.mark

LEMMA Bookkeeping ==
  ASSUME NEW s \in Lane, NEW p \in Ptys, NEW b \in BOOLEAN
  PROVE  /\ Same(s, [s EXCEPT !.recheck[p] = b])
         /\ Same(s, [s EXCEPT !.parkedOn[p] = b])
         /\ Same(s, [s EXCEPT !.parked = b])
         /\ Same(s, [s EXCEPT !.asked[p] = 0])
         /\ Same(s, [s EXCEPT !.queued = @ + 1])
         /\ s.queued > 0 => Same(s, [s EXCEPT !.queued = @ - 1])
<1>1. s.queued + 1 \in Nat /\ (s.queued > 0 => s.queued - 1 \in Nat)
  BY DEF Lane
<1>2. /\ [s.recheck EXCEPT ![p] = b] \in [Ptys -> BOOLEAN]
      /\ [s.parkedOn EXCEPT ![p] = b] \in [Ptys -> BOOLEAN]
      /\ [s.asked EXCEPT ![p] = 0] \in [Ptys -> Nat]
  BY DEF Lane
<1>3. Same(s, [s EXCEPT !.recheck[p] = b])
  BY <1>2 DEF Lane, Same
<1>4. Same(s, [s EXCEPT !.parkedOn[p] = b])
  BY <1>2 DEF Lane, Same
<1>5. Same(s, [s EXCEPT !.parked = b])
  BY DEF Lane, Same
<1>6. Same(s, [s EXCEPT !.asked[p] = 0])
  BY <1>2 DEF Lane, Same
<1>7. Same(s, [s EXCEPT !.queued = @ + 1])
  BY <1>1 DEF Lane, Same
<1>8. s.queued > 0 => Same(s, [s EXCEPT !.queued = @ - 1])
  BY <1>1 DEF Lane, Same
<1> QED
  BY <1>3, <1>4, <1>5, <1>6, <1>7, <1>8

Remembers(s, t) == Memory(s) => Memory(t)

(* What an operation at terminal p promises. *)
Keeps(s, t, p) == LaneInv(t) /\ Moves(s, t, p) /\ (p = owner => Remembers(s, t))

LEMMA KeepsSame ==
  ASSUME NEW s, LaneInv(s), NEW t, Same(s, t), NEW p
  PROVE  Keeps(s, t, p) /\ Remembers(s, t)
BY SameCore, MovesNot DEF Same, Keeps, Remembers

LEMMA KeepsTwice ==
  ASSUME NEW s, NEW t, NEW u, NEW p, Keeps(s, t, p), Keeps(t, u, p)
  PROVE  Keeps(s, u, p)
BY MovesTwice DEF Keeps, Remembers

LEMMA ToStageMoves ==
  ASSUME World, NEW s, LaneInv(s), NEW p \in Ptys, NEW stage \in FlightStages,
         stage = "none" <=> ~HasFlight(s, p),
         s.flight[p].stage = "entering" => stage = "entering"
  PROVE  LET t == ToStage(s, p, stage)
         IN  /\ LaneInv(t) /\ Remembers(s, t)
             /\ (stage \in RestStages => s.flight[p].stage \in RestStages) => Moves(s, t, p)
<1> DEFINE t == ToStage(s, p, stage)
<1>1. LaneInv(t)
  BY ToStageKeeps
<1>2. /\ t.row = s.row
      /\ \A q \in Ptys : q # p => t.flight[q] = s.flight[q]
      /\ t.flight[p].stage = stage /\ t.flight[p].batch = s.flight[p].batch
  BY ToStageFields DEF LaneInv
<1> HIDE DEF t
<1>3. s.flight[p].stage \in FlightStages
  BY DEF LaneInv, Lane, Flight
<1>4. stage \in BeforeEnter => s.flight[p].stage \in BeforeEnter
  BY <1>3 DEF BeforeEnter, FlightStages, HasFlight
<1>5. owner \in Ptys
  BY DEF World
<1>6. Told(s) => Told(t)
  BY <1>2 DEF Told
<1>7. Fresh(s) => Fresh(t)
  BY <1>2, <1>4, <1>5 DEF Fresh
<1>8. Remembers(s, t)
  BY <1>6, <1>7 DEF Memory, Remembers
<1>9. (stage \in RestStages => s.flight[p].stage \in RestStages) => Moves(s, t, p)
  BY <1>2 DEF Moves
<1> QED
  BY <1>1, <1>8, <1>9 DEF t

LEMMA TakeKeeps ==
  ASSUME World, NEW s, LaneInv(s), NEW p \in Ptys
  PROVE  LET t == takeDeferredEnter(s, p)
         IN  /\ Keeps(s, t, p) /\ Remembers(s, t) /\ t \in Lane
             /\ t.flight[p].stage \notin RestStages
             /\ t.row = s.row
<1>1. PICK stage \in FlightStages :
        /\ takeDeferredEnter(s, p) = ToStage(s, p, stage)
        /\ stage = "none" <=> ~HasFlight(s, p)
        /\ stage \notin RestStages
        /\ s.flight[p].stage = "entering" => stage = "entering"
  BY TakeFields DEF LaneInv, RestStages
<1>2. /\ LaneInv(ToStage(s, p, stage)) /\ Remembers(s, ToStage(s, p, stage))
      /\ Moves(s, ToStage(s, p, stage), p)
  BY <1>1, ToStageMoves
<1>3. ToStage(s, p, stage).flight[p].stage = stage /\ ToStage(s, p, stage).row = s.row
  BY ToStageFields DEF LaneInv
<1> QED
  BY <1>1, <1>2, <1>3 DEF Keeps, LaneInv

LEMMA DeliverKeeps ==
  ASSUME World, NEW s, LaneInv(s), NEW p \in Ptys, NEW skipProbe, NEW settled, NEW known
  PROVE  Keeps(s, deliver(s, p, skipProbe, settled, known), p)
<1> DEFINE t == deliver(s, p, skipProbe, settled, known)
           parked == [s EXCEPT !.parked = TRUE]
           refused == [parked EXCEPT !.recheck[p] = TRUE]
           calm == [s EXCEPT !.recheck[p] = FALSE]
           taken == takeDeferredEnter(calm, p)
           onFlight == [taken EXCEPT !.parkedOn[p] = TRUE]
           aside == [calm EXCEPT !.parked = TRUE]
           resumed == resumePending(calm, p, skipProbe, known)
<1>0. s \in Lane
  BY DEF LaneInv
<1>1. Keeps(s, s, p)
  BY <1>0, KeepsSame DEF Same
<1>2. Keeps(s, refused, p)
  <2>1. Same(s, parked) /\ parked \in Lane
    BY <1>0, Bookkeeping DEF Same
  <2>2. Same(parked, refused)
    BY <2>1, Bookkeeping
  <2> QED
    BY <2>1, <2>2, KeepsSame, KeepsTwice DEF Keeps
<1>3. Keeps(s, calm, p) /\ LaneInv(calm) /\ calm \in Lane
  BY <1>0, Bookkeeping, KeepsSame DEF Keeps, LaneInv
<1>4. Keeps(s, onFlight, p)
  <2> HIDE DEF calm
  <2>1. Keeps(calm, taken, p) /\ taken \in Lane
    BY <1>3, TakeKeeps
  <2> HIDE DEF taken
  <2>2. Same(taken, onFlight)
    BY <2>1, Bookkeeping
  <2>3. Keeps(taken, onFlight, p)
    BY <2>1, <2>2, KeepsSame DEF Keeps
  <2> QED
    BY <1>3, <2>1, <2>3, KeepsTwice
<1>5. Keeps(s, aside, p)
  <2> HIDE DEF calm
  <2>1. Same(calm, aside)
    BY <1>3, Bookkeeping
  <2> QED
    BY <1>3, <2>1, KeepsSame, KeepsTwice
<1>6. Keeps(s, resumed, p)
  <2> HIDE DEF calm
  <2>1. Keeps(calm, resumed, p)
    BY <1>3, ResumeKeeps DEF Keeps, Remembers
  <2> QED
    BY <1>3, <2>1, KeepsTwice
<1>7. refused = [s EXCEPT !.parked = TRUE, !.recheck[p] = TRUE]
  OBVIOUS
<1>8. t \in {s, refused, onFlight, aside, calm, resumed}
  BY <1>7 DEF deliver
<1> HIDE DEF t, refused, onFlight, aside, calm, resumed
<1>9. Keeps(s, t, p)
  BY <1>1, <1>2, <1>3, <1>4, <1>5, <1>6, <1>8
<1> QED
  BY <1>9 DEF t

LEMMA DeliverForHandleKeeps ==
  ASSUME World, NEW s, LaneInv(s), NEW settled, NEW known
  PROVE  Keeps(s, deliverForHandle(s, settled, known), owner)
<1>1. owner \in Ptys /\ Same(s, s)
  BY DEF World, LaneInv, Same
<1> QED
  BY <1>1, DeliverKeeps, KeepsSame DEF deliverForHandle

LEMMA RedriveRemembers ==
  ASSUME NEW s, LaneInv(s), NEW force, NEW p
  PROVE  Keeps(s, redrive(s, force), p) /\ Remembers(s, redrive(s, force))
<1>1. Same(s, redrive(s, force))
  BY RedriveFields DEF LaneInv, Same
<1> QED
  BY <1>1, KeepsSame

LEMMA EndedRemembers ==
  ASSUME World, NEW s, LaneInv(s), NEW p \in Ptys, Silent(s, p)
  PROVE  /\ Keeps(s, Ended(s, p), p) /\ Remembers(s, Ended(s, p))
         /\ ~HasFlight(Ended(s, p), p)
<1> DEFINE t == Ended(s, p)
<1>1. LaneInv(t)
  BY EndedKeeps
<1>2. t.row = s.row /\ t.flight = [s.flight EXCEPT ![p] = NoFlight]
  BY EndedFields DEF LaneInv
<1> HIDE DEF t
<1>3. /\ \A q \in Ptys : q # p => t.flight[q] = s.flight[q]
      /\ t.flight[p].stage = "none"
  BY <1>2 DEF LaneInv, Lane, NoFlight
<1>4. Moves(s, t, p)
  BY <1>2, <1>3 DEF Moves, RestStages
<1>5. Remembers(s, t)
  <2>1. Told(s) => Told(t)
    BY <1>2 DEF Told
  <2>2. Fresh(s) => Fresh(t)
    BY <1>3 DEF Fresh, BeforeEnter, World
  <2> QED
    BY <2>1, <2>2 DEF Remembers, Memory
<1> QED
  BY <1>1, <1>3, <1>4, <1>5 DEF Keeps, t, HasFlight

LEMMA SettleKeeps ==
  ASSUME World, NEW s, LaneInv(s), NEW p \in Ptys, Silent(s, p), NEW settled, NEW known
  PROVE  LET t == settle(s, p, settled, known)
         IN  Keeps(s, t, p) /\ Remembers(s, t) /\ (p # owner => t.row = s.row)
<1> DEFINE t == settle(s, p, settled, known)
           ended == Ended(s, p)
           aside == [ended EXCEPT !.parked = TRUE]
<1>1. Keeps(s, ended, p) /\ Remembers(s, ended) /\ ended.row = s.row
  BY EndedRemembers, EndedFields DEF LaneInv
<1>2. LaneInv(ended)
  BY <1>1 DEF Keeps
<1>3. /\ ~s.parkedOn[p] => t = ended
      /\ s.parkedOn[p] /\ p = owner => t = deliver(ended, p, FALSE, settled, known)
      /\ s.parkedOn[p] /\ p # owner => t = redrive(aside, FALSE)
  BY DEF settle, Ended
<1> SUFFICES Keeps(s, t, p) /\ Remembers(s, t) /\ (p # owner => t.row = s.row)
  OBVIOUS
<1> HIDE DEF t, ended
<1>4. CASE ~s.parkedOn[p]
  <2>1. t = ended
    BY <1>3, <1>4
  <2> QED
    BY <1>1, <2>1
<1>5. CASE s.parkedOn[p] /\ p = owner
  <2>1. Keeps(ended, t, p)
    BY <1>2, <1>3, <1>5, DeliverKeeps
  <2>2. Keeps(s, t, p)
    BY <1>1, <2>1, KeepsTwice
  <2> QED
    BY <1>5, <2>2 DEF Keeps
<1>6. CASE s.parkedOn[p] /\ p # owner
  <2>1. Same(ended, aside)
    BY <1>2, Bookkeeping DEF LaneInv
  <2>2. LaneInv(aside) /\ Keeps(ended, aside, p) /\ Remembers(ended, aside)
    BY <1>2, <2>1, KeepsSame DEF Keeps
  <2>3. t = redrive(aside, FALSE)
    BY <1>3, <1>6
  <2>4. aside.row = s.row /\ aside \in Lane
    BY <1>1, <2>1 DEF Same
  <2> HIDE DEF aside
  <2>5. Keeps(aside, t, p) /\ Remembers(aside, t)
    BY <2>2, <2>3, RedriveRemembers
  <2>6. t.row = s.row
    BY <2>3, <2>4, RedriveFields
  <2>7. Keeps(s, t, p)
    BY <1>1, <2>2, <2>5, KeepsTwice
  <2> QED
    BY <1>1, <2>2, <2>5, <2>6, <2>7 DEF Remembers
<1> QED
  BY <1>4, <1>5, <1>6

(* What an operation on rows alone promises, whichever terminal it is for. *)
RowsKept(s, t) ==
  /\ LaneInv(t) /\ t.flight = s.flight /\ t.mark = s.mark
  /\ \A p \in Ptys : Keeps(s, t, p)
  /\ Remembers(s, t)

LEMMA SetRowsSame ==
  ASSUME NEW s, LaneInv(s), NEW rows, NEW delivered \in BOOLEAN
  PROVE  /\ SetRows(s, rows, delivered).flight = s.flight
         /\ SetRows(s, rows, delivered).mark = s.mark
BY SetRowsFields DEF LaneInv

LEMMA HeldRows ==
  ASSUME World, NEW s, LaneInv(s), NEW batch, NEW target, NEW phases, 0 \notin phases,
         NEW m \in Mail \cap Held(s, batch, target, phases)
  PROVE  m <= arrived /\ m \in batch /\ s.row[m].phase \in phases /\ s.row[m].phase > 0
         /\ s.row[m].delivered = FALSE
<1>1. s.row[m].phase \in 0..3 /\ s.row[m].phase \in phases /\ m \in batch
      /\ s.row[m].delivered \in BOOLEAN
  BY Phases DEF LaneInv, Lane, Row, Held
<1>2. s.row[m].phase > 0
  BY <1>1
<1> QED
  BY <1>1, <1>2 DEF LaneInv, RowsSound

LEMMA ReleaseKeeps ==
  ASSUME World, NEW s, LaneInv(s), NEW batch, NEW target, NEW phases,
         phases \subseteq {Reserved, WriteAttempted}
  PROVE  RowsKept(s, releaseMailboxPointerEnter(s, batch, target, phases))
<1> DEFINE rows == Held(s, batch, target, phases) \ read
           t == SetRows(s, rows, FALSE)
<1>1. releaseMailboxPointerEnter(s, batch, target, phases) = t
  BY DEF releaseMailboxPointerEnter
<1>2. LaneInv(t)
  BY SetRowsKeeps
<1>3. t.flight = s.flight /\ t.mark = s.mark
  BY SetRowsSame
<1>4. ASSUME Told(s), proc[owner] # "gone", NEW m \in Unread \cap rows
      PROVE  ~EnteredHere(m)
  <2>1. m \in Mail /\ 0 \notin phases /\ EnterAttempted \notin phases
    BY UnreadIsMail, Phases
  <2>2. m \in Mail \cap Held(s, batch, target, phases)
    BY <2>1
  <2>3. ~s.row[m].delivered /\ s.row[m].phase \in phases
    BY <2>1, <2>2, HeldRows
  <2> QED
    BY <1>4, <2>1, <2>3 DEF Told
<1>5. (Told(s) => Told(t)) /\ (Fresh(s) => Fresh(t)) /\ \A p \in Ptys : Moves(s, t, p)
  <2> HIDE DEF rows
  <2> QED
    BY <1>4, SetRowsMoves
<1> HIDE DEF t
<1> QED
  BY <1>1, <1>2, <1>3, <1>5 DEF RowsKept, Keeps, Remembers, Memory

LEMMA SettleRowsKeeps ==
  ASSUME World, NEW s, LaneInv(s), NEW batch, NEW target, NEW phases, 0 \notin phases
  PROVE  RowsKept(s, settleMailboxPointerEnter(s, batch, target, phases))
<1> DEFINE rows == Held(s, batch, target, phases)
           t == SetRows(s, rows, TRUE)
<1>1. settleMailboxPointerEnter(s, batch, target, phases) = t
  BY DEF settleMailboxPointerEnter
<1>2. \A m \in Mail \cap rows : m <= arrived
  BY HeldRows
<1> HIDE DEF rows
<1>3. LaneInv(t)
  BY <1>2, SetRowsKeeps
<1>4. t.flight = s.flight /\ t.mark = s.mark
  BY SetRowsSame
<1>5. (Told(s) => Told(t)) /\ (Fresh(s) => Fresh(t)) /\ \A p \in Ptys : Moves(s, t, p)
  BY SetRowsMoves
<1> HIDE DEF t
<1> QED
  BY <1>1, <1>3, <1>4, <1>5 DEF RowsKept, Keeps, Remembers, Memory

(* The watermark is cleared or deactivated and the flight settled. *)
MarkMoved(s, t) == LaneInv(t) /\ t.row = s.row /\ t.flight = s.flight

LEMMA MarkMovedKeeps ==
  ASSUME NEW s, NEW t, MarkMoved(s, t), NEW p
  PROVE  Keeps(s, t, p) /\ Remembers(s, t)
BY MovesNot DEF MarkMoved, Keeps, Remembers

LEMMA ClearMoves ==
  ASSUME NEW s, LaneInv(s), NEW p
  PROVE  LET t == clearWatermark(s, p, Max(s.flight[p].batch))
         IN  MarkMoved(s, t) /\ Silent(t, p)
BY ClearKeeps, ClearFields DEF MarkMoved, LaneInv

LEMMA DeactivateMoves ==
  ASSUME NEW s, LaneInv(s), NEW p
  PROVE  LET t == deactivateWatermark(s, p, Max(s.flight[p].batch))
         IN  MarkMoved(s, t) /\ Silent(t, p)
BY DeactivateKeeps, DeactivateFields DEF MarkMoved, LaneInv

(* A flight ends by clearing its watermark after its rows were dealt with in "u". *)
LEMMA ClearAndSettle ==
  ASSUME World, NEW s, LaneInv(s), NEW u, RowsKept(s, u), NEW p \in Ptys,
         NEW settled, NEW known
  PROVE  LET t == settle(clearWatermark(u, p, Max(s.flight[p].batch)), p, settled, known)
         IN  Keeps(s, t, p) /\ Remembers(s, t)
<1> DEFINE v == clearWatermark(u, p, Max(s.flight[p].batch))
           t == settle(v, p, settled, known)
<1>1. LaneInv(u) /\ u.flight = s.flight /\ Keeps(s, u, p) /\ Remembers(s, u)
  BY DEF RowsKept
<1>2. MarkMoved(u, v) /\ Silent(v, p)
  BY <1>1, ClearMoves
<1> HIDE DEF v
<1>3. LaneInv(v) /\ Keeps(u, v, p) /\ Remembers(u, v)
  BY <1>2, MarkMovedKeeps DEF MarkMoved
<1>4. Keeps(v, t, p) /\ Remembers(v, t)
  BY <1>2, <1>3, SettleKeeps
<1> HIDE DEF t
<1>5. Keeps(s, t, p)
  BY <1>1, <1>3, <1>4, KeepsTwice
<1>6. Remembers(s, t)
  BY <1>1, <1>3, <1>4 DEF Remembers
<1> QED
  BY <1>5, <1>6 DEF t, v

LEMMA DeactivateAndSettle ==
  ASSUME World, NEW s, LaneInv(s), NEW p \in Ptys, NEW settled, NEW known
  PROVE  LET t == settle(deactivateWatermark(s, p, Max(s.flight[p].batch)), p, settled, known)
         IN  Keeps(s, t, p) /\ Remembers(s, t)
<1> DEFINE v == deactivateWatermark(s, p, Max(s.flight[p].batch))
           t == settle(v, p, settled, known)
<1>1. MarkMoved(s, v) /\ Silent(v, p)
  BY DeactivateMoves
<1> HIDE DEF v
<1>2. LaneInv(v) /\ Keeps(s, v, p) /\ Remembers(s, v)
  BY <1>1, MarkMovedKeeps DEF MarkMoved
<1>3. Keeps(v, t, p) /\ Remembers(v, t)
  BY <1>1, <1>2, SettleKeeps
<1> HIDE DEF t
<1>4. Keeps(s, t, p)
  BY <1>2, <1>3, KeepsTwice
<1>5. Remembers(s, t)
  BY <1>2, <1>3 DEF Remembers
<1> QED
  BY <1>4, <1>5 DEF t, v

LEMMA ThenRedrive ==
  ASSUME NEW s, NEW t, NEW p, Keeps(s, t, p), Remembers(s, t), NEW force
  PROVE  Keeps(s, redrive(t, force), p) /\ Remembers(s, redrive(t, force))
<1>1. LaneInv(t)
  BY DEF Keeps
<1>2. Keeps(t, redrive(t, force), p) /\ Remembers(t, redrive(t, force))
  BY <1>1, RedriveRemembers
<1>3. Keeps(s, redrive(t, force), p)
  BY <1>2, KeepsTwice
<1> QED
  BY <1>2, <1>3 DEF Remembers

LEMMA ClearAndRedriveKeeps ==
  ASSUME World, NEW s, LaneInv(s), NEW p \in Ptys, NEW settled, NEW known
  PROVE  LET t == ClearAndRedrive(s, p, settled, known)
         IN  Keeps(s, t, p) /\ Remembers(s, t)
<1> DEFINE u == releaseMailboxPointerEnter(s, s.flight[p].batch, <<p, s.flight[p].inc>>,
                                           {WriteAttempted})
           freed == settle(clearWatermark(u, p, Max(s.flight[p].batch)), p, settled, known)
           t == ClearAndRedrive(s, p, settled, known)
<1>1. RowsKept(s, u)
  BY ReleaseKeeps
<1>2. t \in {freed, redrive(freed, TRUE)}
  BY DEF ClearAndRedrive
<1> HIDE DEF u
<1>3. Keeps(s, freed, p) /\ Remembers(s, freed)
  BY <1>1, ClearAndSettle
<1> HIDE DEF freed
<1>4. Keeps(s, redrive(freed, TRUE), p) /\ Remembers(s, redrive(freed, TRUE))
  BY <1>3, ThenRedrive
<1> HIDE DEF t
<1>5. Keeps(s, t, p) /\ Remembers(s, t)
  BY <1>2, <1>3, <1>4
<1> QED
  BY <1>5 DEF t

LEMMA CountAsDeliveredKeeps ==
  ASSUME World, NEW s, LaneInv(s), NEW p \in Ptys, NEW phase, phase # 0,
         NEW settled, NEW known
  PROVE  LET t == CountAsDelivered(s, p, phase, settled, known)
         IN  Keeps(s, t, p) /\ Remembers(s, t)
<1> DEFINE u == settleMailboxPointerEnter(s, s.flight[p].batch, <<p, s.flight[p].inc>>, {phase})
           t == CountAsDelivered(s, p, phase, settled, known)
<1>1. RowsKept(s, u)
  BY SettleRowsKeeps
<1>2. t = settle(clearWatermark(u, p, Max(s.flight[p].batch)), p, settled, known)
  BY DEF CountAsDelivered
<1> HIDE DEF u, t
<1>3. Keeps(s, t, p) /\ Remembers(s, t)
  BY <1>1, <1>2, ClearAndSettle
<1> QED
  BY <1>3 DEF t

LEMMA KeepInDoubtKeeps ==
  ASSUME World, NEW s, LaneInv(s), NEW p \in Ptys, NEW settled, NEW known
  PROVE  LET t == KeepInDoubt(s, p, settled, known)
         IN  Keeps(s, t, p) /\ Remembers(s, t)
<1> DEFINE kept == settle(deactivateWatermark(s, p, Max(s.flight[p].batch)), p, settled, known)
           t == KeepInDoubt(s, p, settled, known)
<1>1. t \in {kept, redrive(kept, FALSE)}
  BY DEF KeepInDoubt
<1>2. Keeps(s, kept, p) /\ Remembers(s, kept)
  BY DeactivateAndSettle
<1> HIDE DEF kept
<1>3. Keeps(s, redrive(kept, FALSE), p) /\ Remembers(s, redrive(kept, FALSE))
  BY <1>2, ThenRedrive
<1> HIDE DEF t
<1>4. Keeps(s, t, p) /\ Remembers(s, t)
  BY <1>1, <1>2, <1>3
<1> QED
  BY <1>4 DEF t

LEMMA RetireKeeps ==
  ASSUME World, NEW s, LaneInv(s), NEW p \in Ptys
  PROVE  LET t == retirePty(s, p)
         IN  Keeps(s, t, p) /\ Remembers(s, t) /\ ~HasFlight(t, p)
<1> DEFINE f == s.flight[p]
           marks == {w \in s.mark : w.pty = p}
           u == releaseMailboxPointerEnter(s, f.batch, <<p, f.inc>>, {Reserved, WriteAttempted})
           unmarked == [u EXCEPT !.mark = @ \ marks]
           ended == Ended(unmarked, p)
           strays == IF f.stage = "probing"
                     THEN u.strays \cup {[pty |-> p, sequence |-> Max(f.batch)]} ELSE u.strays
           dropped == [ended EXCEPT !.strays = strays]
           t == retirePty(s, p)
<1>1. RowsKept(s, u)
  BY ReleaseKeeps
<1>2. /\ LaneInv(u) /\ u \in Lane /\ u.flight = s.flight /\ u.mark = s.mark
      /\ Keeps(s, u, p) /\ Remembers(s, u)
  BY <1>1 DEF RowsKept, LaneInv
<1>3. t = IF marks = {} THEN dropped ELSE redrive(dropped, TRUE)
  <2>1. dropped = [u EXCEPT !.flight[p] = NoFlight, !.parkedOn[p] = FALSE,
                            !.mark = @ \ marks, !.strays = strays]
    BY <1>2 DEF Ended, Lane
  <2>2. strays = IF f.stage = "probing"
                 THEN u.strays \cup {[pty |-> p, sequence |-> Max(f.batch)]} ELSE u.strays
    OBVIOUS
  <2> HIDE DEF dropped, strays
  <2> QED
    BY <2>1, <2>2 DEF retirePty
<1> HIDE DEF t, u
<1>4. /\ unmarked \in Lane /\ unmarked.row = u.row /\ unmarked.flight = u.flight
      /\ unmarked.mark = {w \in s.mark : w.pty # p}
      /\ unmarked.strays = u.strays
  BY <1>2 DEF Lane
<1> HIDE DEF unmarked
<1>5. MarkMoved(u, unmarked) /\ Silent(unmarked, p)
  <2>1. LaneInv(unmarked)
    BY <1>2, <1>4 DEF LaneInv, RowsSound, FlightsSound, MarksSound, OneTarget, HasFlight
  <2>2. Silent(unmarked, p)
    BY <1>4 DEF Silent
  <2> QED
    BY <1>4, <2>1, <2>2 DEF MarkMoved
<1>6. Keeps(s, unmarked, p) /\ Remembers(s, unmarked) /\ LaneInv(unmarked)
  <2>1. Keeps(u, unmarked, p) /\ Remembers(u, unmarked)
    BY <1>5, MarkMovedKeeps
  <2> QED
    BY <1>2, <1>5, <2>1, KeepsTwice DEF Remembers, MarkMoved
<1>7. /\ Keeps(s, ended, p) /\ Remembers(s, ended) /\ LaneInv(ended) /\ ~HasFlight(ended, p)
      /\ ended.row = unmarked.row
  <2>1. Keeps(unmarked, ended, p) /\ Remembers(unmarked, ended) /\ ~HasFlight(ended, p)
    BY <1>5, <1>6, EndedRemembers
  <2>2. ended.row = unmarked.row
    BY <1>4, EndedFields
  <2> QED
    BY <1>6, <2>1, <2>2, KeepsTwice DEF Remembers, Keeps
<1>8. Same(ended, dropped)
  <2>1. f.stage = "probing" => Max(f.batch) \in Nat
    <3> HAVE f.stage = "probing"
    <3>1. f.batch # {} /\ f.batch \in SUBSET (1..arrived) /\ arrived \in Nat
      BY UnreadIsMail DEF LaneInv, FlightsSound, HasFlight
    <3>2. \A m \in f.batch : m \in Nat
      BY <3>1
    <3> QED
      BY <3>1, <3>2, MaxOfBatch
  <2>2. strays \in SUBSET Stray
    BY <1>2, <2>1 DEF Lane, Stray
  <2> HIDE DEF strays
  <2>3. ended \in Lane
    BY <1>7 DEF LaneInv
  <2> HIDE DEF ended
  <2> QED
    BY <2>2, <2>3 DEF Same, Lane
<1> HIDE DEF ended, dropped
<1>9. /\ Keeps(s, dropped, p) /\ Remembers(s, dropped) /\ dropped \in Lane
      /\ dropped.row = u.row /\ dropped.flight = ended.flight
  <2>1. Keeps(ended, dropped, p) /\ Remembers(ended, dropped)
    BY <1>7, <1>8, KeepsSame
  <2> QED
    BY <1>4, <1>7, <1>8, <2>1, KeepsTwice DEF Remembers, Same
<1>10. /\ Keeps(s, redrive(dropped, TRUE), p) /\ Remembers(s, redrive(dropped, TRUE))
       /\ redrive(dropped, TRUE).row = u.row /\ redrive(dropped, TRUE).flight = ended.flight
  BY <1>9, ThenRedrive, RedriveFields
<1>11. Keeps(s, t, p) /\ Remembers(s, t) /\ t.flight = ended.flight /\ t.row = u.row
  BY <1>3, <1>9, <1>10
<1>12. ~HasFlight(t, p)
  BY <1>7, <1>11 DEF HasFlight
<1> QED
  BY <1>11, <1>12 DEF t, u

LEMMA ReleaseForPtyKeeps ==
  ASSUME World, NEW s, LaneInv(s), NEW p \in Ptys
  PROVE  LET t == releasePendingMailboxPointerForPty(s, p)
         IN  Keeps(s, t, p) /\ Remembers(s, t)
<1> DEFINE pending == {m \in Mail : s.row[m].phase > 0 /\ s.row[m].target[1] = p}
           reserved == {m \in pending : s.row[m].phase = Reserved}
           u == SetRows(s, pending, TRUE)
           t == SetRows(u, reserved, FALSE)
<1>1. releasePendingMailboxPointerForPty(s, p) = t
  BY DEF releasePendingMailboxPointerForPty
<1>2. \A m \in Mail \cap pending : m <= arrived
  BY DEF LaneInv, RowsSound
<1>3. ASSUME Told(s), proc[owner] # "gone", NEW m \in Unread \cap reserved
      PROVE  ~EnteredHere(m)
  <2>1. m \in Mail /\ s.row[m].phase = 1
    BY Phases
  <2>2. ~s.row[m].delivered
    BY <2>1 DEF LaneInv, RowsSound
  <2> QED
    BY <1>3, <2>1, <2>2, Phases DEF Told
<1> HIDE DEF pending, reserved
<1>4. LaneInv(u) /\ Moves(s, u, p) /\ (Fresh(s) => Fresh(u)) /\ (Told(s) => Told(u))
  BY <1>2, SetRowsKeeps, SetRowsMoves
<1> HIDE DEF u
<1>5. LaneInv(t) /\ Moves(u, t, p) /\ (Fresh(u) => Fresh(t))
  BY <1>4, SetRowsKeeps, SetRowsMoves
<1>6. Told(s) => Told(t)
  BY <1>3, <1>4, SetRowsMoves
<1> HIDE DEF t
<1>7. Moves(s, t, p)
  BY <1>4, <1>5, MovesTwice
<1> QED
  BY <1>1, <1>4, <1>5, <1>6, <1>7 DEF Keeps, Remembers, Memory

(* A flight that failed or was read meanwhile ends. *)
LEMMA ThenSettle ==
  ASSUME World, NEW s, NEW v, NEW p \in Ptys, Keeps(s, v, p), Silent(v, p),
         NEW settled, NEW known
  PROVE  Keeps(s, settle(v, p, settled, known), p)
<1> DEFINE t == settle(v, p, settled, known)
<1>1. LaneInv(v)
  BY DEF Keeps
<1>2. Keeps(v, t, p)
  BY <1>1, SettleKeeps
<1> HIDE DEF t
<1>3. Keeps(s, t, p)
  BY <1>2, KeepsTwice
<1> QED
  BY <1>3 DEF t

LEMMA RedriveSilent ==
  ASSUME NEW s, NEW v, NEW p, Keeps(s, v, p), Silent(v, p), NEW force
  PROVE  Keeps(s, redrive(v, force), p) /\ Silent(redrive(v, force), p)
<1>1. LaneInv(v) /\ v \in Lane
  BY DEF Keeps, LaneInv
<1>2. Keeps(v, redrive(v, force), p)
  BY <1>1, RedriveRemembers
<1>3. Keeps(s, redrive(v, force), p)
  BY <1>2, KeepsTwice
<1>4. redrive(v, force).mark = v.mark
  BY <1>1, RedriveFields
<1> QED
  BY <1>3, <1>4 DEF Silent

LEMMA PointerWriteKeeps ==
  ASSUME World, LaneInv(lane), NEW p \in Ptys, NEW outcome, NEW enterless, NEW settled,
         NEW known, finishPointerWrite(p, outcome, enterless, settled, known)
  PROVE  Keeps(lane, lane', p)
<1> DEFINE f == lane.flight[p]
           newest == Max(f.batch)
           cleared == clearWatermark(lane, p, newest)
           undelivered == markAsUndelivered(cleared, f.batch)
           delivered == markAsDelivered(cleared, f.batch)
           next == CASE f.stage = "writing" -> "timer"
                     [] f.stage = "writing_deferred" -> "held"
                     [] OTHER -> "probing"
<1>0. f.stage \in {"writing", "writing_deferred", "writing_ready"}
  BY DEF finishPointerWrite
<1>1. MarkMoved(lane, cleared) /\ Silent(cleared, p)
  BY ClearMoves
<1> HIDE DEF cleared
<1>2. Keeps(lane, cleared, p) /\ LaneInv(cleared) /\ cleared.flight = lane.flight
  BY <1>1, MarkMovedKeeps DEF MarkMoved
<1>3. \A m \in Mail \cap f.batch : m <= arrived
  BY DEF LaneInv, FlightsSound
<1>4. Keeps(lane, undelivered, p) /\ Silent(undelivered, p)
  <2> DEFINE rows == f.batch \ read
  <2>1. undelivered = SetRows(cleared, rows, FALSE)
    BY DEF markAsUndelivered
  <2>2. ASSUME p = owner, Fresh(cleared), NEW m \in Unread \cap rows
        PROVE  ~EnteredHere(m)
    BY <1>0, <1>2, <2>2 DEF Fresh, BeforeEnter
  <2> HIDE DEF rows, undelivered
  <2>3. LaneInv(undelivered) /\ Moves(cleared, undelivered, p)
    BY <1>2, <2>1, SetRowsKeeps, SetRowsMoves
  <2>4. p = owner => Remembers(cleared, undelivered)
    BY <1>2, <2>1, <2>2, SetRowsMoves DEF Remembers, Memory
  <2>5. undelivered.mark = cleared.mark
    BY <1>2, <2>1, SetRowsSame
  <2> QED
    BY <1>1, <1>2, <2>3, <2>4, <2>5, KeepsTwice DEF Keeps, Silent
<1>5. Keeps(lane, delivered, p) /\ Silent(delivered, p)
  <2>1. delivered = SetRows(cleared, f.batch, TRUE)
    BY DEF markAsDelivered
  <2> HIDE DEF delivered
  <2>2. LaneInv(delivered) /\ Moves(cleared, delivered, p)
    BY <1>2, <1>3, <2>1, SetRowsKeeps, SetRowsMoves
  <2>3. Remembers(cleared, delivered)
    BY <1>2, <2>1, SetRowsMoves DEF Remembers, Memory
  <2>4. delivered.mark = cleared.mark
    BY <1>2, <2>1, SetRowsSame
  <2> QED
    BY <1>1, <1>2, <2>2, <2>3, <2>4, KeepsTwice DEF Keeps, Silent
<1> DEFINE unverifiable == settle(deactivateWatermark(lane, p, newest), p, settled, known)
           refused(s) == settle(s, p, settled, known)
           gone == settle(redrive(delivered, FALSE), p, settled, known)
           onward == ToStage(lane, p, next)
<1>6. \/ lane' = unverifiable
      \/ lane' = refused(undelivered) \/ lane' = refused(redrive(undelivered, FALSE))
      \/ lane' = refused(cleared) \/ lane' = refused(redrive(cleared, FALSE))
      \/ lane' = gone \/ lane' = onward
  BY DEF finishPointerWrite, ToStage, cleared
<1>7. Keeps(lane, unverifiable, p)
  BY DeactivateAndSettle
<1> HIDE DEF undelivered, delivered
<1>8. Keeps(lane, refused(undelivered), p) /\ Keeps(lane, refused(redrive(undelivered, FALSE)), p)
  <2>1. /\ Keeps(lane, redrive(undelivered, FALSE), p)
        /\ Silent(redrive(undelivered, FALSE), p)
    BY <1>4, RedriveSilent
  <2> QED
    BY <1>4, <2>1, ThenSettle
<1>9. Keeps(lane, refused(cleared), p) /\ Keeps(lane, refused(redrive(cleared, FALSE)), p)
  <2>1. Keeps(lane, redrive(cleared, FALSE), p) /\ Silent(redrive(cleared, FALSE), p)
    BY <1>1, <1>2, RedriveSilent
  <2> QED
    BY <1>1, <1>2, <2>1, ThenSettle
<1>10. Keeps(lane, gone, p)
  <2>1. Keeps(lane, redrive(delivered, FALSE), p) /\ Silent(redrive(delivered, FALSE), p)
    BY <1>5, RedriveSilent
  <2> QED
    BY <2>1, ThenSettle
<1>11. Keeps(lane, onward, p)
  <2>1. /\ next \in FlightStages /\ next # "none" /\ HasFlight(lane, p)
        /\ next \in RestStages => f.stage \in RestStages
        /\ f.stage # "entering"
    BY <1>0 DEF FlightStages, RestStages, HasFlight
  <2> HIDE DEF next
  <2>2. LaneInv(onward) /\ Remembers(lane, onward) /\ Moves(lane, onward, p)
    BY <2>1, ToStageMoves
  <2> QED
    BY <2>2 DEF Keeps
<1> HIDE DEF unverifiable, refused, gone, onward
<1> QED
  BY <1>6, <1>7, <1>8, <1>9, <1>10, <1>11

(* An Enter was pressed in a generation, and for a process, not later than the present ones;
   in the present generation it was for the coordinator. *)
EnteredPast ==
  /\ entered \subseteq [mail : Nat, process : Processes, generation : Nat]
  /\ \A e \in entered : /\ e.mail <= arrived /\ e.generation <= generation
                        /\ e.process[2] <= inc[e.process[1]]
                        /\ e.generation = generation => e.process[1] = owner

RestIsAwaited == \A p \in Ptys : lane.flight[p].stage \in RestStages => status[p] # "idle"

MailboxInv == World /\ LaneInv(lane) /\ RestIsAwaited /\ EnteredPast /\ Memory(lane)

LEMMA LaneInvAgain ==
  ASSUME LaneInv(lane'), UNCHANGED <<arrived, read, proc, inc>>
  PROVE  LaneInv(lane)'
<1>1. Unread' = Unread /\ Lane' = Lane
  BY DEF Unread, Lane, Row, Flight, Mark, Stray, Mail, Processes
<1>2. lane' \in Lane
  BY DEF LaneInv
<1>3. RowsSound(lane)' /\ MarksSound(lane)'
  BY DEF LaneInv, RowsSound, MarksSound, HasFlight
<1>4. FlightsSound(lane)'
  BY DEF LaneInv, FlightsSound, HasFlight
<1>5. OneTarget(lane)'
  BY <1>1 DEF LaneInv, OneTarget
<1> QED
  BY <1>1, <1>2, <1>3, <1>4, <1>5 DEF LaneInv

LEMMA MemoryAgain ==
  ASSUME Memory(lane'), UNCHANGED <<arrived, read, owner, generation, proc, inc, entered>>,
         returned \subseteq returned'
  PROVE  Memory(lane)'
<1>1. Unread' = Unread /\ Process(owner)' = Process(owner)
  BY DEF Unread, Process
<1>2. \A m \in Unread \cup lane'.flight[owner].batch : EnteredHere(m)' => EnteredHere(m)
  BY <1>1 DEF EnteredHere
<1>3. Told(lane)'
  BY <1>1, <1>2 DEF Memory, Told
<1>4. Fresh(lane)'
  BY <1>2 DEF Memory, Fresh
<1> QED
  BY <1>3, <1>4 DEF Memory

LEMMA WorldAgain ==
  ASSUME World, EnteredPast, UNCHANGED <<arrived, read, owner, generation, proc, inc, status, entered>>
  PROVE  World' /\ EnteredPast'
BY DEF World, EnteredPast, Processes

LEMMA RestAgain ==
  ASSUME RestIsAwaited, UNCHANGED status, NEW p \in Ptys, Moves(lane, lane', p)
  PROVE  RestIsAwaited'
BY DEF RestIsAwaited, Moves

(* A step of the lane that does not disturb the memory of the Enters. *)
LEMMA PlainStep ==
  ASSUME MailboxInv, UNCHANGED <<arrived, reader, terminals, entered, returned>>,
         NEW p \in Ptys, Keeps(lane, lane', p), p = owner \/ Remembers(lane, lane')
  PROVE  MailboxInv'
<1>1. UNCHANGED <<arrived, read, owner, generation, proc, inc, status, entered, returned>>
  BY DEF reader, terminals
<1>2. LaneInv(lane') /\ Moves(lane, lane', p) /\ Memory(lane')
  BY DEF MailboxInv, Keeps, Remembers
<1> QED
  BY <1>1, <1>2, LaneInvAgain, MemoryAgain, WorldAgain, RestAgain DEF MailboxInv

(* A step for a terminal that may not be the coordinator's, which accounts for what it
   put back. *)
LEMMA PutBackStep ==
  ASSUME MailboxInv, UNCHANGED <<arrived, reader, terminals, entered>>,
         NEW p \in Ptys, Keeps(lane, lane', p), returned' = returned \cup PutBack(p)
  PROVE  MailboxInv'
<1>1. UNCHANGED <<arrived, read, owner, generation, proc, inc, status, entered>>
  BY DEF reader, terminals
<1>2. LaneInv(lane') /\ Moves(lane, lane', p)
  BY DEF Keeps
<1>3. CASE p = owner
  <2>1. Memory(lane')
    BY <1>3 DEF MailboxInv, Keeps, Remembers
  <2> QED
    BY <1>1, <1>2, <2>1, LaneInvAgain, MemoryAgain, WorldAgain, RestAgain DEF MailboxInv
<1>4. CASE p # owner
  <2>1. Unread' = Unread /\ Process(owner)' = Process(owner) /\ owner \in Ptys
    BY <1>1 DEF Unread, Process, MailboxInv, World
  <2>2. lane'.flight[owner] = lane.flight[owner]
    BY <1>2, <1>4, <2>1 DEF Moves
  <2>3. \A m : EnteredHere(m)' => EnteredHere(m) /\ m \notin PutBack(p)
    BY <1>1, <2>1 DEF EnteredHere
  <2>4. Fresh(lane)'
    BY <1>1, <2>2, <2>3 DEF MailboxInv, Memory, Fresh
  <2>5. Told(lane)'
    <3> SUFFICES ASSUME proc[owner] # "gone", NEW m \in Unread, EnteredHere(m)'
                 PROVE  \/ lane'.row[m].delivered
                        \/ /\ lane'.row[m].phase = EnterAttempted
                           /\ lane'.row[m].target = Process(owner)
      BY <1>1, <2>1 DEF Told
    <3>1. m \in Mail
      BY UnreadIsMail DEF MailboxInv
    <3>2. \/ lane.row[m].delivered
          \/ lane.row[m].phase = EnterAttempted /\ lane.row[m].target = Process(owner)
      BY <2>3 DEF MailboxInv, Memory, Told
    <3>3. lane'.row[m].phase = EnterAttempted \/ lane'.row[m].delivered
      BY <1>4, <2>3, <3>2 DEF PutBack
    <3>4. CASE lane'.row[m].phase = EnterAttempted
      <4>1. lane'.row[m] = lane.row[m]
        BY <1>2, <3>1, <3>4 DEF Moves
      <4> QED
        BY <3>2, <3>4, <4>1
    <3> QED
      BY <3>3, <3>4
  <2>6. LaneInv(lane)' /\ World' /\ EnteredPast' /\ RestIsAwaited'
    BY <1>1, <1>2, LaneInvAgain, WorldAgain, RestAgain DEF MailboxInv
  <2> QED
    BY <2>4, <2>5, <2>6 DEF MailboxInv, Memory
<1> QED
  BY <1>3, <1>4

LEMMA QueuedStep ==
  ASSUME MailboxInv, NEW settled, NEW known, QueuedDelivery(settled, known)
  PROVE  MailboxInv'
<1> DEFINE s == [lane EXCEPT !.queued = @ - 1]
<1>1. /\ lane.queued > 0 /\ lane' = deliverForHandle(s, settled, known)
      /\ UNCHANGED <<arrived, reader, terminals, history>>
  BY DEF QueuedDelivery
<1>2. owner \in Ptys /\ LaneInv(lane) /\ World /\ lane \in Lane
  BY DEF MailboxInv, World, LaneInv
<1>3. Same(lane, s)
  BY <1>1, <1>2, Bookkeeping
<1> HIDE DEF s
<1>4. Keeps(lane, s, owner) /\ LaneInv(s)
  BY <1>2, <1>3, KeepsSame DEF Keeps
<1>5. Keeps(s, lane', owner)
  BY <1>1, <1>2, <1>4, DeliverForHandleKeeps
<1>6. Keeps(lane, lane', owner)
  BY <1>4, <1>5, KeepsTwice
<1> QED
  BY <1>1, <1>2, <1>6, PlainStep DEF history

LEMMA RepointStep ==
  ASSUME MailboxInv, NEW settled, NEW known, repointPendingMessages(settled, known)
  PROVE  MailboxInv'
<1>1. /\ lane' = deliverForHandle(lane, settled, known)
      /\ UNCHANGED <<arrived, reader, terminals, history>>
  BY DEF repointPendingMessages
<1>2. owner \in Ptys /\ LaneInv(lane) /\ World
  BY DEF MailboxInv, World
<1>3. Keeps(lane, lane', owner)
  BY <1>1, <1>2, DeliverForHandleKeeps
<1> QED
  BY <1>1, <1>2, <1>3, PlainStep DEF history

LEMMA RecheckStep ==
  ASSUME MailboxInv, NEW p \in Ptys, NEW settled, NEW known,
         DeliveryRecheck(p, settled, known)
  PROVE  MailboxInv'
<1> DEFINE s == [lane EXCEPT !.recheck[p] = FALSE]
<1>1. /\ lane' = IF p = owner THEN deliver(s, p, FALSE, TRUE, known) ELSE s
      /\ UNCHANGED <<arrived, reader, terminals, history>>
  BY DEF DeliveryRecheck
<1>2. LaneInv(lane) /\ World /\ lane \in Lane
  BY DEF MailboxInv, LaneInv
<1>3. Same(lane, s)
  BY <1>2, Bookkeeping
<1> HIDE DEF s
<1>4. Keeps(lane, s, p) /\ LaneInv(s) /\ Remembers(lane, s)
  BY <1>2, <1>3, KeepsSame DEF Keeps
<1>5. CASE p = owner
  <2>1. Keeps(s, lane', p)
    BY <1>1, <1>2, <1>4, <1>5, DeliverKeeps
  <2>2. Keeps(lane, lane', p)
    BY <1>4, <2>1, KeepsTwice
  <2> QED
    BY <1>1, <1>5, <2>2, PlainStep DEF history
<1>6. CASE p # owner
  <2>1. lane' = s
    BY <1>1, <1>6
  <2> QED
    BY <1>1, <1>4, <2>1, PlainStep DEF history
<1> QED
  BY <1>5, <1>6

LEMMA ProbeStep ==
  ASSUME MailboxInv, NEW p \in Ptys, NEW absent, NEW settled,
         AbsenceAnswered(p, absent, settled)
  PROVE  MailboxInv'
<1> DEFINE s == [lane EXCEPT !.asked[p] = 0]
<1>1. /\ lane' \in {s, deliver(s, p, TRUE, settled, TRUE)}
      /\ UNCHANGED <<arrived, reader, terminals, entered>>
      /\ returned' = returned \cup PutBack(p)
  BY DEF AbsenceAnswered
<1>2. LaneInv(lane) /\ World /\ lane \in Lane
  BY DEF MailboxInv, LaneInv
<1>3. Same(lane, s)
  BY <1>2, Bookkeeping
<1> HIDE DEF s
<1>4. Keeps(lane, s, p) /\ LaneInv(s)
  BY <1>2, <1>3, KeepsSame DEF Keeps
<1>5. Keeps(s, deliver(s, p, TRUE, settled, TRUE), p)
  BY <1>2, <1>4, DeliverKeeps
<1>6. Keeps(lane, lane', p)
  BY <1>1, <1>4, <1>5, KeepsTwice
<1> QED
  BY <1>1, <1>6, PutBackStep

LEMMA PointerWriteStep ==
  ASSUME MailboxInv, NEW p \in Ptys, NEW outcome, NEW enterless, NEW settled,
         NEW known, finishPointerWrite(p, outcome, enterless, settled, known)
  PROVE  MailboxInv'
<1>1. /\ UNCHANGED <<arrived, reader, terminals, entered>>
      /\ returned' = returned \cup PutBack(p)
  BY DEF finishPointerWrite
<1>2. Keeps(lane, lane', p)
  BY PointerWriteKeeps DEF MailboxInv
<1> QED
  BY <1>1, <1>2, PutBackStep

LEMMA TimerStep ==
  ASSUME MailboxInv, NEW p \in Ptys, EnterTimer(p)
  PROVE  MailboxInv'
<1>1. /\ lane.flight[p].stage = "timer" /\ lane' = ToStage(lane, p, "probing")
      /\ UNCHANGED <<arrived, reader, terminals, history>>
  BY DEF EnterTimer, ToStage
<1>2. Keeps(lane, lane', p) /\ Remembers(lane, lane')
  BY <1>1, ToStageMoves DEF MailboxInv, FlightStages, RestStages, HasFlight, Keeps
<1> QED
  BY <1>1, <1>2, PlainStep DEF history

LEMMA EnterWriteStep ==
  ASSUME MailboxInv, NEW p \in Ptys, NEW outcome \in Outcomes, NEW settled, NEW known,
         finishEnterWrite(p, outcome, settled, known)
  PROVE  MailboxInv'
<1> DEFINE counted == CountAsDelivered(lane, p, EnterAttempted, settled, known)
           kept == KeepInDoubt(lane, p, settled, known)
<1>1. UNCHANGED <<arrived, reader, terminals, entered, returned>>
  BY DEF finishEnterWrite
<1>2. lane' \in {counted, redrive(counted, FALSE), kept}
  BY MailboxAssumption DEF finishEnterWrite
<1>3. LaneInv(lane) /\ World /\ EnterAttempted # 0
  BY Phases DEF MailboxInv
<1>4. Keeps(lane, counted, p) /\ Remembers(lane, counted)
  BY <1>3, CountAsDeliveredKeeps
<1>5. Keeps(lane, kept, p) /\ Remembers(lane, kept)
  BY <1>3, KeepInDoubtKeeps
<1> HIDE DEF counted, kept
<1>6. Keeps(lane, redrive(counted, FALSE), p) /\ Remembers(lane, redrive(counted, FALSE))
  BY <1>4, ThenRedrive
<1>7. Keeps(lane, lane', p) /\ Remembers(lane, lane')
  BY <1>2, <1>4, <1>5, <1>6
<1> QED
  BY <1>1, <1>7, PlainStep

LEMMA StrayStep ==
  ASSUME MailboxInv, NEW stray \in lane.strays, NEW absent, StrayAnswered(stray, absent)
  PROVE  MailboxInv'
<1> DEFINE dropped == [lane EXCEPT !.strays = @ \ {stray}]
           freed == clearWatermark(dropped, stray.pty, stray.sequence)
<1>1. /\ UNCHANGED <<arrived, reader, terminals, history>>
      /\ lane' \in {dropped, redrive(freed, TRUE)}
  BY DEF StrayAnswered
<1>2. LaneInv(lane) /\ World /\ lane \in Lane /\ owner \in Ptys
  BY DEF MailboxInv, LaneInv, World
<1>3. Same(lane, dropped)
  BY <1>2 DEF Same, Lane
<1> HIDE DEF dropped
<1>4. Keeps(lane, dropped, owner) /\ Remembers(lane, dropped) /\ LaneInv(dropped)
  BY <1>2, <1>3, KeepsSame DEF Keeps
<1>5. MarkMoved(dropped, freed)
  BY <1>4, ClearKeeps, ClearFields DEF MarkMoved, LaneInv
<1> HIDE DEF freed
<1>6. Keeps(lane, freed, owner) /\ Remembers(lane, freed)
  <2>1. Keeps(dropped, freed, owner) /\ Remembers(dropped, freed)
    BY <1>5, MarkMovedKeeps
  <2>2. Keeps(lane, freed, owner)
    BY <1>4, <2>1, KeepsTwice
  <2> QED
    BY <1>4, <2>1, <2>2 DEF Remembers
<1>7. Keeps(lane, redrive(freed, TRUE), owner)
  BY <1>6, ThenRedrive
<1>8. Keeps(lane, lane', owner)
  BY <1>1, <1>4, <1>7
<1> QED
  BY <1>1, <1>2, <1>8, PlainStep DEF history

(* The Enter itself. *)
LEMMA PressStep ==
  ASSUME MailboxInv, NEW p \in Ptys,
         lane.flight[p].stage = "probing", p = owner, Writable(p),
         <<p, lane.flight[p].inc>> = Process(p),
         Held(lane, lane.flight[p].batch, Process(p), {WriteAttempted}) = lane.flight[p].batch,
         lane' = [lane EXCEPT
                    !.row = [m \in Mail |-> IF m \in lane.flight[p].batch
                               THEN [@[m] EXCEPT !.phase = EnterAttempted] ELSE @[m]],
                    !.flight[p].stage = "entering"],
         entered' = entered \cup
           {[mail |-> m, process |-> Process(p), generation |-> generation]
              : m \in lane.flight[p].batch},
         UNCHANGED <<arrived, reader, terminals, returned>>
  PROVE  MailboxInv'
<1> DEFINE f == lane.flight[p]
           batch == f.batch
           row == [m \in Mail |-> IF m \in batch
                     THEN [lane.row[m] EXCEPT !.phase = EnterAttempted] ELSE lane.row[m]]
           u == [lane EXCEPT !.row = row]
           t == ToStage(u, p, "entering")
<1>0. UNCHANGED <<arrived, read, owner, generation, proc, inc, status, returned>>
  BY DEF reader, terminals
<1>1. LaneInv(lane) /\ World /\ lane \in Lane
  BY DEF MailboxInv, LaneInv
<1>2. batch \in SUBSET (1..arrived) /\ batch \subseteq Mail /\ HasFlight(lane, p)
  BY <1>1, UnreadIsMail DEF LaneInv, FlightsSound, HasFlight
<1>3. \A m \in batch : lane.row[m].target = Process(p) /\ lane.row[m].phase = WriteAttempted
  BY DEF Held
<1> HIDE DEF batch
<1>4. \A m \in Mail : m \notin batch => row[m] = lane.row[m] /\ row[m] \in Row
  BY <1>1 DEF Lane
<1>5. \A m \in batch : /\ row[m] \in Row /\ row[m].phase = EnterAttempted
                       /\ row[m].target = Process(p)
                       /\ row[m].delivered = lane.row[m].delivered
  <2> TAKE m \in batch
  <2>1. m \in Mail /\ lane.row[m] \in Row /\ EnterAttempted \in 0..EnterAttempted
    BY <1>1, <1>2, Phases DEF Lane
  <2>2. row[m] = [lane.row[m] EXCEPT !.phase = EnterAttempted]
    BY <2>1
  <2> HIDE DEF row
  <2> QED
    BY <1>3, <2>1, <2>2 DEF Row
<1>6. row \in [Mail -> Row]
  <2>1. \A m \in Mail : row[m] \in Row
    BY <1>4, <1>5
  <2>2. row = [m \in Mail |-> row[m]]
    OBVIOUS
  <2> HIDE DEF row
  <2> QED
    BY <2>1, <2>2
<1>7. lane' = t
  BY <1>1 DEF ToStage, Lane, batch
<1> HIDE DEF row
<1>8. /\ u \in Lane /\ u.row = row /\ u.flight = lane.flight /\ u.mark = lane.mark
  BY <1>1, <1>6 DEF Lane
<1> HIDE DEF u
<1>9. RowsSound(u)
  <2> SUFFICES ASSUME NEW m \in Mail
               PROVE  /\ row[m].phase > 0 <=> row[m].target \in Processes
                      /\ row[m].phase > 0 \/ row[m].delivered => m <= arrived
                      /\ row[m].delivered => row[m].phase = 0
    BY <1>8 DEF RowsSound
  <2>1. CASE m \in batch
    <3>1. /\ lane.row[m].phase = 2 /\ row[m].phase = 3
          /\ row[m].target = lane.row[m].target /\ row[m].delivered = lane.row[m].delivered
      BY <1>3, <1>5, <2>1, Phases
    <3> QED
      BY <1>1, <3>1 DEF LaneInv, RowsSound
  <2>2. CASE m \notin batch
    <3>1. row[m] = lane.row[m]
      BY <1>4, <2>2
    <3> QED
      BY <1>1, <3>1 DEF LaneInv, RowsSound
  <2> QED
    BY <2>1, <2>2
<1>10. OneTarget(u)
  <2>1. \A m \in Unread : row[m].target = lane.row[m].target
                          /\ (row[m].phase > 0 => lane.row[m].phase > 0)
    <3> TAKE m \in Unread
    <3>1. m \in Mail
      BY <1>1, UnreadIsMail
    <3> QED
      BY <1>3, <1>4, <1>5, <3>1, Phases
  <2> QED
    BY <1>1, <1>8, <2>1 DEF LaneInv, OneTarget
<1>11. LaneInv(u)
  BY <1>1, <1>8, <1>9, <1>10 DEF LaneInv, FlightsSound, MarksSound, HasFlight
<1>12. LaneInv(t) /\ Moves(u, t, p)
  <2>1. HasFlight(u, p) /\ "entering" \in FlightStages /\ "entering" \notin RestStages
    BY <1>2, <1>8 DEF HasFlight, FlightStages, RestStages
  <2> QED
    BY <1>1, <1>11, <2>1, ToStageMoves
<1>13. t.row = row /\ t.flight[p].stage = "entering"
  <2>1. "entering" \in FlightStages
    BY DEF FlightStages
  <2>2. t.row = u.row /\ t.flight[p].stage = "entering"
    BY <1>8, <2>1, ToStageFields
  <2> QED
    BY <1>8, <2>2
<1> HIDE DEF t
<1>14. LaneInv(lane)' /\ World'
  <2>1. World'
    BY <1>0, <1>1 DEF World
  <2> QED
    BY <1>0, <1>7, <1>12, <2>1, LaneInvAgain
<1>15. RestIsAwaited'
  BY <1>0, <1>7, <1>8, <1>12 DEF MailboxInv, RestIsAwaited, Moves
<1>16. EnteredPast'
  <2>1. \A m \in batch : m \in Nat /\ m <= arrived
    BY <1>2
  <2>2. Process(p) \in Processes /\ Process(p)[2] = inc[p] /\ Process(p)[1] = p /\ inc[p] \in Nat
    BY <1>1 DEF Process, Processes, World
  <2>3. generation \in Nat
    BY <1>1, MailboxAssumption DEF World
  <2>4. ASSUME NEW e \in entered'
        PROVE  /\ e \in [mail : Nat, process : Processes, generation : Nat]
               /\ e.mail <= arrived /\ e.generation <= generation
               /\ e.process[2] <= inc[e.process[1]]
               /\ e.generation = generation => e.process[1] = owner
    <3>1. CASE e \in entered
      BY <3>1 DEF MailboxInv, EnteredPast
    <3>2. CASE e \notin entered
      <4>1. PICK m \in batch :
              e = [mail |-> m, process |-> Process(p), generation |-> generation]
        BY <3>2 DEF batch
      <4> QED
        BY <2>1, <2>2, <2>3, <4>1
    <3> QED
      BY <3>1, <3>2
  <2>5. Processes' = Processes
    BY DEF Processes
  <2> QED
    BY <1>0, <2>4, <2>5 DEF EnteredPast
<1>17. Fresh(lane)'
  BY <1>0, <1>7, <1>13 DEF Fresh, BeforeEnter
<1>18. Told(lane)'
  <2>1. Unread' = Unread /\ Process(owner)' = Process(owner)
    BY <1>0 DEF Unread, Process
  <2>2. \A m : m \notin batch /\ EnteredHere(m)' => EnteredHere(m)
    <3> SUFFICES ASSUME NEW m, m \notin batch, EnteredHere(m)' PROVE EnteredHere(m)
      OBVIOUS
    <3> DEFINE e == [mail |-> m, process |-> Process(owner), generation |-> generation]
    <3>1. e \in entered' /\ m \notin returned
      BY <1>0, <2>1 DEF EnteredHere
    <3>2. e \in entered
      <4>1. \A n \in batch : e # [mail |-> n, process |-> Process(p), generation |-> generation]
        OBVIOUS
      <4> HIDE DEF e
      <4> QED
        BY <3>1, <4>1 DEF batch
    <3> QED
      BY <3>1, <3>2 DEF EnteredHere
  <2>3. ASSUME proc[owner] # "gone", NEW m \in Unread, EnteredHere(m)'
        PROVE  \/ row[m].delivered
               \/ row[m].phase = EnterAttempted /\ row[m].target = Process(owner)
    <3>1. m \in Mail
      BY <1>1, UnreadIsMail
    <3>2. CASE m \in batch
      BY <1>5, <3>2
    <3>3. CASE m \notin batch
      BY <1>4, <2>2, <2>3, <3>1, <3>3 DEF MailboxInv, Memory, Told
    <3> QED
      BY <3>2, <3>3
  <2> QED
    BY <1>0, <1>7, <1>13, <2>1, <2>3 DEF Told
<1> QED
  BY <1>14, <1>15, <1>16, <1>17, <1>18 DEF MailboxInv, Memory

LEMMA SubmitStep ==
  ASSUME MailboxInv, NEW p \in Ptys, NEW absent, NEW settled, NEW known,
         submitPointer(p, absent, settled, known)
  PROVE  MailboxInv'
<1> DEFINE f == lane.flight[p]
           rows == Held(lane, f.batch, <<p, f.inc>>, {WriteAttempted})
<1>0. LaneInv(lane) /\ World /\ WriteAttempted # 0
  BY Phases DEF MailboxInv
<1>1. UNCHANGED <<arrived, reader, terminals, returned>> /\ f.stage = "probing"
  BY DEF submitPointer
<1>2. \/ UNCHANGED entered /\ lane' = ClearAndRedrive(lane, p, settled, known)
      \/ UNCHANGED entered /\ lane' = CountAsDelivered(lane, p, WriteAttempted, settled, known)
      \/ UNCHANGED entered /\ lane' = KeepInDoubt(lane, p, settled, known)
      \/ UNCHANGED entered /\ status[p] = "none" /\ lane' = ToStage(lane, p, "held")
      \/ /\ <<p, f.inc>> = Process(p) /\ Writable(p) /\ p = owner /\ rows = f.batch
         /\ lane' = [lane EXCEPT
                       !.row = [m \in Mail |-> IF m \in rows
                                  THEN [@[m] EXCEPT !.phase = EnterAttempted] ELSE @[m]],
                       !.flight[p].stage = "entering"]
         /\ entered' = entered \cup
              {[mail |-> m, process |-> <<p, f.inc>>, generation |-> generation] : m \in rows}
  BY DEF submitPointer, ToStage
<1>3. ASSUME UNCHANGED entered, Keeps(lane, lane', p), Remembers(lane, lane')
      PROVE  MailboxInv'
  <2>1. UNCHANGED <<arrived, read, owner, generation, proc, inc, status, entered>>
        /\ returned' = returned
    BY <1>1, <1>3 DEF reader, terminals
  <2>2. LaneInv(lane') /\ Moves(lane, lane', p) /\ Memory(lane')
    BY <1>3 DEF MailboxInv, Keeps, Remembers
  <2> QED
    BY <2>1, <2>2, LaneInvAgain, MemoryAgain, WorldAgain, RestAgain DEF MailboxInv
<1>4. CASE UNCHANGED entered /\ lane' = ClearAndRedrive(lane, p, settled, known)
  BY <1>0, <1>3, <1>4, ClearAndRedriveKeeps
<1>5. CASE UNCHANGED entered /\ lane' = CountAsDelivered(lane, p, WriteAttempted, settled, known)
  BY <1>0, <1>3, <1>5, CountAsDeliveredKeeps
<1>6. CASE UNCHANGED entered /\ lane' = KeepInDoubt(lane, p, settled, known)
  BY <1>0, <1>3, <1>6, KeepInDoubtKeeps
<1>7. CASE UNCHANGED entered /\ status[p] = "none" /\ lane' = ToStage(lane, p, "held")
  <2>1. UNCHANGED <<arrived, read, owner, generation, proc, inc, status, entered>>
        /\ returned' = returned
    BY <1>1, <1>7 DEF reader, terminals
  <2>2. "held" \in FlightStages /\ HasFlight(lane, p) /\ f.stage # "entering" /\ "held" # "none"
    BY <1>1 DEF FlightStages, HasFlight
  <2>3. LaneInv(lane') /\ Memory(lane')
    BY <1>0, <1>7, <2>2, ToStageMoves DEF Remembers, MailboxInv
  <2>4. RestIsAwaited'
    <3>1. \A q \in Ptys : q # p => lane'.flight[q] = lane.flight[q]
      BY <1>0, <1>7, <2>2, ToStageFields DEF LaneInv
    <3> QED
      BY <1>7, <2>1, <3>1 DEF MailboxInv, RestIsAwaited
  <2> QED
    BY <2>1, <2>3, <2>4, LaneInvAgain, MemoryAgain, WorldAgain DEF MailboxInv
<1>8. CASE /\ <<p, f.inc>> = Process(p) /\ Writable(p) /\ p = owner /\ rows = f.batch
           /\ lane' = [lane EXCEPT
                         !.row = [m \in Mail |-> IF m \in rows
                                    THEN [@[m] EXCEPT !.phase = EnterAttempted] ELSE @[m]],
                         !.flight[p].stage = "entering"]
           /\ entered' = entered \cup
                {[mail |-> m, process |-> <<p, f.inc>>, generation |-> generation] : m \in rows}
  <2>1. Held(lane, f.batch, Process(p), {WriteAttempted}) = f.batch
    BY <1>8
  <2> HIDE DEF rows
  <2> QED
    BY <1>1, <1>8, <2>1, PressStep
<1> QED
  BY <1>2, <1>4, <1>5, <1>6, <1>7, <1>8

(* A title: the status of one terminal changes, and its flight may. *)
LEMMA TitleStep ==
  ASSUME MailboxInv, UNCHANGED <<arrived, reader, proc, inc, history>>,
         NEW p \in Ptys, NEW shown \in {"other", "none", "idle", "working"},
         status' = [status EXCEPT ![p] = shown],
         LaneInv(lane'), Memory(lane'),
         \A q \in Ptys : q # p => lane'.flight[q] = lane.flight[q],
         lane'.flight[p].stage \in RestStages => shown # "idle"
  PROVE  MailboxInv'
<1>1. UNCHANGED <<arrived, read, owner, generation, proc, inc, entered, returned>>
  BY DEF reader, history
<1>2. /\ \A q \in Ptys : q # p => status'[q] = status[q]
      /\ status'[p] = shown
  BY DEF MailboxInv, World
<1>3. World' /\ EnteredPast'
  BY <1>1 DEF MailboxInv, World, EnteredPast, Processes
<1>4. RestIsAwaited'
  BY <1>2 DEF MailboxInv, RestIsAwaited
<1>5. returned \subseteq returned'
  BY <1>1
<1> QED
  BY <1>1, <1>3, <1>4, <1>5, LaneInvAgain, MemoryAgain DEF MailboxInv

LEMMA DeferKeeps ==
  ASSUME World, NEW s, LaneInv(s), NEW p \in Ptys
  PROVE  LET t == deferFlightUntilIdle(s, p)
         IN  /\ LaneInv(t) /\ Remembers(s, t) /\ t.row = s.row
             /\ \A q \in Ptys : q # p => t.flight[q] = s.flight[q]
<1>1. PICK stage \in FlightStages :
        /\ deferFlightUntilIdle(s, p) = ToStage(s, p, stage)
        /\ stage = "none" <=> ~HasFlight(s, p)
        /\ s.flight[p].stage = "entering" => stage = "entering"
  BY DeferFields DEF LaneInv
<1> DEFINE t == ToStage(s, p, stage)
<1>2. LaneInv(t) /\ Remembers(s, t)
  BY <1>1, ToStageMoves
<1>3. t.row = s.row /\ \A q \in Ptys : q # p => t.flight[q] = s.flight[q]
  BY ToStageFields DEF LaneInv
<1> HIDE DEF t
<1> QED
  BY <1>1, <1>2, <1>3 DEF t

LEMMA TitleIdleStep ==
  ASSUME MailboxInv, NEW p \in Ptys, NEW settled, NEW known, TitleIdle(p, settled, known)
  PROVE  MailboxInv'
<1> DEFINE parked == IF p \in cold THEN deferFlightUntilIdle(lane, p) ELSE lane
           seen == takeDeferredEnter(parked, p)
<1>1. /\ status' = [status EXCEPT ![p] = "idle"]
      /\ UNCHANGED <<arrived, reader, proc, inc, history>>
      /\ lane' = IF ~settled THEN [seen EXCEPT !.recheck[p] = TRUE]
                 ELSE IF p = owner THEN deliver(seen, p, FALSE, TRUE, known)
                 ELSE [seen EXCEPT !.recheck[p] = FALSE]
  BY DEF TitleIdle
<1>2. World /\ LaneInv(lane) /\ Memory(lane)
  BY DEF MailboxInv
<1>3. /\ LaneInv(parked) /\ Remembers(lane, parked) /\ parked.row = lane.row
      /\ \A q \in Ptys : q # p => parked.flight[q] = lane.flight[q]
  BY <1>2, DeferKeeps DEF Remembers
<1> HIDE DEF parked
<1>4. /\ LaneInv(seen) /\ seen \in Lane /\ Memory(seen) /\ seen.row = lane.row
      /\ seen.flight[p].stage \notin RestStages
      /\ \A q \in Ptys : q # p => seen.flight[q] = lane.flight[q]
  BY <1>2, <1>3, TakeKeeps DEF Remembers, Keeps, Moves
<1> HIDE DEF seen
<1>5. Keeps(seen, lane', p)
  <2>1. ASSUME NEW b \in BOOLEAN PROVE Keeps(seen, [seen EXCEPT !.recheck[p] = b], p)
    BY <1>4, Bookkeeping, KeepsSame
  <2>2. Keeps(seen, deliver(seen, p, FALSE, TRUE, known), p)
    BY <1>2, <1>4, DeliverKeeps
  <2>3. \/ lane' = [seen EXCEPT !.recheck[p] = TRUE]
        \/ lane' = [seen EXCEPT !.recheck[p] = FALSE]
        \/ lane' = deliver(seen, p, FALSE, TRUE, known)
    BY <1>1
  <2> QED
    BY <2>1, <2>2, <2>3
<1>6. Memory(lane')
  <2>1. p = owner => Memory(lane')
    BY <1>4, <1>5 DEF Keeps, Remembers
  <2>2. ASSUME p # owner PROVE Memory(lane')
    <3> DEFINE set(b) == [seen EXCEPT !.recheck[p] = b]
    <3>1. lane' = set(TRUE) \/ lane' = set(FALSE)
      BY <1>1, <2>2
    <3>2. \A b \in BOOLEAN : Remembers(seen, set(b))
      BY <1>4, Bookkeeping, KeepsSame
    <3> HIDE DEF set
    <3> QED
      BY <1>4, <3>1, <3>2 DEF Remembers
  <2> QED
    BY <2>1, <2>2
<1>7. LaneInv(lane') /\ Moves(seen, lane', p)
  BY <1>5 DEF Keeps
<1>8. /\ \A q \in Ptys : q # p => lane'.flight[q] = lane.flight[q]
      /\ lane'.flight[p].stage \notin RestStages
  BY <1>4, <1>7 DEF Moves
<1> QED
  BY <1>1, <1>6, <1>7, <1>8, TitleStep

LEMMA TitleBusyStep ==
  ASSUME MailboxInv, NEW p \in Ptys, NEW busy \in {"working", "other"}, TitleBusy(p, busy)
  PROVE  MailboxInv'
<1> DEFINE retired == retirePty(lane, p)
<1>1. /\ status' = [status EXCEPT ![p] = busy]
      /\ UNCHANGED <<arrived, reader, proc, inc, history>>
      /\ \/ lane' = lane
         \/ lane' = deferFlightUntilIdle(lane, p)
         \/ lane' = releasePendingMailboxPointerForPty(retired, p)
  BY DEF TitleBusy
<1>2. World /\ LaneInv(lane) /\ Memory(lane)
  BY DEF MailboxInv
<1>3. Keeps(lane, retired, p) /\ Remembers(lane, retired) /\ LaneInv(retired)
  BY <1>2, RetireKeeps DEF Keeps
<1> HIDE DEF retired
<1>4. LET t == releasePendingMailboxPointerForPty(retired, p)
      IN  LaneInv(t) /\ Memory(t) /\ Moves(lane, t, p)
  <2> DEFINE t == releasePendingMailboxPointerForPty(retired, p)
  <2>1. Keeps(retired, t, p) /\ Remembers(retired, t)
    BY <1>2, <1>3, ReleaseForPtyKeeps
  <2> HIDE DEF t
  <2>2. LaneInv(t) /\ Memory(t) /\ Moves(lane, t, p)
    BY <1>2, <1>3, <2>1, KeepsTwice DEF Keeps, Remembers
  <2> QED
    BY <2>2 DEF t
<1>5. LET t == deferFlightUntilIdle(lane, p)
      IN  LaneInv(t) /\ Memory(t) /\ \A q \in Ptys : q # p => t.flight[q] = lane.flight[q]
  BY <1>2, DeferKeeps DEF Remembers
<1>6. /\ LaneInv(lane') /\ Memory(lane')
      /\ \A q \in Ptys : q # p => lane'.flight[q] = lane.flight[q]
  BY <1>1, <1>2, <1>4, <1>5 DEF Moves
<1> QED
  BY <1>1, <1>6, TitleStep

LEMMA TitleNeutralStep ==
  ASSUME MailboxInv, NEW p \in Ptys, TitleNeutral(p)
  PROVE  MailboxInv'
<1>1. /\ status' = [status EXCEPT ![p] = "none"]
      /\ UNCHANGED <<arrived, reader, proc, inc, lane, history>>
  BY DEF TitleNeutral
<1>2. LaneInv(lane') /\ Memory(lane')
  BY <1>1 DEF MailboxInv
<1> QED
  BY <1>1, <1>2, TitleStep

(* Nothing the lane's invariant speaks of changes. *)
LEMMA QuietLane ==
  ASSUME MailboxInv,
         UNCHANGED <<arrived, read, owner, generation, proc, inc, status, lane, entered, returned>>
  PROVE  MailboxInv'
<1>1. LaneInv(lane') /\ Memory(lane') /\ returned \subseteq returned'
  BY DEF MailboxInv
<1>2. RestIsAwaited'
  BY DEF MailboxInv, RestIsAwaited
<1>3. World' /\ EnteredPast'
  BY WorldAgain DEF MailboxInv
<1> QED
  BY <1>1, <1>2, <1>3, LaneInvAgain, MemoryAgain DEF MailboxInv

LEMMA DiesStep ==
  ASSUME MailboxInv, NEW p \in Ptys, ProcessDies(p)
  PROVE  MailboxInv'
<1>1. /\ proc[p] = "live" /\ proc' = [proc EXCEPT ![p] = "dying"]
      /\ UNCHANGED <<arrived, read, owner, generation, inc, status, lane, entered, returned>>
  BY DEF ProcessDies, reader, history
<1>2. Unread' = Unread /\ Lane' = Lane /\ \A q \in Ptys : proc'[q] = "gone" <=> proc[q] = "gone"
  BY <1>1 DEF Unread, Lane, Row, Flight, Mark, Stray, Mail, Processes, MailboxInv, World
<1>3. World' /\ EnteredPast' /\ RestIsAwaited'
  BY <1>1 DEF MailboxInv, World, EnteredPast, RestIsAwaited, Processes
<1>4. LaneInv(lane)'
  <2>1. FlightsSound(lane)'
    BY <1>1, <1>2 DEF MailboxInv, LaneInv, FlightsSound, HasFlight
  <2>2. OneTarget(lane)'
    BY <1>1, <1>2 DEF MailboxInv, LaneInv, OneTarget
  <2>3. RowsSound(lane)' /\ MarksSound(lane)'
    BY <1>1 DEF MailboxInv, LaneInv, RowsSound, MarksSound, HasFlight
  <2> QED
    BY <1>1, <1>2, <2>1, <2>2, <2>3 DEF MailboxInv, LaneInv
<1>5. \A m : EnteredHere(m)' <=> EnteredHere(m)
  BY <1>1 DEF EnteredHere, Process
<1>6. Told(lane)'
  BY <1>1, <1>2, <1>5 DEF MailboxInv, Memory, Told, World, Process
<1>7. Fresh(lane)'
  BY <1>1, <1>5 DEF MailboxInv, Memory, Fresh
<1> QED
  BY <1>3, <1>4, <1>6, <1>7 DEF MailboxInv, Memory

LEMMA ExitStep ==
  ASSUME MailboxInv, NEW p \in Ptys, PtyExit(p)
  PROVE  MailboxInv'
<1>1. /\ proc' = [proc EXCEPT ![p] = "gone"] /\ status' = [status EXCEPT ![p] = "other"]
      /\ lane' = retirePty(lane, p)
      /\ UNCHANGED <<arrived, read, owner, generation, inc, entered, returned>>
  BY DEF PtyExit, reader, history
<1>2. /\ LaneInv(lane') /\ Memory(lane') /\ ~HasFlight(lane', p)
      /\ \A q \in Ptys : q # p => lane'.flight[q] = lane.flight[q]
  BY <1>1, RetireKeeps DEF MailboxInv, Keeps, Remembers, Moves
<1>3. /\ Unread' = Unread /\ Lane' = Lane
      /\ \A q \in Ptys : q # p => proc'[q] = proc[q] /\ status'[q] = status[q]
      /\ status'[p] # "idle" /\ proc'[p] = "gone"
  BY <1>1 DEF Unread, Lane, Row, Flight, Mark, Stray, Mail, Processes, MailboxInv, World
<1>4. World' /\ EnteredPast'
  BY <1>1 DEF MailboxInv, World, EnteredPast, Processes
<1>5. RestIsAwaited'
  BY <1>2, <1>3 DEF MailboxInv, RestIsAwaited
<1>6. LaneInv(lane)'
  <2>1. FlightsSound(lane)'
    BY <1>1, <1>2, <1>3 DEF LaneInv, FlightsSound, HasFlight
  <2>2. OneTarget(lane)'
    BY <1>1, <1>2, <1>3 DEF LaneInv, OneTarget
  <2>3. RowsSound(lane)' /\ MarksSound(lane)'
    BY <1>1, <1>2 DEF LaneInv, RowsSound, MarksSound, HasFlight
  <2> QED
    BY <1>2, <1>3, <2>1, <2>2, <2>3 DEF LaneInv
<1>7. \A m : EnteredHere(m)' <=> EnteredHere(m)
  BY <1>1 DEF EnteredHere, Process
<1>8. Told(lane)'
  <2>1. proc'[owner] # "gone" => proc[owner] # "gone"
    BY <1>3 DEF MailboxInv, World
  <2> QED
    BY <1>1, <1>2, <1>3, <1>7, <2>1 DEF Memory, Told, Process
<1>9. Fresh(lane)'
  BY <1>1, <1>2, <1>7 DEF Memory, Fresh
<1> QED
  BY <1>4, <1>5, <1>6, <1>8, <1>9 DEF MailboxInv, Memory

(* A new process has been sent no Enter yet. *)
LEMMA RespawnStep ==
  ASSUME MailboxInv, NEW p \in Ptys, Respawn(p)
  PROVE  MailboxInv'
<1>1. /\ proc[p] = "gone" /\ proc' = [proc EXCEPT ![p] = "live"]
      /\ inc' = [inc EXCEPT ![p] = @ + 1]
      /\ UNCHANGED <<arrived, read, owner, generation, status, lane, entered, returned>>
  BY DEF Respawn, reader, history
<1>2. /\ Unread' = Unread /\ Lane' = Lane
      /\ \A q \in Ptys : q # p => proc'[q] = proc[q] /\ inc'[q] = inc[q]
      /\ inc'[p] = inc[p] + 1 /\ inc[p] \in Nat
  BY <1>1 DEF Unread, Lane, Row, Flight, Mark, Stray, Mail, Processes, MailboxInv, World
<1>3. ~HasFlight(lane, p)
  BY <1>1 DEF MailboxInv, LaneInv, FlightsSound
<1>4. World' /\ RestIsAwaited'
  BY <1>1 DEF MailboxInv, World, RestIsAwaited
<1>5. EnteredPast'
  <2>1. \A e \in entered : /\ e.process \in Processes
                           /\ inc[e.process[1]] <= inc'[e.process[1]]
                           /\ inc[e.process[1]] \in Nat /\ inc'[e.process[1]] \in Nat
    <3> TAKE e \in entered
    <3>1. e.process \in Processes /\ e.process[1] \in Ptys
      BY DEF MailboxInv, EnteredPast, Processes
    <3> QED
      BY <1>2, <3>1 DEF MailboxInv, World
  <2>2. \A e \in entered : e.process[2] <= inc'[e.process[1]] /\ e.process[2] \in Nat
    BY <2>1 DEF MailboxInv, EnteredPast, Processes
  <2>3. Processes' = Processes
    BY DEF Processes
  <2> QED
    BY <1>1, <2>2, <2>3 DEF MailboxInv, EnteredPast
<1>6. LaneInv(lane)'
  <2>1. FlightsSound(lane)'
    BY <1>1, <1>2, <1>3 DEF MailboxInv, LaneInv, FlightsSound, HasFlight
  <2>2. OneTarget(lane)'
    BY <1>1, <1>2 DEF MailboxInv, LaneInv, OneTarget
  <2>3. RowsSound(lane)' /\ MarksSound(lane)'
    BY <1>1 DEF MailboxInv, LaneInv, RowsSound, MarksSound, HasFlight
  <2> QED
    BY <1>1, <1>2, <2>1, <2>2, <2>3 DEF MailboxInv, LaneInv
<1>7. owner \in Ptys
  BY DEF MailboxInv, World
<1>8. CASE p # owner
  <2>1. \A m : EnteredHere(m)' <=> EnteredHere(m)
    BY <1>1, <1>2, <1>7, <1>8 DEF EnteredHere, Process
  <2>2. Told(lane)'
    BY <1>1, <1>2, <1>7, <1>8, <2>1 DEF MailboxInv, Memory, Told, Process
  <2>3. Fresh(lane)'
    BY <1>1, <2>1 DEF MailboxInv, Memory, Fresh
  <2> QED
    BY <1>4, <1>5, <1>6, <2>2, <2>3 DEF MailboxInv, Memory
<1>9. CASE p = owner
  <2>1. \A m : ~EnteredHere(m)'
    <3> SUFFICES ASSUME NEW m, EnteredHere(m)' PROVE FALSE
      OBVIOUS
    <3> DEFINE e == [mail |-> m, process |-> <<p, inc[p] + 1>>, generation |-> generation]
    <3>1. e \in entered
      BY <1>1, <1>2, <1>9 DEF EnteredHere, Process
    <3>2. e.process[2] <= inc[e.process[1]]
      BY <3>1 DEF MailboxInv, EnteredPast
    <3> QED
      BY <1>2, <3>2
  <2>2. Told(lane)' /\ Fresh(lane)'
    BY <2>1 DEF Told, Fresh
  <2> QED
    BY <1>4, <1>5, <1>6, <2>2 DEF MailboxInv, Memory
<1> QED
  BY <1>8, <1>9

LEMMA MailArrives ==
  ASSUME MailboxInv, notifyMessageArrived
  PROVE  MailboxInv'
<1>1. /\ arrived < MaxMail /\ arrived' = arrived + 1
      /\ UNCHANGED <<read, owner, generation, proc, inc, status, entered, returned>>
      /\ lane' \in {lane, [lane EXCEPT !.queued = @ + 1]}
  BY DEF notifyMessageArrived, reader, terminals, history
<1>2. /\ World /\ LaneInv(lane) /\ lane \in Lane /\ arrived \in Nat /\ owner \in Ptys
      /\ Unread \subseteq Mail
  BY UnreadIsMail DEF MailboxInv, LaneInv, World
<1>3. Same(lane, lane')
  BY <1>1, <1>2, Bookkeeping DEF Same
<1>4. lane' \in Lane /\ lane'.row = lane.row /\ lane'.flight = lane.flight /\ lane'.mark = lane.mark
  BY <1>3 DEF Same
<1>5. Lane' = Lane /\ Unread' = Unread \cup ({arrived + 1} \ read)
  BY <1>1, <1>2 DEF Unread, Lane, Row, Flight, Mark, Stray, Mail, Processes
<1>6. World'
  BY <1>1, <1>2, MailboxAssumption DEF World
<1>7. EnteredPast' /\ RestIsAwaited'
  <2>1. \A e \in entered : e.mail \in Nat /\ e.mail <= arrived => e.mail <= arrived + 1
    BY <1>2
  <2>2. Processes' = Processes
    BY DEF Processes
  <2> QED
    BY <1>1, <1>4, <2>1, <2>2 DEF MailboxInv, EnteredPast, RestIsAwaited
<1>8. LaneInv(lane)'
  <2>1. RowsSound(lane)'
    <3>1. \A m \in Mail : m <= arrived => m <= arrived'
      BY <1>1, <1>2 DEF Mail
    <3>2. Mail' = Mail /\ Processes' = Processes
      BY DEF Mail, Processes
    <3> QED
      BY <1>2, <1>4, <3>1, <3>2 DEF LaneInv, RowsSound
  <2>2. FlightsSound(lane)'
    <3>1. \A p \in Ptys : lane.flight[p].batch \subseteq 1..arrived'
      BY <1>1, <1>2 DEF LaneInv, FlightsSound
    <3> QED
      BY <1>1, <1>2, <1>4, <3>1 DEF LaneInv, FlightsSound, HasFlight
  <2>3. OneTarget(lane)'
    <3>1. \A m \in Unread' : lane.row[m].phase > 0 => m \in Unread
      <4> SUFFICES ASSUME NEW m \in Unread', lane.row[m].phase > 0, m \notin Unread PROVE FALSE
        OBVIOUS
      <4>1. m = arrived + 1 /\ m \in Mail
        BY <1>1, <1>2, <1>5, <1>6, MailboxAssumption DEF Mail
      <4>2. m <= arrived
        BY <1>2, <4>1 DEF LaneInv, RowsSound
      <4> QED
        BY <1>2, <4>1, <4>2
    <3> QED
      BY <1>2, <1>4, <3>1 DEF LaneInv, OneTarget
  <2>4. MarksSound(lane)'
    BY <1>2, <1>4 DEF LaneInv, MarksSound, HasFlight
  <2> QED
    BY <1>4, <1>5, <2>1, <2>2, <2>3, <2>4 DEF LaneInv
<1>9. \A m : EnteredHere(m)' <=> EnteredHere(m)
  BY <1>1 DEF EnteredHere, Process
<1>10. \A m : EnteredHere(m) => m <= arrived
  BY DEF MailboxInv, EnteredPast, EnteredHere
<1>11. Told(lane)'
  <2>1. \A m \in Unread' : EnteredHere(m) => m \in Unread
    <3> TAKE m \in Unread'
    <3>1. m = arrived + 1 => ~(m <= arrived)
      BY <1>2
    <3> QED
      BY <1>5, <1>10, <3>1
  <2> QED
    BY <1>1, <1>4, <1>9, <2>1 DEF MailboxInv, Memory, Told, Process
<1>12. Fresh(lane)'
  BY <1>1, <1>4, <1>9 DEF MailboxInv, Memory, Fresh
<1> QED
  BY <1>6, <1>7, <1>8, <1>11, <1>12 DEF MailboxInv, Memory

(* A check acknowledges a Delivery that was made. *)
AckKnown == \A p \in Ptys : check[p].ack \in 0..Len(deliveries)

LEMMA AckStep == ReaderInv /\ AckKnown /\ [Next]_vars => AckKnown'
<1> SUFFICES ASSUME ReaderInv, AckKnown, [Next]_vars PROVE AckKnown'
  OBVIOUS
<1>0. /\ Len(deliveries) \in Nat /\ DOMAIN deliveries = 1..Len(deliveries)
      /\ check \in [Ptys -> CheckRow]
  BY DEF ReaderInv, ReaderType
<1>1. Evidence \subseteq BOOLEAN
  BY DEF Evidence
<1>2. ASSUME UNCHANGED <<check, deliveries>> PROVE AckKnown'
  BY <1>2 DEF AckKnown
<1>3. CASE LaneStep
  BY <1>2, <1>3, LaneIsQuiet DEF reader
<1>4. ASSUME NEW p \in Ptys,
             \/ Ends(p) \/ Proceeds(p, "waiting") \/ Proceeds(p, "reading"),
             Len(deliveries') \in Nat, Len(deliveries') >= Len(deliveries)
      PROVE  AckKnown'
  <2>1. \A q \in Ptys : check'[q].ack \in {check[q].ack, 0}
    BY <1>0, <1>4 DEF Ends, Proceeds, AtStage, NoCheck
  <2> QED
    BY <1>0, <1>4, <2>1 DEF AckKnown
<1>5. ASSUME NEW p \in Ptys, getOrCreateMailboxDelivery(p) PROVE AckKnown'
  <2>1. Ends(p) \/ Proceeds(p, "waiting")
    BY <1>5, Zenon DEF getOrCreateMailboxDelivery
  <2>2. Len(deliveries') \in Nat /\ Len(deliveries') >= Len(deliveries)
    BY <1>0, <1>5 DEF getOrCreateMailboxDelivery, ReaderInv, ReaderType
  <2> QED
    BY <1>4, <2>1, <2>2
<1>6. ASSUME NEW p \in Ptys, acknowledgeMailboxDelivery(p) PROVE AckKnown'
  <2>1. (Ends(p) \/ Proceeds(p, "reading")) /\ deliveries' = deliveries
    BY <1>6, Zenon DEF acknowledgeMailboxDelivery
  <2> QED
    BY <1>0, <1>4, <2>1
<1>7. ASSUME NEW p \in Ptys, NEW ack, CheckBegins(p, ack) PROVE AckKnown'
  <2>1. /\ ack = 0 \/ ack \in DOMAIN deliveries
        /\ check' = [check EXCEPT ![p] =
                       [stage |-> "routing", generation |-> generation, ack |-> ack]]
        /\ deliveries' = deliveries
    BY <1>7 DEF CheckBegins, reader
  <2>2. \A q \in Ptys : check'[q].ack \in {check[q].ack, ack}
    BY <1>0, <2>1
  <2> QED
    BY <1>0, <2>1, <2>2 DEF AckKnown
<1>8. ASSUME NEW p \in Ptys, WaitEnds(p) PROVE AckKnown'
  BY <1>0, <1>4, <1>8 DEF WaitEnds, reader
<1>9. ASSUME NEW p \in Ptys, bindRun(p) PROVE AckKnown'
  <2>1. /\ check' = [q \in Ptys |-> IF q \in Waiters THEN NoCheck ELSE check[q]]
        /\ deliveries' = deliveries
    BY <1>9 DEF bindRun
  <2>2. \A q \in Ptys : check'[q].ack \in {check[q].ack, 0}
    BY <2>1 DEF NoCheck
  <2> QED
    BY <1>0, <2>1, <2>2 DEF AckKnown
<1>10. CASE notifyMessageArrived
  <2>1. /\ check' = [p \in Ptys |-> IF p \in Waiters THEN AtStage(p, "woken") ELSE check[p]]
        /\ deliveries' = deliveries
    BY <1>10 DEF notifyMessageArrived, reader
  <2> QED
    BY <2>1 DEF AckKnown, AtStage
<1>11. ASSUME NEW torn, Restart(torn) PROVE AckKnown'
  <2>1. check' = [p \in Ptys |-> NoCheck] /\ deliveries' = deliveries
    BY <1>11, Zenon DEF Restart, reader
  <2> QED
    BY <1>0, <2>1 DEF AckKnown, NoCheck
<1>12. CASE Microtask
  BY <1>1, <1>3, <1>5, <1>12 DEF Microtask, LaneStep
<1>13. CASE Turn
  <2>1. TurnKinds
    BY <1>13, TurnSplits
  <2> QED
    BY <1>3, <1>5, <1>6, <1>7, <1>8, <1>9, <1>10, <1>11, <2>1, Zenon DEF TurnKinds
<1>14. CASE UNCHANGED vars
  BY <1>2, <1>14 DEF vars, reader
<1> QED
  BY <1>12, <1>13, <1>14 DEF Next

-----------------------------------------------------------------------------
LEMMA LaneAcknowledges ==
  ASSUME ReaderInv, AckKnown, MailboxInv, NEW p \in Ptys, acknowledgeMailboxDelivery(p)
  PROVE  MailboxInv'
<1> DEFINE d == check[p].ack
           batch == deliveries[d].batch
           row == [m \in Mail |-> IF m \in batch
                     THEN [lane.row[m] EXCEPT !.phase = 0, !.target = NoProcess]
                     ELSE lane.row[m]]
<1>1. UNCHANGED <<arrived, owner, generation, proc, inc, status, entered, returned>>
  BY DEF acknowledgeMailboxDelivery, terminals, history
<1>2. CASE UNCHANGED <<read, lane>>
  BY <1>1, <1>2, QuietLane
<1>3. CASE ~UNCHANGED <<read, lane>>
  <2>1. /\ read' = read \cup batch /\ lane' = forgetReservations(lane, batch) /\ d # 0
    BY <1>3 DEF acknowledgeMailboxDelivery
  <2>2. batch \subseteq 1..arrived
    BY <2>1 DEF AckKnown, ReaderInv, ReaderType, HoldsArrived
  <2>3. /\ World /\ LaneInv(lane) /\ lane \in Lane /\ Unread \subseteq Mail
        /\ 1..arrived \subseteq Mail /\ owner \in Ptys
    BY UnreadIsMail DEF MailboxInv, LaneInv, World
  <2>4. lane' = [lane EXCEPT !.row = row]
    BY <2>1, <2>3 DEF forgetReservations, Lane
  <2> HIDE DEF batch
  <2>5. \A m \in Mail : m \notin batch => row[m] = lane.row[m] /\ row[m] \in Row
    BY <2>3 DEF Lane
  <2>6. \A m \in Mail \cap batch :
          /\ row[m] \in Row /\ row[m].phase = 0 /\ row[m].target = NoProcess
          /\ row[m].delivered = lane.row[m].delivered
    <3> TAKE m \in Mail \cap batch
    <3>1. lane.row[m] \in Row
      BY <2>3 DEF Lane
    <3>2. row[m] = [lane.row[m] EXCEPT !.phase = 0, !.target = NoProcess]
      OBVIOUS
    <3> HIDE DEF row
    <3>3. NoProcess \in Processes \cup {NoProcess} /\ 0 \in 0..EnterAttempted
      BY Phases
    <3> QED
      BY <3>1, <3>2, <3>3 DEF Row
  <2>7. row \in [Mail -> Row]
    <3>1. \A m \in Mail : row[m] \in Row
      BY <2>5, <2>6
    <3>2. row = [m \in Mail |-> row[m]]
      OBVIOUS
    <3> HIDE DEF row
    <3> QED
      BY <3>1, <3>2
  <2> HIDE DEF row
  <2>8. /\ lane' \in Lane /\ lane'.row = row /\ lane'.flight = lane.flight
        /\ lane'.mark = lane.mark
    BY <2>3, <2>4, <2>7 DEF Lane
  <2>9. Lane' = Lane /\ Unread' = Unread \ batch
    BY <1>1, <2>1 DEF Unread, Lane, Row, Flight, Mark, Stray, Mail, Processes
  <2>10. World' /\ EnteredPast' /\ RestIsAwaited'
    <3>1. World'
      BY <1>1, <2>1, <2>2, <2>3 DEF World
    <3>2. EnteredPast' /\ RestIsAwaited'
      BY <1>1, <2>8 DEF MailboxInv, EnteredPast, RestIsAwaited, Processes
    <3> QED
      BY <3>1, <3>2
  <2>11. RowsSound(lane)'
    <3> SUFFICES ASSUME NEW m \in Mail
                 PROVE  /\ row[m].phase > 0 <=> row[m].target \in Processes
                        /\ row[m].phase > 0 \/ row[m].delivered => m <= arrived
                        /\ row[m].delivered => row[m].phase = 0
      BY <1>1, <2>8 DEF RowsSound, Mail, Processes
    <3>1. CASE m \in batch
      <4>1. /\ row[m].phase = 0 /\ row[m].target \notin Processes
            /\ row[m].delivered = lane.row[m].delivered
        BY <2>6, <3>1, NoProcessIsNone
      <4> QED
        BY <2>3, <4>1 DEF LaneInv, RowsSound
    <3>2. CASE m \notin batch
      <4>1. row[m] = lane.row[m]
        BY <2>5, <3>2
      <4> QED
        BY <2>3, <4>1 DEF LaneInv, RowsSound
    <3> QED
      BY <3>1, <3>2
  <2>12. \A m \in Unread' : m \in Unread /\ m \in Mail /\ row[m] = lane.row[m]
    BY <2>3, <2>5, <2>9
  <2>13. OneTarget(lane)'
    BY <2>3, <2>8, <2>12 DEF LaneInv, OneTarget
  <2>14. FlightsSound(lane)' /\ MarksSound(lane)'
    BY <1>1, <2>3, <2>8 DEF LaneInv, FlightsSound, MarksSound, HasFlight
  <2>15. \A m : EnteredHere(m)' <=> EnteredHere(m)
    BY <1>1 DEF EnteredHere, Process
  <2>16. Told(lane)'
    BY <1>1, <2>8, <2>12, <2>15 DEF MailboxInv, Memory, Told, Process
  <2>17. Fresh(lane)'
    BY <1>1, <2>8, <2>15 DEF MailboxInv, Memory, Fresh
  <2> QED
    BY <2>8, <2>9, <2>10, <2>11, <2>13, <2>14, <2>16, <2>17
       DEF MailboxInv, LaneInv, Memory
<1> QED
  BY <1>2, <1>3

(* A new coordinator has been sent no Enter in its generation yet. *)
LEMMA LaneRebinds ==
  ASSUME MailboxInv, NEW p \in Ptys, bindRun(p)
  PROVE  MailboxInv'
<1>1. /\ generation < MaxGeneration /\ owner' = p /\ generation' = generation + 1
      /\ UNCHANGED <<arrived, read, proc, inc, status, lane, entered, returned>>
  BY DEF bindRun, terminals, history
<1>2. generation \in Nat /\ MaxGeneration \in Nat /\ generation >= 1
  BY MailboxAssumption DEF MailboxInv, World
<1>3. LaneInv(lane') /\ RestIsAwaited'
  BY <1>1 DEF MailboxInv, RestIsAwaited
<1>4. LaneInv(lane)'
  BY <1>1, <1>3, LaneInvAgain
<1>5. World'
  BY <1>1, <1>2 DEF MailboxInv, World
<1>6. EnteredPast'
  <2>1. \A e \in entered : e.generation \in Nat /\ e.generation <= generation
                             => /\ e.generation <= generation + 1
                                /\ e.generation # generation + 1
    BY <1>2
  <2>2. Processes' = Processes
    BY DEF Processes
  <2> QED
    BY <1>1, <2>1, <2>2 DEF MailboxInv, EnteredPast
<1>7. \A m : ~EnteredHere(m)'
  <2> SUFFICES ASSUME NEW m, EnteredHere(m)' PROVE FALSE
    OBVIOUS
  <2>1. PICK e \in entered : e.generation = generation + 1
    BY <1>1 DEF EnteredHere
  <2> QED
    BY <1>2, <2>1 DEF MailboxInv, EnteredPast
<1>8. Told(lane)' /\ Fresh(lane)'
  BY <1>7 DEF Told, Fresh
<1> QED
  BY <1>3, <1>4, <1>5, <1>6, <1>8 DEF MailboxInv, Memory

LEMMA LaneRestarts ==
  ASSUME MailboxInv, NEW torn \in SUBSET Typing, Restart(torn)
  PROVE  MailboxInv'
<1> DEFINE reserving == UNION {Held(lane, lane.flight[p].batch, Process(p), {WriteAttempted})
                               : p \in torn}
           row == [m \in Mail |-> IF m \in reserving THEN [lane.row[m] EXCEPT !.phase = Reserved]
                                  ELSE lane.row[m]]
<1>1. /\ lane' = [row |-> row, flight |-> [p \in Ptys |-> NoFlight],
                  mark |-> {}, parkedOn |-> [p \in Ptys |-> FALSE], parked |-> FALSE,
                  queued |-> 0, recheck |-> [p \in Ptys |-> FALSE],
                  asked |-> [p \in Ptys |-> 0], strays |-> {}]
      /\ proc' = [p \in Ptys |-> IF proc[p] = "dying" THEN "gone" ELSE proc[p]]
      /\ status' = [p \in Ptys |-> "other"]
      /\ UNCHANGED <<arrived, read, owner, generation, inc, entered, returned>>
  BY DEF Restart, reader, history
<1>2. /\ World /\ LaneInv(lane) /\ lane \in Lane /\ Unread \subseteq Mail /\ owner \in Ptys
      /\ \A p \in Ptys : proc[p] \in {"live", "dying", "gone"}
  BY UnreadIsMail DEF MailboxInv, LaneInv, World
<1>3. \A m \in reserving : lane.row[m].phase = WriteAttempted
  BY DEF Held
<1> HIDE DEF reserving
<1>4. \A m \in Mail : \/ row[m] = lane.row[m] /\ row[m] \in Row
                      \/ /\ row[m] \in Row /\ lane.row[m].phase = 2 /\ row[m].phase = 1
                         /\ row[m].target = lane.row[m].target
                         /\ row[m].delivered = lane.row[m].delivered
  <2> TAKE m \in Mail
  <2>1. lane.row[m] \in Row
    BY <1>2 DEF Lane
  <2>2. CASE m \notin reserving
    BY <2>1, <2>2
  <2>3. CASE m \in reserving
    <3>1. row[m] = [lane.row[m] EXCEPT !.phase = 1] /\ lane.row[m].phase = 2
      BY <1>3, <2>3, Phases
    <3> HIDE DEF row
    <3>2. 1 \in 0..EnterAttempted
      BY Phases
    <3> QED
      BY <2>1, <3>1, <3>2 DEF Row
  <2> QED
    BY <2>2, <2>3
<1>5. row \in [Mail -> Row]
  <2>1. row = [m \in Mail |-> row[m]]
    OBVIOUS
  <2> HIDE DEF row
  <2> QED
    BY <1>4, <2>1
<1> HIDE DEF row
<1>6. /\ lane' \in Lane /\ lane'.row = row /\ lane'.mark = {}
      /\ \A p \in Ptys : lane'.flight[p] = NoFlight
  <2>1. NoFlight \in Flight
    BY DEF NoFlight, Flight, FlightStages
  <2> QED
    BY <1>1, <1>5, <2>1 DEF Lane
<1>7. /\ Unread' = Unread /\ Lane' = Lane
      /\ \A p \in Ptys : proc'[p] # "gone" => proc[p] # "gone"
  BY <1>1, <1>2 DEF Unread, Lane, Row, Flight, Mark, Stray, Mail, Processes
<1>8. World' /\ EnteredPast'
  BY <1>1 DEF MailboxInv, World, EnteredPast, Processes
<1>9. RestIsAwaited' /\ Fresh(lane)'
  BY <1>1, <1>2, <1>6 DEF RestIsAwaited, RestStages, NoFlight, Fresh, BeforeEnter
<1>10. RowsSound(lane)'
  <2> SUFFICES ASSUME NEW m \in Mail
               PROVE  /\ row[m].phase > 0 <=> row[m].target \in Processes
                      /\ row[m].phase > 0 \/ row[m].delivered => m <= arrived
                      /\ row[m].delivered => row[m].phase = 0
    BY <1>1, <1>6 DEF RowsSound, Mail, Processes
  <2> QED
    BY <1>2, <1>4 DEF LaneInv, RowsSound
<1>11. OneTarget(lane)'
  <2>1. \A m \in Unread : row[m].target = lane.row[m].target
                          /\ (row[m].phase > 0 => lane.row[m].phase > 0)
    BY <1>2, <1>4
  <2> QED
    BY <1>2, <1>6, <1>7, <2>1 DEF LaneInv, OneTarget
<1>12. FlightsSound(lane)' /\ MarksSound(lane)'
  BY <1>6 DEF FlightsSound, MarksSound, HasFlight, NoFlight
<1>13. \A m : EnteredHere(m)' <=> EnteredHere(m)
  BY <1>1 DEF EnteredHere, Process
<1>14. Told(lane)'
  <2>1. \A m \in Unread : /\ lane.row[m].phase = EnterAttempted => row[m] = lane.row[m]
                          /\ lane.row[m].delivered => row[m].delivered
    BY <1>2, <1>4, Phases
  <2> QED
    BY <1>1, <1>2, <1>6, <1>7, <1>13, <2>1 DEF MailboxInv, Memory, Told, Process
<1> QED
  BY <1>6, <1>7, <1>8, <1>9, <1>10, <1>11, <1>12, <1>14 DEF MailboxInv, LaneInv, Memory

LEMMA LaneInit == Init => MailboxInv /\ AckKnown
<1> SUFFICES ASSUME Init PROVE MailboxInv /\ AckKnown
  OBVIOUS
<1>1. /\ NoPointer \in Row /\ NoPointer.phase = 0 /\ ~NoPointer.delivered
      /\ NoPointer.target \notin Processes
  BY NoPointerTyped, NoProcessIsNone DEF NoPointer
<1>2. /\ lane = [row |-> [m \in Mail |-> NoPointer],
                 flight |-> [p \in Ptys |-> NoFlight],
                 mark |-> {}, parkedOn |-> [p \in Ptys |-> FALSE], parked |-> FALSE,
                 queued |-> 0, recheck |-> [p \in Ptys |-> FALSE],
                 asked |-> [p \in Ptys |-> 0], strays |-> {}]
      /\ entered = {} /\ read = {} /\ arrived = 0
  BY DEF Init
<1>3. World
  BY MailboxAssumption DEF Init, World
<1>4. NoFlight \in Flight /\ NoFlight.stage = "none" /\ NoFlight.batch = {}
  BY DEF NoFlight, Flight, FlightStages
<1>5. lane \in Lane
  BY <1>1, <1>2, <1>4 DEF Lane
<1>6. /\ \A m \in Mail : lane.row[m] = NoPointer
      /\ \A p \in Ptys : lane.flight[p] = NoFlight
      /\ lane.mark = {} /\ Unread = {} /\ owner \in Ptys
  BY <1>2, <1>3 DEF Unread, World
<1>7. LaneInv(lane)
  BY <1>1, <1>4, <1>5, <1>6
     DEF LaneInv, RowsSound, FlightsSound, MarksSound, OneTarget, HasFlight
<1>8. EnteredPast /\ Memory(lane) /\ RestIsAwaited
  BY <1>2, <1>4, <1>6 DEF EnteredPast, Memory, Told, Fresh, BeforeEnter, RestIsAwaited, RestStages
<1>9. AckKnown
  <2>1. deliveries = <<>> /\ Len(deliveries) = 0 /\ check = [p \in Ptys |-> NoCheck]
    BY DEF Init
  <2> QED
    BY <2>1 DEF AckKnown, NoCheck
<1> QED
  BY <1>3, <1>7, <1>8, <1>9 DEF MailboxInv

LEMMA LaneNext == ReaderInv /\ AckKnown /\ MailboxInv /\ [Next]_vars => MailboxInv'
<1> SUFFICES ASSUME ReaderInv, AckKnown, MailboxInv, [Next]_vars PROVE MailboxInv'
  OBVIOUS
<1>1. ASSUME NEW p \in Ptys,
             \/ getOrCreateMailboxDelivery(p) \/ WaitEnds(p)
             \/ \E ack \in {0, Len(deliveries)} : CheckBegins(p, ack)
             \/ markPtyColdParked(p) \/ clearPtyColdParked(p)
      PROVE  MailboxInv'
  <2>1. UNCHANGED <<arrived, read, owner, generation, proc, inc, status, lane, entered, returned>>
    BY <1>1, Zenon DEF getOrCreateMailboxDelivery, WaitEnds, CheckBegins, markPtyColdParked,
       clearPtyColdParked, reader, terminals, history
  <2> QED
    BY <2>1, QuietLane
<1>2. CASE Microtask
  BY <1>1, <1>2, QueuedStep, Zenon DEF Microtask
<1>3. CASE Turn
  <2>1. CASE notifyMessageArrived
    BY <2>1, MailArrives
  <2>2. ASSUME NEW settled, NEW known,
               \/ repointPendingMessages(settled, known)
               \/ \E p \in Ptys :
                    \/ DeliveryRecheck(p, settled, known)
                    \/ TitleIdle(p, settled, known)
                    \/ \E outcome \in Outcomes :
                         \/ \E enterless \in BOOLEAN :
                              finishPointerWrite(p, outcome, enterless, settled, known)
                         \/ finishEnterWrite(p, outcome, settled, known)
                    \/ \E absent \in BOOLEAN : submitPointer(p, absent, settled, known)
                    \/ \E absent \in BOOLEAN : AbsenceAnswered(p, absent, settled)
        PROVE  MailboxInv'
    BY <2>2, RepointStep, RecheckStep, TitleIdleStep, PointerWriteStep, EnterWriteStep,
       SubmitStep, ProbeStep, Zenon
  <2>3. ASSUME NEW p \in Ptys,
               \/ EnterTimer(p) \/ TitleNeutral(p)
               \/ \E busy \in {"working", "other"} : TitleBusy(p, busy)
               \/ ProcessDies(p) \/ PtyExit(p) \/ Respawn(p)
               \/ acknowledgeMailboxDelivery(p) \/ bindRun(p)
        PROVE  MailboxInv'
    BY <2>3, TimerStep, TitleNeutralStep, TitleBusyStep, DiesStep, ExitStep, RespawnStep,
       LaneAcknowledges, LaneRebinds, Zenon
  <2>4. CASE LaneStep
    BY <1>1, <2>2, <2>3, <2>4, QueuedStep, StrayStep, Zenon DEF LaneStep
  <2> QED
    BY <1>1, <1>3, <2>1, <2>2, <2>3, <2>4, TurnSplits, LaneRestarts, Zenon DEF TurnKinds
<1>4. CASE UNCHANGED vars
  BY <1>4, QuietLane DEF vars, reader, terminals, history
<1> QED
  BY <1>2, <1>3, <1>4 DEF Next

LEMMA LaneInvariant == Spec => [](ReaderInv /\ AckKnown /\ MailboxInv)
BY ReaderInit, NextStep, LaneInit, AckStep, LaneNext, PTL DEF Spec

-----------------------------------------------------------------------------
(* Every variable keeps its type, and a row names a process exactly while its pointer is
   reserved, whatever is sent, lost, restarted or taken over. *)
THEOREM MailboxTypeOK == Spec => []TypeOK
<1>1. ASSUME ReaderInv, MailboxInv PROVE TypeOK
  <2>1. /\ arrived \in 0..MaxMail /\ read \subseteq 1..arrived
        /\ owner \in Ptys /\ generation \in 1..MaxGeneration
        /\ \A p \in Ptys : /\ proc[p] \in {"live", "dying", "gone"}
                           /\ status[p] \in {"other", "none", "idle", "working"}
    BY <1>1 DEF MailboxInv, World
  <2>2. /\ DOMAIN standing = DOMAIN deliveries
        /\ \A d \in DOMAIN standing : standing[d] \in {"outstanding", "acknowledged", "fenced"}
        /\ \A p \in Ptys :
             check[p].stage \in {"none", "routing", "reading", "waiting", "woken"}
    BY <1>1 DEF ReaderInv, ReaderType, Standing, CheckRow
  <2>3. /\ LaneInv(lane) /\ lane \in Lane
    BY <1>1 DEF MailboxInv, LaneInv
  <2>4. \A p \in Ptys :
          /\ lane.flight[p].stage \in {"none", "writing", "writing_deferred", "writing_ready",
                                       "timer", "held", "probing", "entering"}
          /\ lane.flight[p].batch \subseteq 1..arrived
          /\ HasFlight(lane, p) <=> lane.flight[p].batch # {}
    <3>1. \A p \in Ptys : lane.flight[p].stage \in FlightStages
      BY <2>3 DEF Lane, Flight
    <3> QED
      BY <2>3, <3>1 DEF LaneInv, FlightsSound, FlightStages
  <2>5. \A m \in Mail : /\ lane.row[m].phase \in 0..EnterAttempted
                        /\ lane.row[m].phase > 0 <=> lane.row[m].target \in Processes
    BY <2>3 DEF LaneInv, Lane, Row, RowsSound
  <2>6. Cardinality(lane.mark) <= 1
    <3>1. CASE lane.mark = {}
      BY <3>1, FS_EmptySet
    <3>2. CASE lane.mark # {}
      <4>1. PICK w : lane.mark = {w}
        BY <2>3, <3>2 DEF LaneInv, MarksSound
      <4>2. Cardinality({w}) = 1
        BY FS_Singleton
      <4>3. Cardinality(lane.mark) = 1
        BY <4>1, <4>2
      <4> QED
        BY <4>3
    <3> QED
      BY <3>1, <3>2
  <2>7. lane.queued \in Nat
    BY <2>3 DEF Lane
  <2> QED
    BY <2>1, <2>2, <2>4, <2>5, <2>6, <2>7 DEF TypeOK
<1> QED
  BY <1>1, LaneInvariant, PTL

(* No watermark stays active once its flight has ended, whichever way it ended, so none
   silences the mailbox for good. *)
THEOREM NoMarkOutlivesItsFlight == Spec => []ActiveMarkHasFlight
<1>1. MailboxInv => ActiveMarkHasFlight
  BY DEF MailboxInv, LaneInv, MarksSound, ActiveMarkHasFlight
<1> QED
  BY <1>1, LaneInvariant, PTL

(* Whenever the titles of an agent show it at rest, no Enter is held back for it. *)
THEOREM NoEnterMissesRest == Spec => []HeldEnterAwaitsRest
<1>1. MailboxInv => HeldEnterAwaitsRest
  BY DEF MailboxInv, RestIsAwaited, RestStages, HeldEnterAwaitsRest
<1> QED
  BY <1>1, LaneInvariant, PTL

(* While a process coordinates the Run, none of its mail is announced to it by a second
   Enter, unless an answer for another terminal put that mail back. *)
THEOREM MailboxEntersOnce == Spec => EnteredOncePerBinding
<1> DEFINE A == \A p \in Ptys : Pressed(p) =>
                  \A m \in lane.flight[p].batch \ returned :
                    [mail |-> m, process |-> Process(p), generation |-> generation] \notin entered
<1>1. MailboxInv => A
  <2> SUFFICES ASSUME MailboxInv, NEW p \in Ptys, lane.flight[p].stage = "probing",
                      NEW m \in lane.flight[p].batch \ returned,
                      [mail |-> m, process |-> Process(p), generation |-> generation] \in entered
               PROVE  FALSE
    BY DEF Pressed
  <2> DEFINE e == [mail |-> m, process |-> Process(p), generation |-> generation]
  <2>1. e \in entered /\ e.generation = generation /\ e.process[1] = p
    BY DEF Process
  <2>2. p = owner
    BY <2>1 DEF MailboxInv, EnteredPast
  <2>3. EnteredHere(m)
    BY <2>2 DEF EnteredHere
  <2> QED
    BY <2>2, <2>3 DEF MailboxInv, Memory, Fresh, BeforeEnter
<1> QED
  BY <1>1, LaneInvariant, PTL DEF EnteredOncePerBinding
-----------------------------------------------------------------------------
(* The mailbox implements MailConsumer.  What is outstanding was given to the present
   coordinator and is unread as a whole, *)
Handed ==
  \A d \in DOMAIN deliveries :
    standing[d] = "outstanding" =>
      /\ deliveries[d].batch \subseteq Unread /\ deliveries[d].batch # {}
      /\ deliveries[d].reader = owner

(* and a check that is not fenced is the present coordinator's. *)
CheckIsOwners ==
  \A p \in Ptys : check[p].stage # "none" =>
    check[p].generation <= generation /\ (~Fenced(p) => p = owner)

Consuming == Handed /\ CheckIsOwners

InHand == {[mail |-> deliveries[d].batch, reader |-> deliveries[d].reader] : d \in Outstanding}

LEMMA OutstandingIsHanded ==
  ASSUME ReaderInv, Handed
  PROVE  \A d : d \in Outstanding <=> d \in DOMAIN deliveries /\ standing[d] = "outstanding"
BY DEF ReaderInv, ReaderType, Handed, Outstanding

LEMMA InHandAgain ==
  ASSUME UNCHANGED <<deliveries, Outstanding>>
  PROVE  InHand' = InHand
BY DEF InHand

(* The checks alone move, and none begins but the coordinator's. *)
LEMMA ConsumerRests ==
  ASSUME ReaderInv, Consuming, UNCHANGED <<arrived, reader>>,
         \A p \in Ptys : check'[p].stage # "none" =>
           \/ check[p].stage # "none" /\ check'[p].generation = check[p].generation
           \/ check'[p].generation = generation /\ p = owner
  PROVE  Consuming' /\ UNCHANGED Consumer!consumerVars
<1>1. UNCHANGED <<read, deliveries, standing, owner, generation>>
  BY DEF reader
<1>2. Unread' = Unread
  BY <1>1 DEF Unread
<1>3. Outstanding' = Outstanding
  BY <1>1, <1>2 DEF Outstanding
<1>4. Handed'
  BY <1>1, <1>2 DEF Consuming, Handed
<1>5. CheckIsOwners'
  BY <1>1 DEF Consuming, CheckIsOwners, Fenced, ReaderInv, ReaderType
<1>6. InHand' = InHand
  BY <1>1, <1>3, InHandAgain
<1> QED
  BY <1>1, <1>4, <1>5, <1>6 DEF Consuming, InHand, Consumer!consumerVars

LEMMA ConsumerSends ==
  ASSUME ReaderInv, Consuming, notifyMessageArrived
  PROVE  Consuming' /\ Consumer!Send
<1>1. /\ arrived' = arrived + 1 /\ arrived \in Nat
      /\ UNCHANGED <<read, deliveries, standing, owner, generation>>
      /\ check' = [p \in Ptys |-> IF p \in Waiters THEN AtStage(p, "woken") ELSE check[p]]
  BY DEF notifyMessageArrived, reader, ReaderInv, ReaderType
<1>2. Unread \subseteq Unread'
  BY <1>1 DEF Unread
<1>3. Handed'
  BY <1>1, <1>2 DEF Consuming, Handed
<1>4. Outstanding' = Outstanding
  <2>1. \A d \in DOMAIN deliveries :
          deliveries[d].batch \cap Unread' # {} <=> deliveries[d].batch \cap Unread # {}
    BY <1>1, <1>2 DEF ReaderInv, HoldsArrived, Unread
  <2> QED
    BY <1>1, <2>1 DEF Outstanding
<1>5. CheckIsOwners'
  BY <1>1 DEF Consuming, CheckIsOwners, Fenced, Waiters, AtStage
<1>6. InHand' = InHand
  BY <1>1, <1>4, InHandAgain
<1> QED
  BY <1>1, <1>3, <1>5, <1>6 DEF Consuming, InHand, Consumer!Send

LEMMA ConsumerReads ==
  ASSUME ReaderInv, AckKnown, Consuming, NEW p \in Ptys, acknowledgeMailboxDelivery(p)
  PROVE  Consuming' /\ [Consumer!Next]_Consumer!consumerVars
<1> DEFINE d == check[p].ack
           valid == ~Fenced(p) /\ (d = 0 \/ (deliveries[d].generation = generation
                                             /\ standing[d] # "fenced"))
           pending == valid /\ d # 0 /\ standing[d] = "outstanding"
<1>1. /\ UNCHANGED <<arrived, deliveries, owner, generation>>
      /\ check[p].stage = "routing" /\ check \in [Ptys -> CheckRow]
      /\ check' \in {[check EXCEPT ![p] = AtStage(p, "reading")], [check EXCEPT ![p] = NoCheck]}
      /\ ~pending => UNCHANGED <<read, standing>>
      /\ pending => /\ read' = read \cup deliveries[d].batch
                    /\ standing' = [standing EXCEPT ![d] = "acknowledged"]
  BY DEF acknowledgeMailboxDelivery, ReaderInv, ReaderType, Ends, Proceeds
<1>2. \A q \in Ptys : check'[q].stage # "none" =>
        check[q].stage # "none" /\ check'[q].generation = check[q].generation
  BY <1>1 DEF AtStage, NoCheck
<1>3. CASE ~pending
  <2>1. UNCHANGED reader
    BY <1>1, <1>3 DEF reader
  <2> QED
    BY <1>1, <1>2, <2>1, ConsumerRests
<1>4. CASE pending
  <2>1. d \in DOMAIN deliveries /\ d \in DOMAIN standing /\ DOMAIN standing = DOMAIN deliveries
    BY <1>4 DEF AckKnown, ReaderInv, ReaderType
  <2>2. d \in Outstanding /\ deliveries[d].reader = owner
    BY <1>4, <2>1, OutstandingIsHanded DEF Consuming, Handed
  <2>3. Outstanding = {d}
    BY <2>2 DEF ReaderInv, OneOutstanding
  <2>4. \A e \in DOMAIN deliveries : standing'[e] # "outstanding"
    <3> TAKE e \in DOMAIN deliveries
    <3>1. standing'[e] = IF e = d THEN "acknowledged" ELSE standing[e]
      BY <1>1, <1>4, <2>1
    <3>2. e # d => standing[e] # "outstanding"
      BY <2>3, OutstandingIsHanded DEF Consuming
    <3> QED
      BY <3>1, <3>2
  <2>5. Handed' /\ Outstanding' = {}
    BY <1>1, <2>4 DEF Handed, Outstanding
  <2>6. CheckIsOwners'
    BY <1>1, <1>2 DEF Consuming, CheckIsOwners, Fenced
  <2>7. InHand = {[mail |-> deliveries[d].batch, reader |-> deliveries[d].reader]}
    BY <2>3 DEF InHand
  <2>8. InHand' = {}
    BY <2>5 DEF InHand
  <2> DEFINE b == [mail |-> deliveries[d].batch, reader |-> deliveries[d].reader]
  <2>9. b \in InHand /\ b.reader = owner /\ read' = read \cup b.mail
    BY <1>1, <1>4, <2>2, <2>7
  <2> HIDE DEF b
  <2>10. Consumer!Read(b)
    BY <1>1, <2>8, <2>9 DEF Consumer!Read, InHand
  <2>11. \E c \in InHand : Consumer!Read(c)
    BY <2>9, <2>10 DEF Consumer!Read
  <2>12. Consumer!Next
    BY <2>11, Zenon DEF Consumer!Next, InHand
  <2> QED
    BY <2>5, <2>6, <2>12 DEF Consuming
<1> QED
  BY <1>3, <1>4

LEMMA ConsumerGives ==
  ASSUME ReaderInv, Consuming, NEW p \in Ptys, getOrCreateMailboxDelivery(p)
  PROVE  Consuming' /\ [Consumer!Next]_Consumer!consumerVars
<1> DEFINE fresh == [batch |-> Unread, generation |-> check[p].generation, reader |-> p]
           n == Len(deliveries) + 1
           opens == ~Fenced(p) /\ Outstanding = {} /\ Unread # {}
<1>1. /\ UNCHANGED <<arrived, read, owner, generation>>
      /\ check[p].stage \in {"reading", "woken"} /\ check \in [Ptys -> CheckRow]
      /\ check' \in {[check EXCEPT ![p] = AtStage(p, "waiting")], [check EXCEPT ![p] = NoCheck]}
      /\ ~opens => UNCHANGED <<deliveries, standing>>
      /\ opens => /\ deliveries' = Append(deliveries, fresh)
                  /\ standing' = Append(standing, "outstanding")
  BY DEF getOrCreateMailboxDelivery, ReaderInv, ReaderType, Ends, Proceeds
<1>2. \A q \in Ptys : check'[q].stage # "none" =>
        check[q].stage # "none" /\ check'[q].generation = check[q].generation
  BY <1>1 DEF AtStage, NoCheck
<1>3. CASE ~opens
  <2>1. UNCHANGED reader
    BY <1>1, <1>3 DEF reader
  <2> QED
    BY <1>2, <2>1, <1>1, ConsumerRests
<1>4. CASE opens
  <2>1. Unread' = Unread /\ p = owner
    BY <1>1, <1>4 DEF Unread, Consuming, CheckIsOwners
  <2>2. /\ DOMAIN deliveries' = DOMAIN deliveries \cup {n} /\ deliveries'[n] = fresh
        /\ standing'[n] = "outstanding"
        /\ \A e \in DOMAIN deliveries : /\ deliveries'[e] = deliveries[e] /\ e # n
                                        /\ standing'[e] = standing[e]
    <3>1. /\ deliveries \in Seq(DeliveryRow) /\ standing \in Seq(Standing)
          /\ Len(standing) = Len(deliveries)
      BY DEF ReaderInv, ReaderType
    <3>2. fresh \in DeliveryRow
      BY <1>1 DEF DeliveryRow, CheckRow, Unread, ReaderInv, ReaderType
    <3> HIDE DEF fresh
    <3>3. /\ Len(deliveries') = n /\ deliveries'[n] = fresh
          /\ \A e \in 1..Len(deliveries) : deliveries'[e] = deliveries[e]
      BY <1>1, <1>4, <3>1, <3>2
    <3>4. /\ standing'[n] = "outstanding"
          /\ \A e \in 1..Len(deliveries) : standing'[e] = standing[e]
      BY <1>1, <1>4, <3>1
    <3>5. DOMAIN deliveries = 1..Len(deliveries) /\ DOMAIN deliveries' = 1..n
      BY <1>1, <1>4, <3>1, <3>2, <3>3
    <3>6. n \notin 1..Len(deliveries) /\ 1..n = (1..Len(deliveries)) \cup {n}
      BY <3>1
    <3> QED
      BY <3>3, <3>4, <3>5, <3>6
  <2>3. \A e \in DOMAIN deliveries : standing[e] # "outstanding"
    BY <1>4, OutstandingIsHanded DEF Consuming
  <2>4. Handed'
    BY <1>1, <1>4, <2>1, <2>2, <2>3 DEF Handed
  <2>5. Outstanding' = {n}
    <3>1. n \in Outstanding'
      BY <1>4, <2>1, <2>2 DEF Outstanding
    <3>2. \A e \in Outstanding' : e = n
      BY <2>2, <2>3 DEF Outstanding
    <3> QED
      BY <3>1, <3>2
  <2>6. CheckIsOwners'
    BY <1>1, <1>2 DEF Consuming, CheckIsOwners, Fenced
  <2>7. InHand = {}
    BY <1>4 DEF InHand
  <2>8. InHand' = {[mail |-> Unread, reader |-> owner]}
    BY <2>1, <2>2, <2>5 DEF InHand
  <2>9. Consumer!Give
    BY <1>1, <1>4, <2>7, <2>8 DEF Consumer!Give, Consumer!Unread, InHand, Unread
  <2> QED
    BY <2>4, <2>6, <2>9 DEF Consuming, Consumer!Next
<1> QED
  BY <1>3, <1>4

LEMMA ConsumerTakesOver ==
  ASSUME ReaderInv, World, Consuming, NEW p \in Ptys, bindRun(p)
  PROVE  Consuming' /\ Consumer!TakeOver
<1>1. /\ UNCHANGED <<arrived, read, deliveries>> /\ p # owner /\ owner' = p
      /\ generation' = generation + 1 /\ generation \in Nat
      /\ standing' = [d \in DOMAIN standing |->
                        IF standing[d] = "outstanding" THEN "fenced" ELSE standing[d]]
      /\ check' = [q \in Ptys |-> IF q \in Waiters THEN NoCheck ELSE check[q]]
      /\ check \in [Ptys -> CheckRow] /\ DOMAIN standing = DOMAIN deliveries
  BY DEF bindRun, ReaderInv, ReaderType
<1>2. \A d \in DOMAIN deliveries' : standing'[d] # "outstanding"
  BY <1>1
<1>3. Handed' /\ Outstanding' = {}
  BY <1>2 DEF Handed, Outstanding
<1>4. CheckIsOwners'
  <2> SUFFICES ASSUME NEW q \in Ptys, check'[q].stage # "none"
               PROVE  check'[q].generation <= generation + 1 /\ check'[q].generation # generation + 1
    BY <1>1 DEF CheckIsOwners, Fenced
  <2>1. check'[q] = check[q] /\ check[q].generation \in Nat
    BY <1>1 DEF NoCheck, CheckRow
  <2>2. check[q].generation <= generation
    BY <2>1 DEF Consuming, CheckIsOwners
  <2> QED
    BY <1>1, <2>1, <2>2
<1>5. InHand' = {}
  BY <1>3 DEF InHand
<1> QED
  BY <1>1, <1>3, <1>4, <1>5 DEF Consuming, InHand, Consumer!TakeOver

LEMMA ConsumerInit == Init => Consuming /\ Consumer!Init
<1> SUFFICES ASSUME Init PROVE Consuming /\ Consumer!Init
  OBVIOUS
<1>1. /\ deliveries = <<>> /\ DOMAIN deliveries = {} /\ Len(deliveries) = 0
      /\ arrived = 0 /\ read = {} /\ owner \in Ptys /\ check = [p \in Ptys |-> NoCheck]
  BY DEF Init
<1>2. Outstanding = {}
  BY <1>1 DEF Outstanding
<1>3. InHand = {}
  BY <1>2 DEF InHand
<1> QED
  BY <1>1, <1>3 DEF Consuming, Handed, CheckIsOwners, NoCheck, InHand, Consumer!Init

LEMMA ConsumerStep ==
  ASSUME ReaderInv, AckKnown, MailboxInv, Consuming, [Next]_vars
  PROVE  Consuming' /\ [Consumer!Next]_Consumer!consumerVars
<1> DEFINE Good == Consuming' /\ [Consumer!Next]_Consumer!consumerVars
<1>0. World
  BY DEF MailboxInv
<1>1. ASSUME UNCHANGED <<arrived, reader, check>> PROVE Good
  BY <1>1, ConsumerRests
<1>2. ASSUME notifyMessageArrived PROVE Good
  BY <1>2, ConsumerSends DEF Consumer!Next
<1>3. ASSUME NEW p \in Ptys, acknowledgeMailboxDelivery(p) PROVE Good
  BY <1>3, ConsumerReads
<1>4. ASSUME NEW p \in Ptys, getOrCreateMailboxDelivery(p) PROVE Good
  BY <1>4, ConsumerGives
<1>5. ASSUME NEW p \in Ptys, bindRun(p) PROVE Good
  BY <1>0, <1>5, ConsumerTakesOver DEF Consumer!Next
<1>6. ASSUME NEW p \in Ptys,
             (\E ack \in {0, Len(deliveries)} : CheckBegins(p, ack)) \/ WaitEnds(p)
      PROVE  Good
  <2>1. UNCHANGED <<arrived, reader>> /\ check \in [Ptys -> CheckRow]
    BY <1>6, Zenon DEF CheckBegins, WaitEnds, ReaderInv, ReaderType
  <2>2. \A q \in Ptys : check'[q].stage # "none" =>
          \/ check[q].stage # "none" /\ check'[q].generation = check[q].generation
          \/ check'[q].generation = generation /\ q = owner
    BY <1>6, <2>1 DEF CheckBegins, WaitEnds, Ends, NoCheck
  <2> QED
    BY <2>1, <2>2, ConsumerRests
<1>7. ASSUME NEW torn, Restart(torn) PROVE Good
  <2>1. UNCHANGED <<arrived, reader>> /\ check' = [p \in Ptys |-> NoCheck]
    BY <1>7, Zenon DEF Restart
  <2>2. \A q \in Ptys : check'[q].stage = "none"
    BY <2>1 DEF NoCheck
  <2> QED
    BY <2>1, <2>2, ConsumerRests
<1> HIDE DEF Good
<1>8. ASSUME LaneStep PROVE Good
  BY <1>1, <1>8, LaneIsQuiet
<1>9. ASSUME Microtask PROVE Good
  <2>1. Evidence \subseteq BOOLEAN
    BY DEF Evidence
  <2> QED
    BY <1>4, <1>8, <1>9, <2>1 DEF Microtask, LaneStep
<1>10. ASSUME Turn PROVE Good
  BY <1>2, <1>3, <1>4, <1>5, <1>6, <1>7, <1>8, <1>10, TurnSplits, Zenon DEF TurnKinds
<1>11. ASSUME UNCHANGED vars PROVE Good
  BY <1>1, <1>11 DEF vars
<1>12. Good
  BY <1>9, <1>10, <1>11 DEF Next
<1> QED
  BY <1>12 DEF Good

(* The mailbox implements MailConsumer: whatever a check read before an await, mail is given
   to the coordinator and taken as read as if the check had asked at once. *)
THEOREM MailboxConsumes == Spec => ImplementsConsumer
<1>1. Spec => []Consuming
  BY LaneInvariant, ConsumerInit, ConsumerStep, PTL DEF Spec
<1>2. ReaderInv /\ AckKnown /\ MailboxInv /\ Consuming /\ [Next]_vars
        => [Consumer!Next]_Consumer!consumerVars
  BY ConsumerStep
<1> QED
  BY <1>1, <1>2, LaneInvariant, ConsumerInit, PTL DEF Spec, ImplementsConsumer, Consumer!Spec
=============================================================================
