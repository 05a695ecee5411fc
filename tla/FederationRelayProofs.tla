------------------------ MODULE FederationRelayProofs ------------------------
(***************************************************************************)
(* Proofs about FederationRelay, for every size of queue and page and for   *)
(* every number of faults, stops and runtimes.                              *)
(*                                                                         *)
(* The argument: an acknowledgment is only as good as what it says, and it  *)
(* may be executed long after the home gave it up.  So the invariant        *)
(* speaks of every acknowledgment that exists, in flight, given up or in a  *)
(* receipt: it covers nothing the home has not imported, the outcome it     *)
(* reports is the home's own and final, and a report it calls rejected has  *)
(* been refused in the home's mailbox.                                      *)
(***************************************************************************)
EXTENDS FederationRelay, FiniteSetTheorems, SequenceTheorems, TLAPS

-----------------------------------------------------------------------------
(* The least element of a set of sequences.                                  *)

LEMMA MinIsLeast ==
  ASSUME NEW S \in SUBSET Nat, S # {}
  PROVE  Min(S) \in S /\ \A y \in S : Min(S) <= y
<1> DEFINE T == {1..n : n \in S}
           R == StrictSubsetOrdering(Nat)
<1>1. IsWellFoundedOn(R, FiniteSubsetsOf(Nat))
  BY FS_StrictSubsetOrderingWellFounded
<1>2. T \subseteq FiniteSubsetsOf(Nat) /\ T # {}
  <2>1. \A n \in S : IsFiniteSet(1..n)
    BY FS_Interval
  <2>2. \A n \in S : 1..n \in FiniteSubsetsOf(Nat)
    BY <2>1 DEF FiniteSubsetsOf
  <2> QED BY <2>2
<1>3. PICK X \in T : \A Y \in T : ~ (<<Y, X>> \in R)
  BY <1>1, <1>2, WFMin
<1>4. PICK x \in S : X = 1..x
  OBVIOUS
<1>5. ASSUME NEW y \in S PROVE x <= y
  <2>1. SUFFICES ASSUME y < x PROVE FALSE
    OBVIOUS
  <2>2. 1..y \subseteq 1..x /\ 1..y # 1..x
    <3>1. x \in 1..x /\ x \notin 1..y
      BY <2>1
    <3>2. 1..y \subseteq 1..x
      BY <2>1
    <3> QED BY <3>1, <3>2
  <2>3. 1..y \in FiniteSubsetsOf(Nat) /\ 1..x \in FiniteSubsetsOf(Nat)
    BY <1>2
  <2>4. <<1..y, 1..x>> \in R
    BY <2>2, <2>3 DEF StrictSubsetOrdering, FiniteSubsetsOf
  <2> QED BY <1>3, <1>4, <2>4
<1> QED BY <1>5 DEF Min

LEMMA LeastIsMin ==
  ASSUME NEW S \in SUBSET Nat, NEW x \in S, \A y \in S : x <= y
  PROVE  Min(S) = x
<1>1. Min(S) \in S /\ \A y \in S : Min(S) <= y
  BY MinIsLeast
<1>2. Min(S) \in Nat /\ x \in Nat /\ Min(S) <= x /\ x <= Min(S)
  BY <1>1
<1> HIDE DEF Min
<1> QED BY <1>2

-----------------------------------------------------------------------------
(* The invariant.                                                            *)

(* The page that is about to be imported continues what the home has, and its
   reports are still queued where it says. *)
PageTrue ==
  phase = "import" =>
    /\ page.from <= Len(inbox) + 1
    /\ Cursor <= Len(queue)
    /\ \A i \in 1..Len(page.items) :
         page.items[i] = queue[SequenceOf(i)] \/ page.items[i] = "heartbeat"

(* What the home has imported is what is queued, unless a heartbeat has been
   replaced since; and a report there has been refused or is the verdict. *)
InboxTrue ==
  \A s \in 1..Len(inbox) :
    /\ inbox[s] = queue[s] \/ inbox[s] = "heartbeat"
    /\ inbox[s] \in Outcomes => s \in refused \/ worker = inbox[s]

AskTrue(a) ==
  /\ a.through <= Len(inbox)
  /\ a.accepted \subseteq 1..Len(inbox)
  /\ \A s \in a.accepted : queue[s] \in Outcomes /\ worker = queue[s]
  /\ \A s \in a.rejected : s \in refused \/ task # "still"

AsksTrue ==
  /\ \A a \in late : AskTrue(a)
  /\ \A r \in receipts : AskTrue(r.ask) /\ (r.done => r.ask.through <= ackd)
  /\ phase \in {"ack", "acked"} => AskTrue(ask)
  /\ phase = "acked" => ask.through <= ackd

Inv ==
  /\ TypeOK
  /\ NothingAckedUnseen
  /\ PageTrue
  /\ InboxTrue
  /\ AsksTrue
  /\ ServersAgree
  /\ ReportsGetVerdicts

LEMMA InitInv ==
  ASSUME RelayConstants, Init
  PROVE  Inv
<1>1. TypeOK
  <2>1. queue \in Seq(Kinds) /\ inbox \in Seq(Kinds) /\ Len(queue) = 0 /\ Len(inbox) = 0
    BY DEF Init
  <2>2. page \in [from : Nat \ {0}, items : Seq(Kinds), epoch : Nat]
    BY DEF Init, NoPage
  <2>3. ask \in Asks
    BY DEF Init, NoAsk, Asks
  <2>4. sync \in [epoch : Nat, supported : BOOLEAN, capEpoch : Nat]
        /\ checkpoint \in [epoch : Nat, through : Nat]
    BY DEF Init, NoSync, NoCheckpoint
  <2>5. protocol \in Protocols /\ capable \in BOOLEAN
    BY DEF Init
  <2>6. 0 \in 0..MaxStops /\ 0 \in 0..MaxFaults /\ 0 \in 0..MaxPages /\ 1 \in 1..MaxEpoch
        /\ 0 <= MaxItems
    BY DEF RelayConstants
  <2> QED BY <2>1, <2>2, <2>3, <2>4, <2>5, <2>6 DEF Init, TypeOK, Live
<1>2. QED
  BY <1>1 DEF Init, Inv, NothingAckedUnseen, PageTrue, InboxTrue, AsksTrue, ServersAgree,
         ReportsGetVerdicts, Outcomes

-----------------------------------------------------------------------------
(* What importing the first n items of the page does.                        *)

LEMMA ImportableBounds ==
  ASSUME TypeOK, PageTrue, phase = "import"
  PROVE  /\ Importable \in 0..Len(page.items)
         /\ \A j \in 1..Importable : j \notin Mismatched
<1>1. Contiguous /\ Len(page.items) \in Nat
  BY DEF TypeOK, PageTrue, Contiguous
<1>2. CASE Mismatched = {}
  BY <1>1, <1>2 DEF Importable
<1>3. CASE Mismatched # {}
  <2>1. Mismatched \subseteq 1..Len(page.items)
    BY DEF Mismatched
  <2>2. Min(Mismatched) \in Mismatched /\ \A y \in Mismatched : Min(Mismatched) <= y
    BY <1>3, <2>1, MinIsLeast
  <2>3. Importable = Min(Mismatched) - 1
    BY <1>1, <1>3 DEF Importable
  <2> DEFINE least == Min(Mismatched)
  <2>4. least \in 1..Len(page.items)
    BY <2>1, <2>2
  <2> HIDE DEF least
  <2>5. \A j \in Mismatched : least <= j
    BY <2>2 DEF least
  <2>6. Importable = least - 1
    BY <2>3 DEF least
  <2> QED BY <1>1, <2>4, <2>5, <2>6
<1> QED BY <1>2, <1>3

(* The inbox grows to the sequence of the last item, by what is queued there. *)
LEMMA ImportExtends ==
  ASSUME TypeOK, PageTrue, phase = "import", NEW n \in 0..Importable, Import(n)
  PROVE  /\ inbox' \in Seq(Kinds)
         /\ Len(inbox') = Bigger(Len(inbox), page.from - 1 + n)
         /\ Len(inbox') <= Len(queue)
         /\ \A s \in 1..Len(inbox) : inbox'[s] = inbox[s]
         /\ \A s \in 1..Len(inbox') : s > Len(inbox) =>
               /\ s - page.from + 1 \in 1..n
               /\ inbox'[s] = page.items[s - page.from + 1]
<1> DEFINE home == Len(inbox)
           from == page.from
           size == Len(page.items)
           first == Bigger(1, home + 2 - from)
           rest == SubSeq(page.items, first, n)
           added == Len(rest)
<1>1. /\ page.items \in Seq(Kinds) /\ inbox \in Seq(Kinds) /\ queue \in Seq(Kinds)
      /\ from \in Nat \ {0} /\ home \in Nat /\ size \in Nat /\ Len(queue) \in Nat
      /\ home <= Len(queue) /\ from <= home + 1 /\ from - 1 + size <= Len(queue)
  <2>1. /\ page \in [from : Nat \ {0}, items : Seq(Kinds), epoch : Nat]
        /\ inbox \in Seq(Kinds) /\ queue \in Seq(Kinds) /\ home <= Len(queue)
    BY DEF TypeOK
  <2>2. from <= home + 1 /\ from - 1 + size <= Len(queue)
    BY DEF PageTrue, Cursor
  <2> QED BY <2>1, <2>2
<1>2. n \in 0..size
  BY ImportableBounds
<1>3. inbox' = inbox \o rest
  BY DEF Import
<1>4. first \in Nat \ {0} /\ first = home + 2 - from
  BY <1>1 DEF Bigger
<1>5. \A i \in first..n : page.items[i] \in Kinds
  BY <1>1, <1>2, <1>4
<1>6. /\ rest \in Seq(Kinds)
      /\ added = IF first <= n THEN n - first + 1 ELSE 0
      /\ \A i \in 1 .. n - first + 1 : rest[i] = page.items[first + i - 1]
  <2> HIDE DEF first
  <2>1. n \in Int /\ first \in Int
    BY <1>2, <1>4, <1>1
  <2> HIDE DEF size
  <2> QED BY <2>1, <1>5, SubSeqProperties, SMTT(60)
<1> HIDE DEF rest, first
<1>7. /\ inbox' \in Seq(Kinds) /\ Len(inbox') = home + added
      /\ \A s \in 1..home + added :
           inbox'[s] = IF s <= home THEN inbox[s] ELSE rest[s - home]
  BY <1>1, <1>3, <1>6, ConcatProperties
<1>8. added \in Nat
  BY <1>6
<1> HIDE DEF home, from, size, added
<1>9. /\ home + added = Bigger(home, from - 1 + n)
      /\ home + added <= Len(queue)
  BY <1>1, <1>2, <1>4, <1>6 DEF Bigger
<1>10. ASSUME NEW s \in 1..home + added, s > home
       PROVE  /\ s - from + 1 \in 1..n
              /\ inbox'[s] = page.items[s - from + 1]
  <2>1. s - home \in 1 .. n - first + 1 /\ s - from + 1 \in 1..n
    BY <1>1, <1>2, <1>4, <1>6, <1>8, <1>10
  <2>2. first + (s - home) - 1 = s - from + 1
    BY <1>1, <1>4
  <2>3. inbox'[s] = rest[s - home]
    BY <1>1, <1>7, <1>10
  <2>4. rest[s - home] = page.items[first + (s - home) - 1]
    BY <1>6, <2>1
  <2> QED BY <2>1, <2>2, <2>3, <2>4
<1>11. \A s \in 1..home : inbox'[s] = inbox[s]
  BY <1>1, <1>7, <1>8
<1> QED BY <1>7, <1>9, <1>10, <1>11 DEF home, from

(* The verdict over n items is that over any of them that already gives one. *)
LEMMA VerdictOverPage ==
  ASSUME TypeOK, NEW n \in 0..Len(page.items)
  PROVE  /\ WorkerAfter(n) \in Live \cup Outcomes \cup {"stopped", "abandoned"}
         /\ worker \in Outcomes => WorkerAfter(n) = worker
         /\ worker \in Live \/ WorkerAfter(n) = worker
         /\ \/ WorkerAfter(n) = worker
            \/ /\ worker \in Settleable
               /\ \E i \in Reports(n) : WorkerAfter(n) = page.items[i]
         /\ \A j \in Reports(n) :
               WorkerAfter(j) = page.items[j] => WorkerAfter(n) = page.items[j]
<1>1. Reports(n) \subseteq 1..n /\ \A i \in Reports(n) : page.items[i] \in Outcomes
  BY DEF Reports
<1>2. ASSUME Reports(n) # {}
      PROVE  Min(Reports(n)) \in Reports(n) /\ \A y \in Reports(n) : Min(Reports(n)) <= y
  BY <1>1, <1>2, MinIsLeast
<1>3. ASSUME NEW j \in Reports(n)
      PROVE  Min(Reports(j)) = Min(Reports(n))
  <2>1. Reports(j) \subseteq Reports(n) /\ j \in Reports(j)
    BY <1>1 DEF Reports
  <2>2. Min(Reports(n)) \in Reports(j)
    BY <1>1, <1>2 DEF Reports
  <2>3. Reports(j) \in SUBSET Nat /\ \A y \in Reports(j) : Min(Reports(n)) <= y
    BY <1>1, <1>2, <2>1
  <2> HIDE DEF Min
  <2> QED BY <2>2, <2>3, LeastIsMin
<1> HIDE DEF Min
<1>4. \/ WorkerAfter(n) = worker
      \/ /\ worker \in Settleable
         /\ \E i \in Reports(n) : WorkerAfter(n) = page.items[i]
  BY <1>2 DEF WorkerAfter
<1>5. ASSUME NEW j \in Reports(n), WorkerAfter(j) = page.items[j]
      PROVE  WorkerAfter(n) = page.items[j]
  <2>1. CASE worker \in Settleable
    <3>1. Reports(j) # {}
      BY <1>1 DEF Reports
    <3> QED BY <1>3, <1>5, <2>1, <3>1 DEF WorkerAfter
  <2>2. CASE worker \notin Settleable
    BY <1>5, <2>2 DEF WorkerAfter
  <2> QED BY <2>1, <2>2
<1>6. worker \in Live \cup Outcomes \cup {"stopped", "abandoned"}
  BY DEF TypeOK
<1> QED BY <1>1, <1>4, <1>5, <1>6 DEF Settleable, Live, Outcomes

(* What the imported reports were told, and what that leaves in the mailbox. *)
LEMMA ImportJudges ==
  ASSUME TypeOK, PageTrue, InboxTrue, phase = "import",
         NEW n \in 0..Importable, Import(n), UNCHANGED <<queue, task>>
  PROVE  /\ Accepted(n) \subseteq 1..Len(inbox')
         /\ \A s \in Accepted(n) : queue[s] \in Outcomes /\ worker' = queue[s]
         /\ \A s \in Rejected(n) : s \in refused' \/ task # "still"
         /\ refused \subseteq refused' /\ refused' \subseteq 1..Len(inbox')
         /\ worker \in Outcomes => worker' = worker
         /\ worker' \in Live \cup Outcomes \cup {"stopped", "abandoned"}
         /\ InboxTrue'
<1>1. /\ page.from \in Nat \ {0} /\ page.items \in Seq(Kinds)
      /\ page.from <= Len(inbox) + 1
      /\ Len(inbox) \in Nat /\ refused \subseteq 1..Len(inbox)
      /\ \A i \in 1..Len(page.items) :
           page.items[i] = queue[SequenceOf(i)] \/ page.items[i] = "heartbeat"
  BY DEF TypeOK, PageTrue
<1>2. n \in 0..Len(page.items) /\ \A j \in 1..n : j \notin Mismatched
  BY ImportableBounds
<1>3. worker' = WorkerAfter(n)
  BY DEF Import
<1>4. /\ worker \in Outcomes => worker' = worker
      /\ worker' \in Live \cup Outcomes \cup {"stopped", "abandoned"}
      /\ \A j \in Reports(n) : WorkerAfter(j) = page.items[j] => worker' = page.items[j]
  BY <1>2, <1>3, VerdictOverPage
<1>5. /\ Len(inbox') = Bigger(Len(inbox), page.from - 1 + n)
      /\ \A s \in 1..Len(inbox) : inbox'[s] = inbox[s]
      /\ \A s \in 1..Len(inbox') : s > Len(inbox) =>
            s - page.from + 1 \in 1..n /\ inbox'[s] = page.items[s - page.from + 1]
  BY ImportExtends
<1>6. ASSUME NEW j \in Reports(n)
      PROVE  /\ j \in 1..n /\ page.items[j] \in Outcomes
             /\ SequenceOf(j) \in 1..Len(inbox')
             /\ page.items[j] = queue[SequenceOf(j)]
  <2>1. j \in 1..n /\ page.items[j] \in Outcomes
    BY DEF Reports
  <2>2. page.items[j] = queue[SequenceOf(j)]
    BY <1>1, <1>2, <2>1 DEF Outcomes
  <2> QED BY <1>1, <1>5, <2>1, <2>2 DEF SequenceOf, Bigger
<1>7. ASSUME NEW s \in Accepted(n)
      PROVE  s \in 1..Len(inbox') /\ queue[s] \in Outcomes /\ worker' = queue[s]
  <2>1. PICK i \in Reports(n) : s = SequenceOf(i) /\ WorkerAfter(i) = page.items[i]
    BY DEF Accepted
  <2> QED BY <1>4, <1>6, <2>1
<1>8. refused' = refused \cup (Rejected(n) \cap {q \in page.from .. page.from + n - 1 : q > Len(inbox)})
  BY DEF Import
<1>9. refused \subseteq refused' /\ refused' \subseteq 1..Len(inbox')
  <2> DEFINE home == Len(inbox)
             home2 == Len(inbox')
             from == page.from
  <2>1. /\ home \in Nat /\ from \in Nat \ {0} /\ from <= home + 1 /\ n \in Nat
        /\ home2 = Bigger(home, from - 1 + n) /\ refused \subseteq 1..home
    BY <1>1, <1>2, <1>5
  <2>2. refused' = refused \cup (Rejected(n) \cap {q \in from .. from + n - 1 : q > home})
    BY <1>8
  <2> HIDE DEF home, home2, from
  <2>3. {q \in from .. from + n - 1 : q > home} \subseteq 1..home2 /\ 1..home \subseteq 1..home2
    BY <2>1 DEF Bigger
  <2> QED BY <2>1, <2>2, <2>3 DEF home2
<1>10. ASSUME NEW s \in Rejected(n)
       PROVE  s \in refused' \/ task # "still"
  <2>1. PICK j \in Reports(n) : s = SequenceOf(j)
    BY DEF Rejected
  <2>2. WorkerAfter(j) # page.items[j] \/ task = "moved"
    BY <2>1 DEF Accepted, Rejected
  <2>3. CASE s > Len(inbox)
    <3>1. s \in page.from .. page.from + n - 1
      BY <1>1, <1>2, <1>6, <2>1 DEF SequenceOf
    <3> QED BY <1>8, <2>3, <3>1
  <2>4. CASE ~(s > Len(inbox))
    <3>1. s \in 1..Len(inbox) /\ inbox[s] = page.items[j] /\ inbox[s] \in Outcomes
      BY <1>1, <1>2, <1>6, <2>1, <2>4 DEF Mismatched, SequenceOf
    <3>2. s \in refused \/ worker = inbox[s]
      BY <3>1 DEF InboxTrue
    <3>3. ASSUME worker = inbox[s] PROVE task # "still"
      <4>1. WorkerAfter(j) = page.items[j]
        BY <3>1, <3>3 DEF WorkerAfter, Settleable, Outcomes
      <4> QED BY <2>2, <4>1
    <3> QED BY <1>9, <3>2, <3>3
  <2> QED BY <2>3, <2>4
<1>11. InboxTrue'
  <2>1. SUFFICES ASSUME NEW s \in 1..Len(inbox')
                 PROVE  /\ inbox'[s] = queue[s] \/ inbox'[s] = "heartbeat"
                        /\ inbox'[s] \in Outcomes => s \in refused' \/ worker' = inbox'[s]
    BY DEF InboxTrue
  <2>2. CASE s <= Len(inbox)
    <3>1. s \in 1..Len(inbox) /\ inbox'[s] = inbox[s]
      BY <1>1, <1>5, <2>2
    <3> QED BY <1>4, <1>9, <3>1 DEF InboxTrue
  <2>3. CASE ~(s <= Len(inbox))
    <3> DEFINE j == s - page.from + 1
    <3>1. j \in 1..n /\ inbox'[s] = page.items[j] /\ SequenceOf(j) = s
      BY <1>1, <1>5, <2>3 DEF SequenceOf
    <3>2. inbox'[s] = queue[s] \/ inbox'[s] = "heartbeat"
      <4> HIDE DEF j
      <4>1. j \in 1..Len(page.items)
        BY <1>2, <3>1
      <4> QED BY <1>1, <3>1, <4>1
    <3>3. ASSUME inbox'[s] \in Outcomes
          PROVE  s \in refused' \/ worker' = inbox'[s]
      <4>1. j \in Reports(n)
        BY <3>1, <3>3 DEF Reports
      <4>2. s \in Accepted(n) \/ s \in Rejected(n)
        BY <3>1, <4>1 DEF Rejected
      <4>3. ASSUME s \in Accepted(n) PROVE worker' = inbox'[s]
        BY <1>6, <1>7, <3>1, <4>1, <4>3
      <4>4. ASSUME s \in Rejected(n) PROVE s \in refused'
        <5>1. s \in page.from .. page.from + n - 1 /\ s > Len(inbox)
          BY <1>1, <1>2, <2>3, <3>1 DEF SequenceOf
        <5> QED BY <1>8, <4>4, <5>1
      <4> QED BY <4>2, <4>3, <4>4
    <3> QED BY <3>2, <3>3
  <2> QED BY <2>2, <2>3
<1> QED BY <1>4, <1>7, <1>9, <1>10, <1>11

-----------------------------------------------------------------------------
(* What carrying out an acknowledgment does.                                 *)

LEMMA AcknowledgeMoves ==
  ASSUME Inv, NEW a \in Asks, AskTrue(a), Acknowledgeable(a), Acknowledge(a)
  PROVE  /\ ackd' \in 0..Len(queue) /\ ackd' <= Len(inbox)
         /\ ackd <= ackd' /\ a.through <= ackd'
         /\ \A s \in 1..ackd' : s <= ackd \/ s <= a.through
         /\ attachment' = attachment \/ (attachment' \in Outcomes /\ attachment' = worker)
         /\ \A s \in a.accepted : attachment' = worker
         /\ attachment' = attachment \/ attachment \in Settleable
         /\ attachment \in Outcomes => attachment' = attachment
<1>1. /\ ackd \in 0..Len(queue) /\ Len(queue) \in Nat /\ Len(inbox) \in Nat
      /\ Len(inbox) <= Len(queue) /\ ackd <= Len(inbox)
  BY DEF Inv, TypeOK, NothingAckedUnseen
<1>2. a.through \in Nat /\ a.through <= Len(inbox) /\ a.accepted \in SUBSET Nat
  BY DEF Asks, AskTrue
<1>3. ackd' = Bigger(ackd, a.through)
  BY DEF Acknowledge
<1>4. /\ ackd' \in 0..Len(queue) /\ ackd' <= Len(inbox)
      /\ ackd <= ackd' /\ a.through <= ackd'
      /\ \A s \in 1..ackd' : s <= ackd \/ s <= a.through
  BY <1>1, <1>2, <1>3 DEF Bigger
<1>5. CASE a.accepted = {}
  BY <1>4, <1>5 DEF Acknowledge
<1>6. CASE a.accepted # {}
  <2>1. Min(a.accepted) \in a.accepted
    BY <1>2, <1>6, MinIsLeast
  <2>2. attachment' = queue[Min(a.accepted)]
    BY <1>6 DEF Acknowledge
  <2> HIDE DEF Min
  <2>3. attachment' \in Outcomes /\ attachment' = worker
    BY <2>1, <2>2 DEF AskTrue
  <2>4. attachment = attachment' \/ attachment \in Settleable
    BY <2>1, <2>2 DEF Acknowledgeable
  <2> QED BY <1>4, <2>3, <2>4 DEF Settleable, Outcomes
<1> QED BY <1>5, <1>6

(* Carrying it out leaves both verdict properties true. *)
LEMMA AcknowledgeSafe ==
  ASSUME Inv, NEW a \in Asks, AskTrue(a), Acknowledgeable(a), Acknowledge(a),
         UNCHANGED <<protocol, queue, worker, refused, task>>
  PROVE  ServersAgree' /\ ReportsGetVerdicts'
<1>1. /\ \A s \in 1..ackd' : s <= ackd \/ s <= a.through
      /\ attachment' = attachment \/ (attachment' \in Outcomes /\ attachment' = worker)
      /\ \A s \in a.accepted : attachment' = worker
      /\ attachment \in Outcomes => attachment' = attachment
      /\ ackd' \in 0..Len(queue)
  BY AcknowledgeMoves
<1>2. ServersAgree'
  BY <1>1 DEF Inv, ServersAgree
<1>3. ReportsGetVerdicts'
  <2>1. SUFFICES ASSUME protocol = "settling", NEW s \in 1..ackd', queue[s] \in Outcomes
                 PROVE  attachment' = queue[s] \/ s \in refused \/ task # "still"
    BY DEF ReportsGetVerdicts
  <2>2. CASE s <= ackd
    <3>1. s \in 1..ackd
      BY <1>1, <2>2 DEF Inv, TypeOK
    <3>2. attachment = queue[s] \/ s \in refused \/ task # "still"
      BY <2>1, <3>1 DEF Inv, ReportsGetVerdicts
    <3> QED BY <1>1, <2>1, <3>2
  <2>3. CASE ~(s <= ackd)
    <3>1. s \in Unacked /\ s <= a.through
      BY <1>1, <2>3 DEF Unacked, Inv, TypeOK
    <3>2. s \in a.accepted \/ s \in a.rejected
      BY <2>1, <3>1 DEF Acknowledgeable
    <3> QED BY <1>1, <3>2 DEF AskTrue
  <2> QED BY <2>2, <2>3
<1> QED BY <1>2, <1>3

-----------------------------------------------------------------------------
(* The steps that touch neither queue nor mailbox nor acknowledgments.       *)

LEMMA OutsideStep ==
  ASSUME Inv,
         UNCHANGED <<protocol, queue, ackd, receipts, inbox, refused, ackedHome>>,
         task # "still" => task' # "still",
         worker \in Outcomes => worker' = worker,
         attachment \in Outcomes \/ attachment' \in Outcomes => attachment' = attachment,
         late' \subseteq late \cup (IF phase \in {"ack", "acked"} THEN {ask} ELSE {}),
         phase' = "import" => phase = "import" /\ page' = page,
         phase' \in {"ack", "acked"} => phase' = phase /\ ask' = ask
  PROVE  NothingAckedUnseen' /\ PageTrue' /\ InboxTrue' /\ AsksTrue'
           /\ ServersAgree' /\ ReportsGetVerdicts'
<1>1. NothingAckedUnseen' /\ PageTrue'
  BY DEF Inv, NothingAckedUnseen, PageTrue, Cursor, SequenceOf
<1>2. InboxTrue'
  BY DEF Inv, InboxTrue
<1>3. ASSUME NEW a, AskTrue(a) PROVE AskTrue(a)'
  BY <1>3 DEF AskTrue
<1>4. AsksTrue'
  BY <1>3 DEF Inv, AsksTrue
<1>5. ServersAgree'
  BY DEF Inv, ServersAgree
<1>6. ReportsGetVerdicts'
  <2>1. SUFFICES ASSUME protocol = "settling", NEW s \in 1..ackd, queue[s] \in Outcomes
                 PROVE  attachment' = queue[s] \/ s \in refused \/ task' # "still"
    BY DEF ReportsGetVerdicts
  <2>2. attachment = queue[s] \/ s \in refused \/ task # "still"
    BY <2>1 DEF Inv, ReportsGetVerdicts
  <2> QED BY <2>1, <2>2
<1> QED BY <1>1, <1>2, <1>4, <1>5, <1>6

(* The queue changes where nothing is acknowledged and only in a heartbeat's place. *)
LEMMA QueueStep ==
  ASSUME Inv, NEW kind \in Kinds, NEW same \in BOOLEAN,
         queue' = Queued(kind, same)
  PROVE  /\ queue' \in Seq(Kinds) /\ Len(queue') \in {Len(queue), Len(queue) + 1}
         /\ Len(queue') = Len(queue) + 1 =>
               ~Coalesces(kind, same) /\ ~Replaces(kind) /\ queue' = Append(queue, kind)
         /\ \A s \in 1..Len(queue) :
               \/ queue'[s] = queue[s]
               \/ queue[s] = "heartbeat" /\ s > ackd
<1>1. queue \in Seq(Kinds) /\ Len(queue) \in Nat
  BY DEF Inv, TypeOK
<1>2. CASE Coalesces(kind, same)
  BY <1>1, <1>2 DEF Queued
<1>3. CASE ~Coalesces(kind, same) /\ Replaces(kind)
  <2> DEFINE place == Min(UnackedOf("heartbeat"))
  <2>1. UnackedOf("heartbeat") \in SUBSET Nat /\ UnackedOf("heartbeat") # {}
    BY <1>3 DEF UnackedOf, Unacked, Replaces
  <2>2. place \in UnackedOf("heartbeat")
    BY <2>1, MinIsLeast
  <2>3. queue' = [queue EXCEPT ![place] = kind]
    BY <1>3 DEF Queued
  <2> HIDE DEF place
  <2>4. place \in 1..Len(queue) /\ place > ackd /\ queue[place] = "heartbeat"
    BY <2>2 DEF UnackedOf, Unacked
  <2>5. queue' \in Seq(Kinds) /\ Len(queue') = Len(queue)
    BY <1>1, <2>3, <2>4, ExceptSeq
  <2>6. \A s \in 1..Len(queue) : s # place => queue'[s] = queue[s]
    BY <1>1, <2>3
  <2> QED BY <1>1, <2>4, <2>5, <2>6
<1>4. CASE ~Coalesces(kind, same) /\ ~Replaces(kind)
  <2>1. queue' = Append(queue, kind)
    BY <1>4 DEF Queued
  <2>2. queue' \in Seq(Kinds) /\ Len(queue') = Len(queue) + 1
    BY <1>1, <2>1
  <2>3. \A s \in 1..Len(queue) : queue'[s] = queue[s]
    BY <1>1, <2>1
  <2> QED BY <1>1, <1>4, <2>1, <2>2, <2>3
<1> QED BY <1>2, <1>3, <1>4

-----------------------------------------------------------------------------
(* Types.                                                                    *)

(* The acknowledgment a page leads to. *)
LEMMA CursorType ==
  ASSUME TypeOK, PageTrue, phase = "import"
  PROVE  /\ Cursor \in Nat /\ AckCursor \in Nat /\ AckCursor <= Cursor
         /\ \A n \in 0..Len(page.items) :
               Accepted(n) \in SUBSET Nat /\ Rejected(n) \in SUBSET Nat
<1>1. page \in [from : Nat \ {0}, items : Seq(Kinds), epoch : Nat]
  BY DEF TypeOK
<1> DEFINE from == page.from
           size == Len(page.items)
<1>2. from \in Nat \ {0} /\ size \in Nat
  BY <1>1
<1>3. Cursor = from - 1 + size
  BY DEF Cursor
<1>4. \A n \in 0..size : \A i \in Reports(n) : SequenceOf(i) \in Nat
  BY <1>2 DEF Reports, SequenceOf
<1>5. \A n \in 0..size : Accepted(n) \in SUBSET Nat /\ Rejected(n) \in SUBSET Nat
  BY <1>4 DEF Accepted, Rejected
<1>6. CASE Barred
  <2> DEFINE first == Min(Reports(size))
  <2>1. Reports(size) \in SUBSET Nat /\ Reports(size) # {} /\ Reports(size) \subseteq 1..size
    <3>1. Reports(size) # {}
      BY <1>6 DEF Barred
    <3>2. Reports(size) \subseteq 1..size
      BY DEF Reports
    <3> QED BY <1>2, <3>1, <3>2
  <2>2. first \in 1..size
    BY <2>1, MinIsLeast
  <2>3. AckCursor = SequenceOf(first) - 1
    BY <1>6 DEF AckCursor
  <2> HIDE DEF first
  <2>4. AckCursor = from + first - 1 - 1
    BY <1>2, <2>2, <2>3 DEF SequenceOf
  <2> HIDE DEF from, size
  <2>5. AckCursor \in Nat /\ AckCursor <= Cursor /\ Cursor \in Nat
    BY <1>2, <1>3, <2>2, <2>4
  <2> QED BY <1>5, <2>5 DEF size
<1>7. CASE ~Barred
  <2> HIDE DEF from
  <2>1. AckCursor = Cursor
    BY <1>7 DEF AckCursor
  <2> QED BY <1>2, <1>3, <1>5, <2>1
<1> QED BY <1>6, <1>7

(* The tail of a page and the end of a sync keep the types of what they set. *)
LEMMA EndPageType ==
  ASSUME RelayConstants, TypeOK, NEW mark \in [epoch : Nat, through : Nat], EndPage(mark)
  PROVE  /\ known' \in Nat /\ cap' \in {"unasked", "yes", "no"}
         /\ rowEpoch' \in Nat
         /\ ask' \in Asks
         /\ page' \in [from : Nat \ {0}, items : Seq(Kinds), epoch : Nat]
         /\ sync' \in [epoch : Nat, supported : BOOLEAN, capEpoch : Nat]
         /\ phase' \in {"idle", "begin"} /\ pagesLeft' \in 0..MaxPages
         /\ checkpoint' \in [epoch : Nat, through : Nat]
<1>1. pagesLeft \in 0..MaxPages /\ MaxPages \in Nat /\ cap \in {"unasked", "yes", "no"}
      /\ page.epoch \in Nat
  BY DEF TypeOK, RelayConstants
<1>2. NoAsk \in Asks
      /\ NoSync \in [epoch : Nat, supported : BOOLEAN, capEpoch : Nat]
      /\ NoCheckpoint \in [epoch : Nat, through : Nat]
  BY DEF NoAsk, Asks, NoSync, NoCheckpoint
<1>3. NoPage \in [from : Nat \ {0}, items : Seq(Kinds), epoch : Nat]
  BY DEF NoPage
<1>4. known' \in Nat /\ cap' \in {"unasked", "yes", "no"} /\ rowEpoch' \in Nat
  BY <1>1 DEF EndPage
<1>5. ask' = NoAsk /\ page' = NoPage /\ sync' = NoSync
  BY DEF EndPage
<1>6. phase' \in {"idle", "begin"} /\ pagesLeft' \in 0..MaxPages
  BY <1>1 DEF EndPage, EndSync
<1>7. checkpoint' \in [epoch : Nat, through : Nat]
  BY <1>2 DEF EndPage, EndSync
<1> QED BY <1>2, <1>3, <1>4, <1>5, <1>6, <1>7

LEMMA AbandonType ==
  ASSUME RelayConstants, TypeOK, AbandonSync
  PROVE  /\ known' \in Nat /\ cap' \in {"unasked", "yes", "no"}
         /\ ask' \in Asks
         /\ page' \in [from : Nat \ {0}, items : Seq(Kinds), epoch : Nat]
         /\ sync' \in [epoch : Nat, supported : BOOLEAN, capEpoch : Nat]
         /\ phase' = "idle" /\ pagesLeft' \in 0..MaxPages
         /\ checkpoint' \in [epoch : Nat, through : Nat]
<1>2. NoAsk \in Asks
      /\ NoSync \in [epoch : Nat, supported : BOOLEAN, capEpoch : Nat]
      /\ NoCheckpoint \in [epoch : Nat, through : Nat]
  BY DEF NoAsk, Asks, NoSync, NoCheckpoint
<1>3. NoPage \in [from : Nat \ {0}, items : Seq(Kinds), epoch : Nat]
  BY DEF NoPage
<1>4. ask' = NoAsk /\ page' = NoPage /\ sync' = NoSync /\ UNCHANGED <<known, cap>>
      /\ phase' = "idle" /\ pagesLeft' = 0
      /\ (checkpoint' = checkpoint \/ checkpoint' = NoCheckpoint)
  BY DEF AbandonSync, EndSync
<1>5. 0 \in 0..MaxPages
  BY DEF RelayConstants
<1> QED BY <1>2, <1>3, <1>4, <1>5 DEF TypeOK

(* What TypeOK says of the variables each group of actions leaves alone. *)
ServerTypes ==
  /\ protocol \in Protocols
  /\ queue \in Seq(Kinds) /\ Len(queue) <= MaxItems
  /\ ackd \in 0..Len(queue)
  /\ attachment \in Live \cup Outcomes \cup {"stopped"}
  /\ receipts \subseteq [ask : Asks, done : BOOLEAN]

ProcessTypes == epoch \in 1..MaxEpoch /\ capable \in BOOLEAN

HomeTypes ==
  /\ inbox \in Seq(Kinds) /\ Len(inbox) <= Len(queue)
  /\ refused \subseteq 1..Len(inbox)
  /\ ackedHome \in 0..Len(inbox)
  /\ rowEpoch \in Nat
  /\ worker \in Live \cup Outcomes \cup {"stopped", "abandoned"}
  /\ task \in {"still", "moved", "back"}

SyncTypes ==
  /\ phase \in {"idle", "begin", "pull", "import", "ack", "acked"}
  /\ pagesLeft \in 0..MaxPages
  /\ sync \in [epoch : Nat, supported : BOOLEAN, capEpoch : Nat]
  /\ page \in [from : Nat \ {0}, items : Seq(Kinds), epoch : Nat]
  /\ ask \in Asks

CacheTypes ==
  /\ known \in Nat /\ cap \in {"unasked", "yes", "no"}
  /\ checkpoint \in [epoch : Nat, through : Nat]

StopTypes ==
  /\ stopCall \in {"none", "asked", "error", "stopped"} \cup Live \cup Outcomes
  /\ stop \in {"none", "sent", "closing"}
  /\ stops \in 0..MaxStops

RestTypes == late \subseteq Asks /\ faults \in 0..MaxFaults

LEMMA TypesAreNext ==
  TypeOK' <=> /\ ServerTypes' /\ ProcessTypes' /\ HomeTypes' /\ SyncTypes' /\ CacheTypes'
              /\ StopTypes' /\ RestTypes'
BY DEF TypeOK, ServerTypes, ProcessTypes, HomeTypes, SyncTypes, CacheTypes, StopTypes,
       RestTypes

LEMMA TypesKept ==
  ASSUME TypeOK
  PROVE  /\ UNCHANGED <<protocol, serverVars>> => ServerTypes'
         /\ UNCHANGED processVars => ProcessTypes'
         /\ UNCHANGED <<serverVars, homeVars>> => HomeTypes'
         /\ UNCHANGED syncVars => SyncTypes'
         /\ UNCHANGED cacheVars => CacheTypes'
         /\ UNCHANGED stopVars => StopTypes'
         /\ UNCHANGED <<late, faults>> => RestTypes'
<1> USE DEF TypeOK
<1>1. UNCHANGED <<protocol, serverVars>> => ServerTypes'
  BY DEF ServerTypes, serverVars
<1>2. UNCHANGED processVars => ProcessTypes'
  BY DEF ProcessTypes, processVars
<1>3. UNCHANGED <<serverVars, homeVars>> => HomeTypes'
  BY DEF HomeTypes, homeVars, serverVars
<1>4. UNCHANGED syncVars => SyncTypes'
  BY DEF SyncTypes, syncVars
<1>5. UNCHANGED cacheVars => CacheTypes'
  BY DEF CacheTypes, cacheVars
<1>6. UNCHANGED stopVars => StopTypes'
  BY DEF StopTypes, stopVars
<1>7. UNCHANGED <<late, faults>> => RestTypes'
  BY DEF RestTypes
<1> QED BY <1>1, <1>2, <1>3, <1>4, <1>5, <1>6, <1>7

(* Steps that change neither the server's database nor the home's import. *)
LEMMA QuietTypes ==
  ASSUME RelayConstants, Inv,
         Tick \/ ShowSyncs \/ BeginPage \/ LateAckVanishes \/ AckRefused
           \/ BeginStop \/ StopReturns \/ StopFails \/ Show \/ Abandon \/ MoveTask
           \/ CallFails \/ HomeRestarts \/ ServerRestarts
  PROVE  TypeOK'
<1> USE DEF OneMoreFault
<1>0. /\ TypeOK
      /\ MaxPages \in Nat /\ MaxEpoch \in Nat /\ MaxFaults \in Nat /\ MaxStops \in Nat
      /\ 0 \in 0..MaxPages /\ MaxPages \in 0..MaxPages
  BY DEF Inv, RelayConstants
<1>1. CASE Tick \/ ShowSyncs
  <2>1. SyncTypes'
    BY <1>0, <1>1 DEF Tick, ShowSyncs, SyncTypes, TypeOK
  <2> QED BY <1>0, <1>1, <2>1, TypesKept, TypesAreNext DEF Tick, ShowSyncs
<1>2. CASE BeginPage
  <2>1. known' \in Nat /\ cap' \in {"unasked", "yes", "no"} /\ checkpoint' = checkpoint
    BY <1>0, <1>2 DEF BeginPage, TypeOK
  <2>2. sync' \in [epoch : Nat, supported : BOOLEAN, capEpoch : Nat]
    BY <1>0, <1>2, <2>1 DEF BeginPage, TypeOK
  <2>3. SyncTypes' /\ CacheTypes'
    BY <1>0, <1>2, <2>1, <2>2 DEF BeginPage, SyncTypes, CacheTypes, TypeOK
  <2> QED BY <1>0, <1>2, <2>3, TypesKept, TypesAreNext DEF BeginPage
<1>3. CASE LateAckVanishes
  <2>1. RestTypes'
    BY <1>0, <1>3 DEF LateAckVanishes, RestTypes, TypeOK
  <2> QED BY <1>0, <1>3, <2>1, TypesKept, TypesAreNext DEF LateAckVanishes
<1>4. CASE AckRefused
  <2>1. SyncTypes' /\ CacheTypes'
    BY <1>0, <1>4, AbandonType DEF AckRefused, SyncTypes, CacheTypes
  <2> QED BY <1>0, <1>4, <2>1, TypesKept, TypesAreNext DEF AckRefused
<1>5. CASE BeginStop
  <2>1. HomeTypes' /\ StopTypes'
    BY <1>0, <1>5 DEF BeginStop, HomeTypes, StopTypes, TypeOK, Live, serverVars
  <2> QED BY <1>0, <1>5, <2>1, TypesKept, TypesAreNext DEF BeginStop
<1>6. CASE StopReturns
  <2>1. HomeTypes' /\ StopTypes'
    BY <1>0, <1>6 DEF StopReturns, StopVerdict, HomeTypes, StopTypes, TypeOK, Live, serverVars
  <2> QED BY <1>0, <1>6, <2>1, TypesKept, TypesAreNext DEF StopReturns
<1>7. CASE StopFails
  <2>1. HomeTypes'
    <3>1. worker' \in {worker, "stop_unknown"}
          /\ inbox' = inbox /\ refused' = refused /\ ackedHome' = ackedHome
          /\ rowEpoch' = rowEpoch /\ task' = task
      BY <1>7 DEF StopFails
    <3>2. queue' = queue
      BY <1>7 DEF StopFails, serverVars
    <3>3. worker' \in Live \cup Outcomes \cup {"stopped", "abandoned"}
      BY <1>0, <3>1 DEF TypeOK, Live
    <3> QED BY <1>0, <3>1, <3>2, <3>3 DEF HomeTypes, TypeOK
  <2>2. StopTypes' /\ RestTypes'
    <3>1. faults' = faults \/ (faults < MaxFaults /\ faults' = faults + 1)
      BY <1>7 DEF StopFails
    <3>2. /\ stop' \in {stop, "sent", "none"} /\ stopCall' = "none"
          /\ stops' = stops /\ late' = late
      BY <1>7 DEF StopFails
    <3>3. /\ stop \in {"none", "sent", "closing"} /\ stops \in 0..MaxStops
          /\ late \subseteq Asks /\ faults \in 0..MaxFaults
      BY <1>0 DEF TypeOK
    <3>4. faults' \in 0..MaxFaults
      BY <1>0, <3>1, <3>3
    <3> QED BY <3>2, <3>3, <3>4 DEF StopTypes, RestTypes
  <2> QED BY <1>0, <1>7, <2>1, <2>2, TypesKept, TypesAreNext DEF StopFails
<1>8. CASE Show
  <2>1. HomeTypes'
    BY <1>0, <1>8 DEF Show, HomeTypes, TypeOK, serverVars
  <2> QED BY <1>0, <1>8, <2>1, TypesKept, TypesAreNext DEF Show
<1>9. CASE Abandon
  <2>1. HomeTypes'
    BY <1>0, <1>9 DEF Abandon, HomeTypes, TypeOK, serverVars
  <2> QED BY <1>0, <1>9, <2>1, TypesKept, TypesAreNext DEF Abandon
<1>10. CASE MoveTask
  <2>1. HomeTypes'
    BY <1>0, <1>10 DEF MoveTask, HomeTypes, TypeOK, serverVars
  <2> QED BY <1>0, <1>10, <2>1, TypesKept, TypesAreNext DEF MoveTask
<1>11. CASE CallFails
  <2>1. SyncTypes' /\ CacheTypes'
    BY <1>0, <1>11, AbandonType DEF CallFails, SyncTypes, CacheTypes
  <2>2. RestTypes'
    BY <1>0, <1>11 DEF CallFails, RestTypes, TypeOK
  <2> QED BY <1>0, <1>11, <2>1, <2>2, TypesKept, TypesAreNext DEF CallFails
<1>12. CASE HomeRestarts
  <2>1. /\ SyncTypes' /\ CacheTypes' /\ StopTypes' /\ RestTypes'
    BY <1>0, <1>12 DEF HomeRestarts, HomeProcessDies, SyncTypes, CacheTypes, StopTypes,
       RestTypes, TypeOK, NoSync, NoPage, NoAsk, NoCheckpoint, Asks
  <2>2. UNCHANGED homeVars
    BY <1>12 DEF HomeRestarts, HomeProcessDies, homeVars
  <2> QED BY <1>0, <1>12, <2>1, <2>2, TypesKept, TypesAreNext
       DEF HomeRestarts, HomeProcessDies
<1>13. CASE ServerRestarts
  <2>1. ProcessTypes'
    <3>1. epoch' = epoch + 1 /\ epoch < MaxEpoch /\ epoch \in 1..MaxEpoch
      BY <1>0, <1>13 DEF ServerRestarts, ServerProcessDies, TypeOK
    <3>2. capable' \in BOOLEAN
      BY <1>13 DEF ServerRestarts, ServerProcessDies
    <3> QED BY <1>0, <3>1, <3>2 DEF ProcessTypes
  <2>2. StopTypes' /\ RestTypes'
    BY <1>0, <1>13 DEF ServerRestarts, ServerProcessDies, StopTypes, RestTypes, TypeOK
  <2> QED BY <1>0, <1>13, <2>1, <2>2, TypesKept, TypesAreNext DEF ServerRestarts
<1> QED BY <1>1, <1>2, <1>3, <1>4, <1>5, <1>6, <1>7, <1>8, <1>9, <1>10, <1>11, <1>12, <1>13

(* Steps of the worker's server's database. *)
LEMMA ServerStepTypes ==
  ASSUME RelayConstants, Inv,
         \/ \E kind \in Kinds, same \in BOOLEAN : Enqueue(kind, same)
         \/ EnqueueSetupStatus \/ StopArrives \/ TerminalClosed
         \/ AckArrives \/ LateAckArrives \/ ServerDiesAcknowledging
  PROVE  TypeOK'
<1> USE DEF OneMoreFault
<1>0. /\ TypeOK /\ MaxPages \in Nat /\ MaxEpoch \in Nat /\ MaxFaults \in Nat
  BY DEF Inv, RelayConstants
<1>1. ASSUME NEW kind \in Kinds, NEW same \in BOOLEAN, Enqueue(kind, same)
      PROVE  TypeOK'
  <2>1. /\ queue' \in Seq(Kinds) /\ Len(queue') \in {Len(queue), Len(queue) + 1}
        /\ Len(queue') = Len(queue) + 1 => ~Coalesces(kind, same) /\ ~Replaces(kind)
    BY <1>1, QueueStep DEF Enqueue
  <2>2. Len(queue') <= MaxItems /\ ackd \in 0..Len(queue') /\ Len(inbox) <= Len(queue')
    <3>1. Len(queue') = Len(queue) + 1 => Len(queue) < MaxItems
      BY <1>1, <2>1 DEF Enqueue
    <3>2. /\ Len(queue) \in Nat /\ MaxItems \in Nat /\ Len(inbox) \in Nat /\ ackd \in Nat
          /\ ackd <= Len(queue) /\ Len(inbox) <= Len(queue) /\ Len(queue) <= MaxItems
      BY <1>0 DEF RelayConstants, TypeOK
    <3> QED BY <2>1, <3>1, <3>2
  <2>3. attachment' \in Live \cup Outcomes \cup {"stopped"}
    BY <1>0, <1>1 DEF Enqueue, SettlesTo, TypeOK
  <2>4. ServerTypes'
    BY <1>0, <1>1, <2>1, <2>2, <2>3 DEF Enqueue, ServerTypes, TypeOK
  <2>5. HomeTypes'
    BY <1>0, <1>1, <2>2 DEF Enqueue, HomeTypes, TypeOK, homeVars
  <2> QED BY <1>0, <1>1, <2>4, <2>5, TypesKept, TypesAreNext DEF Enqueue
<1>2. CASE EnqueueSetupStatus
  <2>1. queue' = Append(queue, "status") /\ "status" \in Kinds /\ Len(queue) < MaxItems
    BY <1>2 DEF EnqueueSetupStatus, Kinds
  <2>2. /\ queue' \in Seq(Kinds) /\ Len(queue') = Len(queue) + 1
    BY <1>0, <2>1 DEF TypeOK
  <2>3. Len(queue') <= MaxItems /\ ackd \in 0..Len(queue') /\ Len(inbox) <= Len(queue')
    <3>1. /\ Len(queue) \in Nat /\ MaxItems \in Nat /\ Len(inbox) \in Nat /\ ackd \in Nat
          /\ ackd <= Len(queue) /\ Len(inbox) <= Len(queue)
      BY <1>0 DEF RelayConstants, TypeOK
    <3> QED BY <2>1, <2>2, <3>1
  <2>4. ServerTypes'
    BY <1>0, <1>2, <2>2, <2>3 DEF EnqueueSetupStatus, ServerTypes, TypeOK
  <2>5. HomeTypes'
    BY <1>0, <1>2, <2>3 DEF EnqueueSetupStatus, HomeTypes, TypeOK, homeVars
  <2> QED BY <1>0, <1>2, <2>4, <2>5, TypesKept, TypesAreNext DEF EnqueueSetupStatus
<1>3. CASE StopArrives
  <2>1. /\ attachment' \in Live \cup Outcomes \cup {"stopped"}
        /\ stop' \in {"none", "closing"} /\ stops' = stops
    BY <1>0, <1>3 DEF StopArrives, TypeOK, Live
  <2>2. stopCall' \in {"none", "asked", "error", "stopped"} \cup Live \cup Outcomes
    BY <1>0, <1>3 DEF StopArrives, Answer, TypeOK
  <2>3. ServerTypes' /\ StopTypes'
    BY <1>0, <1>3, <2>1, <2>2 DEF StopArrives, ServerTypes, StopTypes, TypeOK
  <2>4. HomeTypes'
    BY <1>0, <1>3 DEF StopArrives, HomeTypes, TypeOK, homeVars
  <2> QED BY <1>0, <1>3, <2>3, <2>4, TypesKept, TypesAreNext DEF StopArrives
<1>4. CASE TerminalClosed
  <2>1. /\ attachment' \in Live \cup Outcomes \cup {"stopped"}
        /\ stop' = "none" /\ stops' = stops
    BY <1>0, <1>4 DEF TerminalClosed, TypeOK, Live
  <2>2. stopCall' \in {"none", "asked", "error", "stopped"} \cup Live \cup Outcomes
    BY <1>0, <1>4, <2>1 DEF TerminalClosed, Answer, TypeOK
  <2>3. ServerTypes' /\ StopTypes'
    BY <1>0, <1>4, <2>1, <2>2 DEF TerminalClosed, ServerTypes, StopTypes, TypeOK
  <2>4. HomeTypes'
    BY <1>0, <1>4 DEF TerminalClosed, HomeTypes, TypeOK, homeVars
  <2> QED BY <1>0, <1>4, <2>3, <2>4, TypesKept, TypesAreNext DEF TerminalClosed
<1>5. ASSUME NEW a \in Asks, AskTrue(a), Acknowledgeable(a) /\ Acknowledge(a)
      PROVE  /\ ackd' \in 0..Len(queue)
             /\ attachment' \in Live \cup Outcomes \cup {"stopped"}
  BY <1>0, <1>5, AcknowledgeMoves DEF TypeOK
<1>6. ASSUME NEW a \in Asks, AskTrue(a), Executes(a), UNCHANGED <<protocol, queue>>
      PROVE  ServerTypes'
  <2>1. /\ ackd' \in 0..Len(queue)
        /\ attachment' \in Live \cup Outcomes \cup {"stopped"}
    BY <1>0, <1>5, <1>6 DEF Executes, TypeOK
  <2>2. receipts' \subseteq [ask : Asks, done : BOOLEAN]
    <3>1. [ask |-> a, done |-> TRUE] \in [ask : Asks, done : BOOLEAN]
      OBVIOUS
    <3>2. receipts' \subseteq receipts \cup {[ask |-> a, done |-> TRUE]}
      BY <1>6 DEF Executes
    <3> QED BY <1>0, <3>1, <3>2 DEF TypeOK
  <2> QED BY <1>0, <1>6, <2>1, <2>2 DEF ServerTypes, TypeOK
<1>7. CASE AckArrives
  <2>1. ask \in Asks /\ AskTrue(ask) /\ Executes(ask) /\ UNCHANGED <<protocol, queue>>
    BY <1>0, <1>7 DEF AckArrives, Inv, AsksTrue, TypeOK
  <2>2. SyncTypes'
    BY <1>0, <1>7 DEF AckArrives, SyncTypes, TypeOK
  <2>3. HomeTypes'
    BY <1>0, <1>7 DEF AckArrives, HomeTypes, TypeOK, homeVars
  <2> QED BY <1>0, <1>6, <1>7, <2>1, <2>2, <2>3, TypesKept, TypesAreNext DEF AckArrives
<1>8. CASE LateAckArrives
  <2>1. PICK a \in late : Executes(a) /\ late' = late \ {a} /\ UNCHANGED <<protocol, queue>>
    BY <1>8 DEF LateAckArrives
  <2>2. a \in Asks /\ AskTrue(a) /\ RestTypes'
    BY <1>0, <1>8, <2>1 DEF LateAckArrives, Inv, AsksTrue, TypeOK, RestTypes
  <2>3. HomeTypes'
    BY <1>0, <1>8 DEF LateAckArrives, HomeTypes, TypeOK, homeVars
  <2>4. ServerTypes'
    BY <1>6, <2>1, <2>2
  <2> QED BY <1>0, <1>8, <2>2, <2>3, <2>4, TypesKept, TypesAreNext DEF LateAckArrives
<1>9. CASE ServerDiesAcknowledging
  <2>1. ask \in Asks /\ AskTrue(ask)
    BY <1>0, <1>9 DEF ServerDiesAcknowledging, Inv, AsksTrue, TypeOK
  <2>2. /\ ackd' \in 0..Len(queue)
        /\ attachment' \in Live \cup Outcomes \cup {"stopped"}
    BY <1>0, <1>5, <1>9, <2>1 DEF ServerDiesAcknowledging, TypeOK
  <2>3. receipts' \subseteq [ask : Asks, done : BOOLEAN]
    <3>1. [ask |-> ask, done |-> FALSE] \in [ask : Asks, done : BOOLEAN]
      BY <2>1
    <3>2. receipts' = receipts \cup {[ask |-> ask, done |-> FALSE]}
      BY <1>9 DEF ServerDiesAcknowledging
    <3> QED BY <1>0, <3>1, <3>2 DEF TypeOK
  <2>4. ServerTypes'
    BY <1>0, <1>9, <2>2, <2>3 DEF ServerDiesAcknowledging, ServerTypes, TypeOK
  <2>5. HomeTypes'
    BY <1>0, <1>9 DEF ServerDiesAcknowledging, HomeTypes, TypeOK, homeVars
  <2>6. SyncTypes' /\ CacheTypes'
    BY <1>0, <1>9, AbandonType DEF ServerDiesAcknowledging, SyncTypes, CacheTypes
  <2>7. ProcessTypes'
    <3>1. epoch' = epoch + 1 /\ epoch < MaxEpoch /\ epoch \in 1..MaxEpoch
      BY <1>0, <1>9 DEF ServerDiesAcknowledging, ServerProcessDies, TypeOK
    <3>2. capable' \in BOOLEAN
      BY <1>9 DEF ServerDiesAcknowledging, ServerProcessDies
    <3> QED BY <1>0, <3>1, <3>2 DEF ProcessTypes
  <2>8. StopTypes' /\ RestTypes'
    BY <1>0, <1>9 DEF ServerDiesAcknowledging, ServerProcessDies, StopTypes, RestTypes, TypeOK
  <2> QED BY <2>4, <2>5, <2>6, <2>7, <2>8, TypesAreNext
<1> QED BY <1>1, <1>2, <1>3, <1>4, <1>7, <1>8, <1>9

(* What an import leaves of the types, whatever ends it. *)
LEMMA ImportTypes ==
  ASSUME RelayConstants, Inv, phase = "import", NEW n \in 0..Importable, Import(n),
         UNCHANGED <<protocol, serverVars, ackedHome, task>>, rowEpoch' \in Nat
  PROVE  ServerTypes' /\ HomeTypes'
<1>1. TypeOK /\ PageTrue /\ InboxTrue
  BY DEF Inv
<1>2. UNCHANGED <<queue, task>>
  BY DEF serverVars
<1>3. /\ inbox' \in Seq(Kinds) /\ Len(inbox') <= Len(queue)
      /\ Len(inbox') = Bigger(Len(inbox), page.from - 1 + n)
  BY <1>1, ImportExtends
<1>4. /\ refused' \subseteq 1..Len(inbox')
      /\ worker' \in Live \cup Outcomes \cup {"stopped", "abandoned"}
  BY <1>1, <1>2, ImportJudges
<1>5. ackedHome' \in 0..Len(inbox')
  <2>1. ackedHome' = ackedHome /\ ackedHome \in 0..Len(inbox) /\ Len(inbox) \in Nat
        /\ Len(inbox') \in Nat
    BY <1>1, <1>3 DEF TypeOK
  <2>2. Len(inbox) <= Len(inbox')
    <3>1. page.from \in Nat /\ n \in Int
      BY <1>1, ImportableBounds DEF TypeOK
    <3> QED BY <1>3, <2>1, <3>1 DEF Bigger
  <2> QED BY <2>1, <2>2
<1>6. HomeTypes'
  BY <1>1, <1>2, <1>3, <1>4, <1>5 DEF HomeTypes, TypeOK
<1> QED BY <1>1, <1>6, TypesKept

(* Steps of the home's sync. *)
LEMMA SyncStepTypes ==
  ASSUME RelayConstants, Inv,
         PullArrives \/ ImportPage \/ ImportThrows \/ HomeDiesImporting \/ AckReturns
  PROVE  TypeOK'
<1> USE DEF OneMoreFault
<1>0. /\ TypeOK /\ PageTrue /\ MaxPages \in Nat /\ MaxFaults \in Nat /\ PageSize \in Nat
      /\ 0 \in 0..MaxPages
  BY DEF Inv, RelayConstants
<1>1. CASE PullArrives
  <2> DEFINE from == IF Replay THEN ackd + 1 ELSE Len(inbox) + 1
             upto == Smaller(from + PageSize - 1, Len(queue))
  <2>1. from \in Nat \ {0} /\ upto \in Int /\ upto <= Len(queue) /\ Len(inbox) \in Nat
    <3>1. Len(inbox) \in Nat /\ Len(queue) \in Nat /\ ackd \in Nat
      BY <1>0 DEF TypeOK
    <3> QED BY <1>0, <3>1 DEF Smaller
  <2>2. SubSeq(queue, from, upto) \in Seq(Kinds)
    <3>1. \A i \in from..upto : queue[i] \in Kinds
      <4>1. queue \in Seq(Kinds)
        BY <1>0 DEF TypeOK
      <4> HIDE DEF from, upto
      <4> QED BY <2>1, <4>1
    <3> HIDE DEF from, upto
    <3> QED BY <2>1, <3>1, SubSeqProperties
  <2>3. page' \in [from : Nat \ {0}, items : Seq(Kinds), epoch : Nat]
    <3>1. page' = [from |-> IF SubSeq(queue, from, upto) = <<>> THEN Len(inbox) + 1 ELSE from,
                   items |-> SubSeq(queue, from, upto), epoch |-> epoch]
      BY <1>1 DEF PullArrives, Pulled
    <3>2. epoch \in Nat
      BY <1>0 DEF TypeOK
    <3> HIDE DEF from, upto
    <3> QED BY <1>0, <2>1, <2>2, <3>1, <3>2
  <2>4. SyncTypes'
    BY <1>0, <1>1, <2>3 DEF PullArrives, SyncTypes, TypeOK
  <2> QED BY <1>0, <1>1, <2>4, TypesKept, TypesAreNext DEF PullArrives
<1>2. CASE ImportPage
  <2> DEFINE size == Len(page.items)
  <2>1. phase = "import" /\ Import(size) /\ size \in 0..Importable /\ size \in 0..size
    <3>1. size \in Nat
      BY <1>0 DEF TypeOK
    <3> QED BY <1>2, <3>1 DEF ImportPage
  <2>2. UNCHANGED <<protocol, serverVars, ackedHome, task>>
    BY <1>2 DEF ImportPage
  <2>3. CASE AckCursor > AlreadyAcked
    <3>1. /\ phase' = "ack" /\ UNCHANGED <<rowEpoch, pagesLeft, sync, page, cacheVars>>
          /\ ask' = [id |-> Cursor, through |-> AckCursor,
                     accepted |-> IF CanSettle THEN Accepted(size) ELSE {},
                     rejected |-> IF CanSettle THEN Rejected(size) ELSE {}]
      BY <1>2, <2>3 DEF ImportPage
    <3>2. ask' \in Asks
      <4>1. /\ Cursor \in Nat /\ AckCursor \in Nat
            /\ Accepted(size) \in SUBSET Nat /\ Rejected(size) \in SUBSET Nat
        BY <1>0, <2>1, CursorType
      <4> HIDE DEF size
      <4> QED BY <3>1, <4>1 DEF Asks
    <3>3. SyncTypes' /\ rowEpoch' \in Nat
      BY <1>0, <3>1, <3>2 DEF SyncTypes, TypeOK
    <3>4. ServerTypes' /\ HomeTypes'
      BY <2>1, <2>2, <3>3, ImportTypes
    <3> QED BY <1>0, <1>2, <3>1, <3>3, <3>4, TypesKept, TypesAreNext DEF ImportPage
  <2>4. CASE ~(AckCursor > AlreadyAcked)
    <3>1. EndPage(checkpoint) /\ checkpoint \in [epoch : Nat, through : Nat]
      BY <1>0, <1>2, <2>4 DEF ImportPage, TypeOK
    <3>2. SyncTypes' /\ CacheTypes' /\ rowEpoch' \in Nat
      BY <1>0, <3>1, EndPageType DEF SyncTypes, CacheTypes
    <3>3. ServerTypes' /\ HomeTypes'
      BY <2>1, <2>2, <3>2, ImportTypes
    <3> QED BY <1>0, <1>2, <3>2, <3>3, TypesKept, TypesAreNext DEF ImportPage
  <2> QED BY <2>3, <2>4
<1>3. CASE ImportThrows
  <2>1. phase = "import" /\ Import(Importable) /\ Importable \in 0..Importable
    BY <1>0, <1>3, ImportableBounds DEF ImportThrows
  <2>2. UNCHANGED <<protocol, serverVars, ackedHome, task>> /\ rowEpoch' \in Nat
    BY <1>0, <1>3 DEF ImportThrows, TypeOK
  <2>3. ServerTypes' /\ HomeTypes'
    BY <2>1, <2>2, ImportTypes
  <2>4. SyncTypes' /\ CacheTypes'
    BY <1>0, <1>3, AbandonType DEF ImportThrows, SyncTypes, CacheTypes
  <2> QED BY <1>0, <1>3, <2>3, <2>4, TypesKept, TypesAreNext DEF ImportThrows
<1>4. CASE HomeDiesImporting
  <2>1. PICK n \in 1..Importable : phase = "import" /\ Import(n)
    BY <1>4 DEF HomeDiesImporting
  <2>2. UNCHANGED <<protocol, serverVars, ackedHome, task>> /\ rowEpoch' \in Nat
    BY <1>0, <1>4 DEF HomeDiesImporting, HomeProcessDies, TypeOK
  <2>3. ServerTypes' /\ HomeTypes'
    <3>1. n \in 0..Importable
      BY <1>0, <2>1, ImportableBounds
    <3> QED BY <2>1, <2>2, <3>1, ImportTypes
  <2>4. /\ late' \in {late, late \cup {ask}} /\ faults' = faults + 1 /\ faults < MaxFaults
        /\ phase' = "idle" /\ pagesLeft' = 0
        /\ sync' = NoSync /\ page' = NoPage /\ ask' = NoAsk
        /\ known' = 0 /\ cap' = "unasked" /\ checkpoint' = NoCheckpoint
        /\ stopCall' = "none" /\ stop' = stop /\ stops' = stops
    BY <1>4 DEF HomeDiesImporting, HomeProcessDies
  <2>5. SyncTypes'
    BY <1>0, <2>4 DEF SyncTypes, NoSync, NoPage, NoAsk, Asks
  <2>6. CacheTypes' /\ StopTypes' /\ RestTypes'
    BY <1>0, <2>4 DEF CacheTypes, StopTypes, RestTypes, TypeOK, NoCheckpoint
  <2> QED BY <1>0, <1>4, <2>3, <2>5, <2>6, TypesKept, TypesAreNext
       DEF HomeDiesImporting, HomeProcessDies
<1>5. CASE AckReturns
  <2>1. Recorded \in Nat /\ Recorded <= ask.through
    <3>1. ask.through \in Nat
      BY <1>0 DEF TypeOK, Asks
    <3> QED BY <3>1 DEF Recorded, Bigger
  <2>2. Checkpointed \in [epoch : Nat, through : Nat]
    BY <1>0, <2>1 DEF Checkpointed, TypeOK
  <2> DEFINE mark == Checkpointed
  <2>3. EndPage(mark)
    BY <1>5 DEF AckReturns
  <2>4. SyncTypes' /\ CacheTypes' /\ rowEpoch' \in Nat
    <3> HIDE DEF mark
    <3>1. mark \in [epoch : Nat, through : Nat]
      BY <2>2 DEF mark
    <3> QED BY <1>0, <2>3, <3>1, EndPageType DEF SyncTypes, CacheTypes
  <2>5. ackedHome' \in 0..Len(inbox)
    <3>1. ask.through <= Len(inbox)
      BY <1>5 DEF AckReturns, Inv, AsksTrue, AskTrue
    <3>2. ackedHome \in 0..Len(inbox) /\ Len(inbox) \in Nat /\ ask.through \in Nat
      BY <1>0 DEF TypeOK, Asks
    <3> QED BY <1>5, <2>1, <3>1, <3>2 DEF AckReturns, Bigger
  <2>6. HomeTypes'
    BY <1>0, <1>5, <2>4, <2>5 DEF AckReturns, HomeTypes, TypeOK, serverVars
  <2> QED BY <1>0, <1>5, <2>4, <2>6, TypesKept, TypesAreNext DEF AckReturns
<1> QED BY <1>1, <1>2, <1>3, <1>4, <1>5

-----------------------------------------------------------------------------
(* Everything but the types.                                                 *)

Beliefs ==
  NothingAckedUnseen /\ PageTrue /\ InboxTrue /\ AsksTrue /\ ServersAgree
    /\ ReportsGetVerdicts

(* A queueing step: what is acknowledged, imported or asked about stays queued. *)
LEMMA QueueKeeps ==
  ASSUME Inv, Len(queue') \in Nat, Len(queue') >= Len(queue),
         \A s \in 1..Len(queue) :
            queue'[s] = queue[s] \/ (queue[s] = "heartbeat" /\ s > ackd),
         protocol = "settling" => attachment' = attachment,
         UNCHANGED <<protocol, ackd, receipts, inbox, refused, ackedHome, worker, task,
                     late, phase, page, ask>>
  PROVE  Beliefs'
<1>1. /\ Len(queue) \in Nat /\ Len(inbox) \in Nat /\ ackd \in Nat
      /\ Len(inbox) <= Len(queue) /\ ackd <= Len(queue)
      /\ page.from \in Nat \ {0} /\ Len(page.items) \in Nat
  <2>1. page \in [from : Nat \ {0}, items : Seq(Kinds), epoch : Nat]
    BY DEF Inv, TypeOK
  <2> QED BY <2>1 DEF Inv, TypeOK
<1>2. PageTrue'
  <2>1. SUFFICES ASSUME phase = "import"
                 PROVE  /\ page.from <= Len(inbox) + 1
                        /\ Cursor <= Len(queue')
                        /\ \A i \in 1..Len(page.items) :
                             page.items[i] = queue'[SequenceOf(i)]
                               \/ page.items[i] = "heartbeat"
    BY DEF PageTrue, Cursor, SequenceOf
  <2>2. /\ page.from <= Len(inbox) + 1 /\ Cursor <= Len(queue)
        /\ \A i \in 1..Len(page.items) :
             page.items[i] = queue[SequenceOf(i)] \/ page.items[i] = "heartbeat"
    BY <2>1 DEF Inv, PageTrue
  <2>3. Cursor \in Int /\ Cursor = page.from - 1 + Len(page.items)
    BY <1>1 DEF Cursor
  <2>4. \A i \in 1..Len(page.items) : SequenceOf(i) \in 1..Len(queue)
    <3>1. \A i \in 1..Len(page.items) : page.from - 1 + i \in 1..Len(queue)
      BY <1>1, <2>2, <2>3, SMTT(60)
    <3>2. \A i \in 1..Len(page.items) : SequenceOf(i) = page.from - 1 + i
      BY <1>1 DEF SequenceOf
    <3> QED BY <3>1, <3>2
  <2>5. Cursor <= Len(queue')
    BY <1>1, <2>2, <2>3
  <2> QED BY <2>2, <2>4, <2>5
<1>3. InboxTrue'
  <2>1. \A s \in 1..Len(inbox) : s \in 1..Len(queue)
    BY <1>1
  <2> QED BY <2>1 DEF Inv, InboxTrue
<1>4. ASSUME NEW a, AskTrue(a) PROVE AskTrue(a)'
  <2>1. \A s \in a.accepted : s \in 1..Len(queue) /\ queue[s] # "heartbeat"
    BY <1>1, <1>4 DEF AskTrue, Outcomes
  <2> QED BY <1>4, <2>1 DEF AskTrue
<1>5. AsksTrue'
  BY <1>4 DEF Inv, AsksTrue
<1>6. NothingAckedUnseen' /\ ServersAgree'
  BY DEF Inv, NothingAckedUnseen, ServersAgree
<1>7. ReportsGetVerdicts'
  <2>1. \A s \in 1..ackd : s \in 1..Len(queue) /\ ~(s > ackd)
    BY <1>1
  <2> QED BY <2>1 DEF Inv, ReportsGetVerdicts
<1> QED BY <1>2, <1>3, <1>5, <1>6, <1>7 DEF Beliefs

(* An import: every acknowledgment that exists stays as true as it was. *)
LEMMA ImportKeeps ==
  ASSUME Inv, phase = "import", NEW n \in 0..Importable, Import(n),
         UNCHANGED <<protocol, queue, ackd, attachment, receipts, ackedHome, task, late>>,
         phase' \notin {"import", "acked"},
         phase' = "ack" => AskTrue(ask)'
  PROVE  Beliefs'
<1>1. TypeOK /\ PageTrue /\ InboxTrue
  BY DEF Inv
<1>2. /\ refused \subseteq refused' /\ InboxTrue'
      /\ worker \in Outcomes => worker' = worker
  BY <1>1, ImportJudges
<1>3. Len(inbox) <= Len(inbox') /\ Len(inbox) \in Nat /\ Len(inbox') \in Nat
  <2>1. Len(inbox') = Bigger(Len(inbox), page.from - 1 + n) /\ inbox' \in Seq(Kinds)
    BY <1>1, ImportExtends
  <2>2. Len(inbox) \in Nat /\ page.from \in Nat /\ n \in Int /\ Len(inbox') \in Nat
    BY <1>1, <2>1, ImportableBounds DEF TypeOK
  <2> QED BY <2>1, <2>2 DEF Bigger
<1>4. ackd \in Nat /\ ackedHome \in Nat /\ ackd <= Len(inbox) /\ ackedHome <= ackd
  BY <1>1 DEF Inv, TypeOK, NothingAckedUnseen
<1>5. ASSUME NEW a \in Asks, AskTrue(a) PROVE AskTrue(a)'
  <2>1. a.through \in Nat /\ a.through <= Len(inbox) /\ a.accepted \subseteq 1..Len(inbox)
    BY <1>5 DEF Asks, AskTrue
  <2>2. a.through <= Len(inbox') /\ a.accepted \subseteq 1..Len(inbox')
    BY <1>3, <2>1
  <2>3. /\ \A s \in a.accepted : queue[s] \in Outcomes /\ worker' = queue[s]
        /\ \A s \in a.rejected : s \in refused' \/ task # "still"
    BY <1>2, <1>5 DEF AskTrue
  <2> QED BY <2>2, <2>3 DEF AskTrue
<1>6. AsksTrue'
  <2>1. /\ \A a \in late : a \in Asks /\ AskTrue(a)
        /\ \A r \in receipts : r.ask \in Asks /\ AskTrue(r.ask)
                                 /\ (r.done => r.ask.through <= ackd)
    BY <1>1 DEF Inv, AsksTrue, TypeOK
  <2> QED BY <1>5, <2>1 DEF AsksTrue
<1>7. NothingAckedUnseen' /\ PageTrue'
  BY <1>3, <1>4 DEF NothingAckedUnseen, PageTrue
<1>8. ServersAgree'
  BY <1>2 DEF Inv, ServersAgree
<1>9. ReportsGetVerdicts'
  BY <1>2 DEF Inv, ReportsGetVerdicts
<1> QED BY <1>2, <1>6, <1>7, <1>8, <1>9 DEF Beliefs

(* The acknowledgment a page sends is true of what the page left behind. *)
LEMMA NewAskTrue ==
  ASSUME Inv, ImportPage, AckCursor > AlreadyAcked
  PROVE  AskTrue(ask)'
<1> DEFINE size == Len(page.items)
<1>1. TypeOK /\ PageTrue /\ InboxTrue
  BY DEF Inv
<1>2. /\ phase = "import" /\ size \in 0..Importable /\ size \in 0..size /\ Import(size)
      /\ UNCHANGED <<queue, task>>
  <2>1. size \in Nat
    BY <1>1 DEF TypeOK
  <2> QED BY <2>1 DEF ImportPage, serverVars
<1>3. /\ ask'.through = AckCursor
      /\ ask'.accepted = {} \/ ask'.accepted = Accepted(size)
      /\ ask'.rejected = {} \/ ask'.rejected = Rejected(size)
  BY DEF ImportPage
<1>4. /\ Accepted(size) \subseteq 1..Len(inbox')
      /\ \A s \in Accepted(size) : queue[s] \in Outcomes /\ worker' = queue[s]
      /\ \A s \in Rejected(size) : s \in refused' \/ task # "still"
  <2> HIDE DEF size
  <2> QED BY <1>1, <1>2, ImportJudges
<1>5. AckCursor <= Len(inbox')
  <2>1. AckCursor \in Nat /\ Cursor \in Nat /\ AckCursor <= Cursor
    BY <1>1, <1>2, CursorType
  <2>2. Len(inbox') = Bigger(Len(inbox), page.from - 1 + size)
    BY <1>1, <1>2, ImportExtends
  <2>3. Cursor = page.from - 1 + size /\ Len(inbox) \in Nat
    BY <1>1 DEF Cursor, TypeOK
  <2> QED BY <2>1, <2>2, <2>3 DEF Bigger
<1> QED BY <1>2, <1>3, <1>4, <1>5 DEF AskTrue

(* An acknowledgment is carried out, answered or not. *)
LEMMA AckKeeps ==
  ASSUME Inv, NEW a \in Asks, AskTrue(a), Acknowledgeable(a), Acknowledge(a),
         UNCHANGED <<protocol, queue, inbox, refused, ackedHome, worker, task>>,
         receipts' \subseteq receipts \cup {[ask |-> a, done |-> TRUE], [ask |-> a, done |-> FALSE]},
         late' \subseteq late,
         phase' = "import" => phase = "import" /\ page' = page,
         phase' \in {"ack", "acked"} => phase \in {"ack", "acked"} /\ ask' = ask,
         phase' = "acked" => phase = "acked" \/ a = ask
  PROVE  Beliefs'
<1>1. /\ ackd' \in 0..Len(queue) /\ ackd' <= Len(inbox)
      /\ ackd <= ackd' /\ a.through <= ackd'
  BY AcknowledgeMoves
<1>2. /\ ackd \in Nat /\ ackedHome \in Nat /\ ackedHome <= ackd /\ Len(queue) \in Nat
      /\ ackd' \in Nat
  BY <1>1 DEF Inv, TypeOK, NothingAckedUnseen
<1>3. NothingAckedUnseen'
  BY <1>1, <1>2 DEF NothingAckedUnseen
<1>4. PageTrue' /\ InboxTrue'
  BY DEF Inv, PageTrue, InboxTrue, Cursor, SequenceOf
<1>5. ASSUME NEW b, AskTrue(b) PROVE AskTrue(b)'
  BY <1>5 DEF AskTrue
<1>6. AsksTrue'
  <2>1. ASSUME NEW b \in Asks, b.through <= ackd PROVE b.through <= ackd'
    BY <1>1, <1>2, <2>1 DEF Asks
  <2>2. /\ late \subseteq Asks /\ ask \in Asks
        /\ \A r \in receipts : r.ask \in Asks
    BY DEF Inv, TypeOK
  <2>3. \A r \in receipts' : AskTrue(r.ask)' /\ (r.done => r.ask.through <= ackd')
    <3>1. SUFFICES ASSUME NEW r \in receipts'
                   PROVE  AskTrue(r.ask)' /\ (r.done => r.ask.through <= ackd')
      OBVIOUS
    <3>2. CASE r \in receipts
      BY <1>5, <2>1, <2>2, <3>2 DEF Inv, AsksTrue
    <3>3. CASE r \notin receipts
      BY <1>1, <1>5, <3>3
    <3> QED BY <3>2, <3>3
  <2>4. \A b \in late' : AskTrue(b)'
    BY <1>5 DEF Inv, AsksTrue
  <2>5. phase' \in {"ack", "acked"} => AskTrue(ask)'
    BY <1>5 DEF Inv, AsksTrue, AskTrue
  <2>6. phase' = "acked" => ask'.through <= ackd'
    BY <1>1, <2>1, <2>2 DEF Inv, AsksTrue
  <2> QED BY <2>3, <2>4, <2>5, <2>6 DEF AsksTrue
<1>7. ServersAgree' /\ ReportsGetVerdicts'
  BY AcknowledgeSafe
<1> QED BY <1>3, <1>4, <1>6, <1>7 DEF Beliefs

(* An acknowledgment is executed: carried out, or answered from its receipt. *)
LEMMA ExecutedKeeps ==
  ASSUME Inv, NEW a \in Asks, AskTrue(a), Executes(a),
         UNCHANGED <<protocol, queue, inbox, refused, ackedHome, worker, task>>,
         late' \subseteq late,
         phase' = "import" => phase = "import" /\ page' = page,
         phase' \in {"ack", "acked"} => phase \in {"ack", "acked"} /\ ask' = ask,
         phase' = "acked" => phase = "acked" \/ a = ask
  PROVE  Beliefs'
<1>1. CASE ReceiptOf(a) = {} /\ Acknowledgeable(a) /\ Acknowledge(a)
             /\ receipts' = receipts \cup {[ask |-> a, done |-> TRUE]}
  BY <1>1, AckKeeps
<1>2. CASE [ask |-> a, done |-> TRUE] \in receipts
             /\ UNCHANGED <<attachment, ackd, receipts>>
  <2>1. a.through <= ackd
    BY <1>2 DEF Inv, AsksTrue
  <2>2. PageTrue' /\ InboxTrue'
    BY DEF Inv, PageTrue, InboxTrue, Cursor, SequenceOf
  <2>3. ASSUME NEW b, AskTrue(b) PROVE AskTrue(b)'
    BY <2>3 DEF AskTrue
  <2>4. AsksTrue'
    <3>1. phase' \in {"ack", "acked"} => AskTrue(ask)'
      BY <2>3 DEF Inv, AsksTrue, AskTrue
    <3>2. phase' = "acked" => ask'.through <= ackd'
      BY <1>2, <2>1 DEF Inv, AsksTrue
    <3> QED BY <1>2, <2>3, <3>1, <3>2 DEF Inv, AsksTrue
  <2>5. NothingAckedUnseen' /\ ServersAgree' /\ ReportsGetVerdicts'
    BY <1>2 DEF Inv, NothingAckedUnseen, ServersAgree, ReportsGetVerdicts
  <2> QED BY <2>2, <2>4, <2>5 DEF Beliefs
<1> QED BY <1>1, <1>2 DEF Executes

-----------------------------------------------------------------------------
(* Each action keeps them.                                                   *)

LEMMA QuietKeeps ==
  ASSUME Inv,
         Tick \/ ShowSyncs \/ BeginPage \/ LateAckVanishes \/ AckRefused
           \/ BeginStop \/ StopArrives \/ TerminalClosed \/ StopReturns \/ StopFails
           \/ Show \/ Abandon \/ MoveTask
           \/ CallFails \/ HomeRestarts \/ ServerRestarts \/ UNCHANGED vars
  PROVE  Beliefs'
<1> USE DEF Beliefs
<1>0. TypeOK
  BY DEF Inv
<1>1. CASE Tick \/ ShowSyncs \/ BeginPage
  BY <1>1, OutsideStep DEF Tick, ShowSyncs, BeginPage, serverVars, homeVars, stopVars
<1>2. CASE LateAckVanishes
  BY <1>2, OutsideStep DEF LateAckVanishes, serverVars, homeVars, syncVars
<1>3. CASE AckRefused
  BY <1>3, OutsideStep DEF AckRefused, AbandonSync, EndSync, serverVars, homeVars
<1>4. CASE BeginStop
  BY <1>4, OutsideStep DEF BeginStop, serverVars, syncVars, Outcomes
<1>5. CASE StopArrives
  BY <1>5, OutsideStep DEF StopArrives, homeVars, syncVars, Outcomes
<1>6. CASE TerminalClosed
  BY <1>6, OutsideStep DEF TerminalClosed, homeVars, syncVars, Outcomes
<1>7. CASE StopReturns
  BY <1>7, OutsideStep DEF StopReturns, StopVerdict, serverVars, syncVars, Outcomes
<1>8. CASE StopFails
  BY <1>8, OutsideStep DEF StopFails, serverVars, syncVars, Outcomes
<1>9. CASE Show
  BY <1>9, OutsideStep DEF Show, serverVars, syncVars, Outcomes
<1>10. CASE Abandon
  BY <1>10, OutsideStep DEF Abandon, serverVars, syncVars, Outcomes, Settleable
<1>11. CASE MoveTask
  BY <1>11, OutsideStep DEF MoveTask, serverVars, syncVars
<1>12. CASE CallFails
  BY <1>12, OutsideStep DEF CallFails, AbandonSync, EndSync, serverVars, homeVars
<1>13. CASE HomeRestarts
  BY <1>13, OutsideStep DEF HomeRestarts, HomeProcessDies, serverVars
<1>14. CASE ServerRestarts
  BY <1>14, OutsideStep DEF ServerRestarts, serverVars, homeVars, syncVars
<1>15. CASE UNCHANGED vars
  BY <1>15, OutsideStep DEF vars, serverVars, homeVars, syncVars
<1> QED BY <1>1, <1>2, <1>3, <1>4, <1>5, <1>6, <1>7, <1>8, <1>9, <1>10, <1>11, <1>12,
           <1>13, <1>14, <1>15

LEMMA EnqueueKeeps ==
  ASSUME Inv,
         (\E kind \in Kinds, same \in BOOLEAN : Enqueue(kind, same)) \/ EnqueueSetupStatus
  PROVE  Beliefs'
<1>0. Len(queue) \in Nat /\ queue \in Seq(Kinds)
  BY DEF Inv, TypeOK
<1>1. ASSUME NEW kind \in Kinds, NEW same \in BOOLEAN, Enqueue(kind, same)
      PROVE  Beliefs'
  <2>1. /\ Len(queue') \in {Len(queue), Len(queue) + 1}
        /\ \A s \in 1..Len(queue) :
              queue'[s] = queue[s] \/ (queue[s] = "heartbeat" /\ s > ackd)
    BY <1>1, QueueStep DEF Enqueue
  <2>2. Len(queue') \in Nat /\ Len(queue') >= Len(queue)
    BY <1>0, <2>1
  <2>3. /\ protocol = "settling" => attachment' = attachment
        /\ UNCHANGED <<protocol, ackd, receipts, inbox, refused, ackedHome, worker, task,
                       late, phase, page, ask>>
    BY <1>1 DEF Enqueue, homeVars, syncVars
  <2> QED BY <2>1, <2>2, <2>3, QueueKeeps
<1>2. CASE EnqueueSetupStatus
  <2>1. queue' = Append(queue, "status") /\ "status" \in Kinds
    BY <1>2 DEF EnqueueSetupStatus, Kinds
  <2>2. /\ Len(queue') = Len(queue) + 1
        /\ \A s \in 1..Len(queue) : queue'[s] = queue[s]
    BY <1>0, <2>1
  <2>3. Len(queue') \in Nat /\ Len(queue') >= Len(queue)
    BY <1>0, <2>2
  <2>4. UNCHANGED <<protocol, ackd, attachment, receipts, inbox, refused, ackedHome, worker,
                    task, late, phase, page, ask>>
    BY <1>2 DEF EnqueueSetupStatus, homeVars, syncVars
  <2> QED BY <2>2, <2>3, <2>4, QueueKeeps
<1> QED BY <1>1, <1>2

LEMMA PullKeeps ==
  ASSUME RelayConstants, Inv, PullArrives
  PROVE  Beliefs'
<1> DEFINE from == IF Replay THEN ackd + 1 ELSE Len(inbox) + 1
           upto == Smaller(from + PageSize - 1, Len(queue))
           items == SubSeq(queue, from, upto)
           size == Len(items)
<1>1. /\ queue \in Seq(Kinds) /\ Len(queue) \in Nat /\ Len(inbox) \in Nat
      /\ ackd \in Nat /\ ackd <= Len(inbox) /\ Len(inbox) <= Len(queue)
      /\ PageSize \in Nat \ {0}
  <2>1. PageSize \in Nat \ {0}
    BY DEF RelayConstants
  <2>2. /\ queue \in Seq(Kinds) /\ inbox \in Seq(Kinds) /\ Len(inbox) <= Len(queue)
        /\ ackd \in 0..Len(queue) /\ ackd <= Len(inbox)
    BY DEF Inv, TypeOK, NothingAckedUnseen
  <2> HIDE DEF from, upto, items
  <2>3. Len(queue) \in Nat /\ Len(inbox) \in Nat
    BY <2>2
  <2> QED BY <2>1, <2>2, <2>3
<1>2. /\ from \in Nat \ {0} /\ from <= Len(inbox) + 1
      /\ upto \in Int /\ upto <= Len(queue)
  BY <1>1 DEF Smaller
<1>3. /\ page'.from = IF items = <<>> THEN Len(inbox) + 1 ELSE from
      /\ page'.items = items
      /\ UNCHANGED <<protocol, queue, ackd, attachment, receipts, inbox, refused, ackedHome,
                     worker, task, late>>
      /\ phase' = "import"
  BY DEF PullArrives, Pulled, serverVars, homeVars
<1> HIDE DEF from, upto
<1>4. \A i \in from..upto : queue[i] \in Kinds
  BY <1>1, <1>2
<1>5. /\ items \in Seq(Kinds)
      /\ size = IF from <= upto THEN upto - from + 1 ELSE 0
      /\ \A i \in 1 .. upto - from + 1 : items[i] = queue[from + i - 1]
  BY <1>2, <1>4, SubSeqProperties
<1> HIDE DEF items
<1>6. items = <<>> <=> size = 0
  BY <1>5
<1>7. PageTrue'
  <2>1. page'.from <= Len(inbox) + 1 /\ page'.from - 1 + size <= Len(queue)
    BY <1>1, <1>2, <1>3, <1>5, <1>6
  <2>2. \A i \in 1..size : items[i] = queue[page'.from + i - 1]
    <3>1. SUFFICES ASSUME NEW i \in 1..size PROVE items[i] = queue[page'.from + i - 1]
      OBVIOUS
    <3>2. i \in 1 .. upto - from + 1 /\ page'.from = from
      BY <1>2, <1>3, <1>5, <1>6
    <3> QED BY <1>5, <3>2
  <2> QED BY <1>3, <2>1, <2>2 DEF PageTrue, Cursor, SequenceOf
<1>8. InboxTrue' /\ NothingAckedUnseen' /\ ServersAgree' /\ ReportsGetVerdicts'
  BY <1>3 DEF Inv, InboxTrue, NothingAckedUnseen, ServersAgree, ReportsGetVerdicts
<1>9. ASSUME NEW a, AskTrue(a) PROVE AskTrue(a)'
  BY <1>3, <1>9 DEF AskTrue
<1>10. AsksTrue'
  BY <1>3, <1>9 DEF Inv, AsksTrue
<1> QED BY <1>7, <1>8, <1>10 DEF Beliefs

LEMMA ImportingKeeps ==
  ASSUME RelayConstants, Inv, ImportPage \/ ImportThrows \/ HomeDiesImporting
  PROVE  Beliefs'
<1>1. TypeOK /\ PageTrue
  BY DEF Inv
<1>2. CASE ImportPage
  <2> DEFINE size == Len(page.items)
  <2>1. phase = "import" /\ size \in 0..Importable /\ Import(size)
    <3>1. size \in Nat
      BY <1>1 DEF TypeOK
    <3> QED BY <1>2, <3>1 DEF ImportPage
  <2>2. UNCHANGED <<protocol, queue, ackd, attachment, receipts, ackedHome, task, late>>
    BY <1>2 DEF ImportPage, serverVars
  <2>3. CASE AckCursor > AlreadyAcked
    <3>1. phase' = "ack" /\ AskTrue(ask)'
      BY <1>2, <2>3, NewAskTrue DEF ImportPage
    <3> HIDE DEF size
    <3> QED BY <2>1, <2>2, <3>1, ImportKeeps
  <2>4. CASE ~(AckCursor > AlreadyAcked)
    <3>1. phase' \in {"idle", "begin"}
      BY <1>2, <2>4 DEF ImportPage, EndPage, EndSync
    <3> HIDE DEF size
    <3> QED BY <2>1, <2>2, <3>1, ImportKeeps
  <2> QED BY <2>3, <2>4
<1>3. CASE ImportThrows
  <2>1. phase = "import" /\ Importable \in 0..Importable /\ Import(Importable)
    BY <1>1, <1>3, ImportableBounds DEF ImportThrows
  <2>2. UNCHANGED <<protocol, queue, ackd, attachment, receipts, ackedHome, task, late>>
    BY <1>3 DEF ImportThrows, serverVars
  <2>3. phase' = "idle"
    BY <1>3 DEF ImportThrows, AbandonSync, EndSync
  <2> QED BY <2>1, <2>2, <2>3, ImportKeeps
<1>4. CASE HomeDiesImporting
  <2>1. PICK n \in 1..Importable : Import(n)
    BY <1>4 DEF HomeDiesImporting
  <2>2. phase = "import" /\ n \in 0..Importable
    BY <1>1, <1>4, <2>1, ImportableBounds DEF HomeDiesImporting
  <2>3. /\ UNCHANGED <<protocol, queue, ackd, attachment, receipts, ackedHome, task, late>>
        /\ phase' = "idle"
    BY <1>4, <2>2 DEF HomeDiesImporting, HomeProcessDies, serverVars
  <2> QED BY <2>1, <2>2, <2>3, ImportKeeps
<1> QED BY <1>2, <1>3, <1>4

LEMMA AcknowledgingKeeps ==
  ASSUME Inv, AckArrives \/ LateAckArrives \/ ServerDiesAcknowledging \/ AckReturns
  PROVE  Beliefs'
<1>0. TypeOK /\ late \subseteq Asks /\ ask \in Asks
  BY DEF Inv, TypeOK
<1>1. CASE AckArrives
  <2>1. AskTrue(ask) /\ Executes(ask)
    BY <1>1 DEF AckArrives, Inv, AsksTrue
  <2>2. /\ UNCHANGED <<protocol, queue, inbox, refused, ackedHome, worker, task, late, ask>>
        /\ phase = "ack" /\ phase' = "acked"
    BY <1>1 DEF AckArrives, homeVars
  <2> QED BY <1>0, <2>1, <2>2, ExecutedKeeps
<1>2. CASE LateAckArrives
  <2>1. PICK a \in late : Executes(a) /\ late' = late \ {a}
    BY <1>2 DEF LateAckArrives
  <2>2. a \in Asks /\ AskTrue(a)
    BY <1>0 DEF Inv, AsksTrue
  <2>3. /\ UNCHANGED <<protocol, queue, inbox, refused, ackedHome, worker, task,
                       phase, page, ask>>
    BY <1>2 DEF LateAckArrives, homeVars, syncVars
  <2>4. late' \subseteq late
    BY <2>1
  <2> QED BY <2>1, <2>2, <2>3, <2>4, ExecutedKeeps
<1>3. CASE ServerDiesAcknowledging
  <2>1. AskTrue(ask) /\ phase = "ack" /\ phase' = "idle"
    BY <1>3 DEF ServerDiesAcknowledging, AbandonSync, EndSync, Inv, AsksTrue
  <2>2. /\ UNCHANGED <<protocol, queue, inbox, refused, ackedHome, worker, task, late>>
        /\ receipts' = receipts \cup {[ask |-> ask, done |-> FALSE]}
    BY <1>3 DEF ServerDiesAcknowledging, homeVars
  <2>3. CASE Acknowledgeable(ask) /\ Acknowledge(ask)
    BY <1>0, <2>1, <2>2, <2>3, AckKeeps
  <2>4. CASE UNCHANGED <<attachment, ackd>>
    <3>1. ASSUME NEW b, AskTrue(b) PROVE AskTrue(b)'
      BY <2>2, <3>1 DEF AskTrue
    <3>2. AsksTrue'
      BY <2>1, <2>2, <2>4, <3>1 DEF Inv, AsksTrue
    <3>3. NothingAckedUnseen' /\ PageTrue' /\ InboxTrue' /\ ServersAgree' /\ ReportsGetVerdicts'
      BY <2>1, <2>2, <2>4 DEF Inv, NothingAckedUnseen, PageTrue, InboxTrue, ServersAgree,
         ReportsGetVerdicts
    <3> QED BY <3>2, <3>3 DEF Beliefs
  <2> QED BY <1>3, <2>3, <2>4 DEF ServerDiesAcknowledging
<1>4. CASE AckReturns
  <2>1. /\ phase = "acked" /\ phase' \in {"idle", "begin"}
        /\ UNCHANGED <<protocol, queue, ackd, attachment, receipts, inbox, refused, worker,
                       task, late>>
    BY <1>4 DEF AckReturns, EndPage, EndSync, serverVars
  <2>2. ackedHome' <= ackd
    <3>1. /\ ackedHome' = IF rowEpoch = page.epoch THEN Bigger(ackedHome, Recorded)
                                                    ELSE Recorded
          /\ ask.through <= ackd /\ ackedHome <= ackd
      BY <1>4 DEF AckReturns, Inv, AsksTrue, NothingAckedUnseen
    <3>2. ask.through \in Nat /\ ackd \in Nat /\ ackedHome \in Nat
      BY <1>0 DEF TypeOK, Asks
    <3>3. Recorded \in Nat /\ Recorded <= ask.through
      BY <3>2 DEF Recorded, Bigger
    <3> QED BY <3>1, <3>2, <3>3 DEF Bigger
  <2>3. ASSUME NEW b, AskTrue(b) PROVE AskTrue(b)'
    BY <2>1, <2>3 DEF AskTrue
  <2>4. AsksTrue'
    BY <2>1, <2>3 DEF Inv, AsksTrue
  <2>5. NothingAckedUnseen' /\ PageTrue' /\ InboxTrue' /\ ServersAgree' /\ ReportsGetVerdicts'
    BY <2>1, <2>2 DEF Inv, NothingAckedUnseen, PageTrue, InboxTrue, ServersAgree,
       ReportsGetVerdicts
  <2> QED BY <2>4, <2>5 DEF Beliefs
<1> QED BY <1>1, <1>2, <1>3, <1>4

-----------------------------------------------------------------------------
(* The theorems.                                                             *)

LEMMA StepInv ==
  ASSUME RelayConstants, Inv, [Next]_vars
  PROVE  Inv'
<1>1. ASSUME TypeOK', Beliefs' PROVE Inv'
  BY <1>1 DEF Inv, Beliefs
<1>2. CASE Tick \/ ShowSyncs \/ BeginPage \/ LateAckVanishes \/ AckRefused
             \/ BeginStop \/ StopReturns \/ StopFails \/ Show \/ Abandon \/ MoveTask
             \/ CallFails \/ HomeRestarts \/ ServerRestarts
  BY <1>1, <1>2, QuietTypes, QuietKeeps
<1>3. CASE StopArrives \/ TerminalClosed
  BY <1>1, <1>3, ServerStepTypes, QuietKeeps
<1>4. CASE (\E kind \in Kinds, same \in BOOLEAN : Enqueue(kind, same)) \/ EnqueueSetupStatus
  BY <1>1, <1>4, ServerStepTypes, EnqueueKeeps
<1>5. CASE PullArrives
  BY <1>1, <1>5, SyncStepTypes, PullKeeps
<1>6. CASE ImportPage \/ ImportThrows \/ HomeDiesImporting
  BY <1>1, <1>6, SyncStepTypes, ImportingKeeps
<1>7. CASE AckArrives \/ LateAckArrives \/ ServerDiesAcknowledging
  BY <1>1, <1>7, ServerStepTypes, AcknowledgingKeeps
<1>8. CASE AckReturns
  BY <1>1, <1>8, SyncStepTypes, AcknowledgingKeeps
<1>9. CASE UNCHANGED vars
  <2>1. TypeOK /\ UNCHANGED vars
    BY <1>9 DEF Inv
  <2>2. TypeOK'
    BY <2>1, TypesKept, TypesAreNext DEF vars
  <2> QED BY <1>1, <1>9, <2>2, QuietKeeps
<1> QED BY <1>2, <1>3, <1>4, <1>5, <1>6, <1>7, <1>8, <1>9 DEF Next

(* The invariant the results below rest on: it relates the queue, the page, the
   mailbox and every acknowledgment that may still be executed. *)
THEOREM InvIsInvariant == ASSUME RelayConstants PROVE Spec => []Inv
<1>1. Init => Inv
  BY InitInv
<1>2. Inv /\ [Next]_vars => Inv'
  BY StepInv
<1> QED BY <1>1, <1>2, PTL DEF Spec

(* Every column and variable keeps its type and no cursor runs past what it counts. *)
THEOREM TypeCorrect == ASSUME RelayConstants PROVE Spec => []TypeOK
<1>1. Inv => TypeOK
  BY DEF Inv
<1> QED BY <1>1, InvIsInvariant, PTL

(* No item leaves the replay of the worker's server before the home has it, and the
   home never takes for acknowledged what is not, for any number of faults. *)
THEOREM AckedIsSeen == ASSUME RelayConstants PROVE Spec => []NothingAckedUnseen
<1>1. Inv => NothingAckedUnseen
  BY DEF Inv
<1> QED BY <1>1, InvIsInvariant, PTL

(* The outcome a settling home's worker shows on its server is the home's own. *)
THEOREM ServersNeverDisagree == ASSUME RelayConstants PROVE Spec => []ServersAgree
<1>1. Inv => ServersAgree
  BY DEF Inv
<1> QED BY <1>1, InvIsInvariant, PTL

(* No acknowledgment to a settling home swallows a report without a verdict. *)
THEOREM EveryReportJudged == ASSUME RelayConstants PROVE Spec => []ReportsGetVerdicts
<1>1. Inv => ReportsGetVerdicts
  BY DEF Inv
<1> QED BY <1>1, InvIsInvariant, PTL

-----------------------------------------------------------------------------
(* The relay implements ReportDelivery: what the home has received is the beginning of
   what the worker sent, its verdict is one of those reports or a withdrawal, given once,
   and the worker's server can only repeat it.  For a settling home and a worker that sends
   no heartbeats: with them a report may take the place of an imported one. *)

PlainRelay == Protocols = {"settling"} /\ "heartbeat" \notin MailKinds

DeliveryStep == Abstract!Next \/ UNCHANGED Abstract!deliveryVars

Verdict(state) == OpenOr(state, Live)

(* What a plain relay is about. *)
LEMMA PlainMail ==
  ASSUME RelayConstants, PlainRelay, Inv
  PROVE  /\ protocol = "settling"
         /\ \A s \in 1..Len(queue) : queue[s] # "heartbeat"
<1>1. protocol \in Protocols /\ queue \in Seq(Kinds)
  BY DEF Inv, TypeOK
<1>2. "heartbeat" \notin Kinds
  BY DEF PlainRelay, Kinds, Outcomes
<1> QED BY <1>1, <1>2 DEF PlainRelay

(* A sequence that agrees with another as far as it goes is its beginning. *)
LEMMA AgreeingIsPrefix ==
  ASSUME NEW S, NEW whole \in Seq(S), NEW part \in Seq(S), Len(part) <= Len(whole),
         \A i \in 1..Len(part) : part[i] = whole[i]
  PROVE  part = SubSeq(whole, 1, Len(part))
<1> DEFINE n == Len(part)
           begin == SubSeq(whole, 1, n)
<1>1. n \in Nat /\ \A i \in 1..n : whole[i] \in S
  OBVIOUS
<1> HIDE DEF n
<1>2. /\ begin \in Seq(S)
      /\ Len(begin) = IF 1 <= n THEN n - 1 + 1 ELSE 0
      /\ \A i \in 1 .. n - 1 + 1 : begin[i] = whole[1 + i - 1]
  BY <1>1, SubSeqProperties
<1> HIDE DEF begin
<1>3. Len(begin) = n /\ \A i \in 1..n : begin[i] = whole[i]
  <2>1. n - 1 + 1 = n /\ \A i \in 1..n : 1 + i - 1 = i
    BY <1>1
  <2> QED BY <1>1, <1>2, <2>1
<1>4. Len(part) = Len(begin) /\ \A i \in 1..Len(part) : part[i] = begin[i]
  BY <1>3 DEF n
<1>5. part = begin
  BY <1>2, <1>4, SeqEqual
<1> QED BY <1>5 DEF n, begin

(* The worker sends. *)
LEMMA SendStep ==
  ASSUME RelayConstants, PlainRelay, Inv,
         (\E kind \in Kinds, same \in BOOLEAN : Enqueue(kind, same)) \/ EnqueueSetupStatus
  PROVE  DeliveryStep
<1>1. /\ protocol = "settling"
      /\ UNCHANGED <<inbox, worker, attachment>>
  BY PlainMail DEF Enqueue, EnqueueSetupStatus, homeVars
<1>2. UnackedOf("heartbeat") = {}
  BY PlainMail DEF UnackedOf, Unacked
<1>3. queue' = queue \/ \E k \in Kinds : queue' = Append(queue, k)
  <2>1. ASSUME NEW kind \in Kinds, NEW same \in BOOLEAN, Enqueue(kind, same)
        PROVE  queue' = queue \/ queue' = Append(queue, kind)
    BY <1>2, <2>1 DEF Enqueue, Queued, Replaces
  <2>2. EnqueueSetupStatus => "status" \in Kinds /\ queue' = Append(queue, "status")
    BY DEF EnqueueSetupStatus, Kinds
  <2> QED BY <2>1, <2>2
<1>4. CASE queue' = queue
  BY <1>1, <1>4 DEF DeliveryStep, Abstract!deliveryVars
<1>5. CASE \E k \in Kinds : queue' = Append(queue, k)
  BY <1>1, <1>5 DEF DeliveryStep, Abstract!Next, Abstract!Send, Kinds
<1> QED BY <1>3, <1>4, <1>5

(* The home receives, and a report among what it received may decide. *)
LEMMA ReceiveStep ==
  ASSUME RelayConstants, PlainRelay, Inv, Inv', phase = "import",
         NEW n \in 0..Importable, Import(n), UNCHANGED <<queue, attachment, task>>
  PROVE  DeliveryStep
<1>1. TypeOK /\ PageTrue /\ InboxTrue
  BY DEF Inv
<1>2. /\ Len(inbox') = Bigger(Len(inbox), page.from - 1 + n)
      /\ Len(inbox') <= Len(queue)
      /\ \A s \in 1..Len(inbox) : inbox'[s] = inbox[s]
  BY <1>1, ImportExtends
<1>3. /\ Len(inbox) \in Nat /\ Len(queue) \in Nat /\ Len(inbox') \in Nat
      /\ page.from \in Nat \ {0} /\ n \in Nat /\ n \in 0..Len(page.items)
  <2>1. page \in [from : Nat \ {0}, items : Seq(Kinds), epoch : Nat]
        /\ inbox' \in Seq(Kinds) /\ inbox \in Seq(Kinds) /\ queue \in Seq(Kinds)
    BY <1>1, ImportExtends DEF TypeOK
  <2>2. n \in Nat /\ n \in 0..Len(page.items)
    BY <1>1, ImportableBounds
  <2> QED BY <2>1, <2>2
<1>4. Len(inbox') \in Len(inbox)..Len(queue)
  BY <1>2, <1>3 DEF Bigger
<1>5. inbox' = SubSeq(queue, 1, Len(inbox'))
  <2>1. /\ inbox' \in Seq(Kinds) /\ queue \in Seq(Kinds) /\ queue' = queue
        /\ \A s \in 1..Len(inbox') : inbox'[s] = queue[s] \/ inbox'[s] = "heartbeat"
    BY <1>1, ImportExtends DEF TypeOK, Inv, InboxTrue
  <2>2. "heartbeat" \notin Kinds /\ \A s \in 1..Len(inbox') : inbox'[s] \in Kinds
    BY <2>1 DEF PlainRelay, Kinds, Outcomes
  <2>3. \A s \in 1..Len(inbox') : inbox'[s] = queue[s]
    BY <2>1, <2>2
  <2> QED BY <1>2, <2>1, <2>3, AgreeingIsPrefix
<1>6. worker' = WorkerAfter(n)
  BY DEF Import
<1>7. \/ worker' = worker
      \/ /\ worker \in Settleable
         /\ \E i \in Reports(n) : worker' = page.items[i]
  BY <1>1, <1>3, <1>6, VerdictOverPage
<1>8. CASE worker' = worker
  <2>1. Abstract!Receive
    BY <1>4, <1>5, <1>8 DEF Abstract!Receive
  <2> QED BY <2>1 DEF DeliveryStep, Abstract!Next
<1>9. ASSUME worker \in Settleable, NEW i \in Reports(n), worker' = page.items[i]
      PROVE  DeliveryStep
  <2>1. i \in 1..n /\ page.items[i] \in Outcomes
    BY DEF Reports
  <2> DEFINE s == page.from + i - 1
  <2>2. s \in 1..Len(inbox') /\ i \in 1..Len(page.items) /\ s \in 1..Len(queue)
    <3> DEFINE home == Len(inbox)
               home2 == Len(inbox')
               from == page.from
               size == Len(page.items)
               all == Len(queue)
    <3>1. /\ home \in Nat /\ home2 \in Nat /\ all \in Nat /\ from \in Nat \ {0}
          /\ n \in Nat /\ n \in 0..size /\ i \in 1..n
          /\ home2 = Bigger(home, from - 1 + n) /\ home2 <= all /\ s = from + i - 1
      BY <1>2, <1>3, <2>1
    <3>2. size \in Nat
      BY <1>1 DEF TypeOK
    <3> HIDE DEF home, home2, from, size, all, s
    <3>3. s \in 1..home2 /\ s \in 1..all
      BY <3>1 DEF Bigger
    <3>4. i \in 1..size
      BY <3>1, <3>2
    <3> QED BY <3>3, <3>4 DEF home2, size, all
  <2>3. page.items[i] = queue[s]
    BY <1>1, <2>1, <2>2 DEF PageTrue, SequenceOf, Outcomes
  <2>4. inbox'[s] = queue[s]
    <3>1. inbox'[s] = queue'[s] \/ inbox'[s] = "heartbeat"
      BY <2>2 DEF Inv, InboxTrue
    <3>2. inbox'[s] \in Kinds /\ "heartbeat" \notin Kinds
      <4>1. inbox' \in Seq(Kinds)
        BY <1>1, ImportExtends
      <4> QED BY <2>2, <4>1 DEF PlainRelay, Kinds, Outcomes
    <3> QED BY <3>1, <3>2
  <2> HIDE DEF s
  <2>5. /\ Verdict(worker) = "open" /\ Verdict(worker') = worker'
        /\ worker' \in Outcomes /\ worker' = inbox'[s]
    BY <1>9, <2>1, <2>3, <2>4 DEF Verdict, OpenOr, Settleable, Live, Outcomes
  <2>6. Abstract!Receive
    BY <1>4, <1>5, <2>2, <2>5 DEF Abstract!Receive, Verdict
  <2> QED BY <2>6 DEF DeliveryStep, Abstract!Next
<1> QED BY <1>7, <1>8, <1>9

(* The worker's server carries out an acknowledgment, or does not. *)
LEMMA MirrorStep ==
  ASSUME Inv, UNCHANGED <<queue, inbox, worker>>,
         \/ attachment' = attachment
         \/ \E a \in Asks : AskTrue(a) /\ Acknowledgeable(a) /\ Acknowledge(a)
  PROVE  DeliveryStep
<1>1. CASE attachment' = attachment
  BY <1>1 DEF DeliveryStep, Abstract!deliveryVars
<1>2. CASE attachment' # attachment
  <2>1. /\ attachment' \in Outcomes /\ attachment' = worker
        /\ attachment \in Settleable
    BY <1>2, AcknowledgeMoves
  <2>2. /\ Verdict(attachment) = "open" /\ Verdict(attachment') = attachment'
        /\ Verdict(worker) = worker
    BY <2>1 DEF Verdict, OpenOr, Settleable, Live, Outcomes
  <2>3. Abstract!Mirror
    BY <2>1, <2>2 DEF Abstract!Mirror, Verdict
  <2> QED BY <2>3 DEF DeliveryStep, Abstract!Next
<1> QED BY <1>1, <1>2

(* One of the two ends the work without a report, or neither does. *)
LEMMA EndStep ==
  ASSUME UNCHANGED <<queue, inbox>>,
         \/ worker' = worker
         \/ worker \in Live /\ worker' \in Live \cup {"stopped", "abandoned"},
         \/ attachment' = attachment
         \/ attachment \in Live /\ attachment' \in Live \cup {"stopped"},
         worker' = worker \/ attachment' = attachment
  PROVE  DeliveryStep
<1>1. \/ Verdict(worker') = Verdict(worker)
      \/ Verdict(worker) = "open" /\ Verdict(worker') = "withdrawn"
  BY DEF Verdict, OpenOr, Live, Outcomes
<1>2. \/ Verdict(attachment') = Verdict(attachment)
      \/ Verdict(attachment) = "open" /\ Verdict(attachment') = "withdrawn"
  BY DEF Verdict, OpenOr, Live, Outcomes
<1>3. CASE Verdict(worker') = Verdict(worker) /\ Verdict(attachment') = Verdict(attachment)
  BY <1>3 DEF DeliveryStep, Abstract!deliveryVars, Verdict
<1>4. CASE Verdict(worker') # Verdict(worker)
  <2>1. Abstract!Withdraw
    BY <1>1, <1>4 DEF Abstract!Withdraw, Verdict
  <2> QED BY <2>1 DEF DeliveryStep, Abstract!Next
<1>5. CASE Verdict(attachment') # Verdict(attachment)
  <2>1. Abstract!EndThere
    BY <1>2, <1>5 DEF Abstract!EndThere, Verdict
  <2> QED BY <2>1 DEF DeliveryStep, Abstract!Next
<1> QED BY <1>3, <1>4, <1>5

LEMMA StepDelivers ==
  ASSUME RelayConstants, PlainRelay, Inv, Inv', [Next]_vars
  PROVE  DeliveryStep
<1>0. /\ late \subseteq Asks /\ ask \in Asks
      /\ \A a \in late : AskTrue(a)
      /\ phase \in {"ack", "acked"} => AskTrue(ask)
      /\ TypeOK
  BY DEF Inv, TypeOK, AsksTrue
<1>1. CASE (\E kind \in Kinds, same \in BOOLEAN : Enqueue(kind, same)) \/ EnqueueSetupStatus
  BY <1>1, SendStep
<1>2. CASE ImportPage
  <2> DEFINE size == Len(page.items)
  <2>1. phase = "import" /\ size \in 0..Importable /\ Import(size)
    <3>1. size \in Nat
      BY <1>0 DEF TypeOK
    <3> QED BY <1>2, <3>1 DEF ImportPage
  <2>2. UNCHANGED <<queue, attachment, task>>
    BY <1>2 DEF ImportPage, serverVars
  <2> HIDE DEF size
  <2> QED BY <2>1, <2>2, ReceiveStep
<1>3. CASE ImportThrows
  <2>1. phase = "import" /\ Importable \in 0..Importable /\ Import(Importable)
    BY <1>0, <1>3, ImportableBounds DEF ImportThrows, Inv
  <2>2. UNCHANGED <<queue, attachment, task>>
    BY <1>3 DEF ImportThrows, serverVars
  <2> QED BY <2>1, <2>2, ReceiveStep
<1>4. CASE HomeDiesImporting
  <2>1. PICK n \in 1..Importable : Import(n)
    BY <1>4 DEF HomeDiesImporting
  <2>2. phase = "import" /\ n \in 0..Importable
    BY <1>0, <1>4, <2>1, ImportableBounds DEF HomeDiesImporting, Inv
  <2>3. UNCHANGED <<queue, attachment, task>>
    BY <1>4 DEF HomeDiesImporting, HomeProcessDies, serverVars
  <2> QED BY <2>1, <2>2, <2>3, ReceiveStep
<1>5. CASE AckArrives
  BY <1>0, <1>5, MirrorStep DEF AckArrives, Executes, homeVars
<1>6. CASE LateAckArrives
  <2>1. PICK a \in late : Executes(a)
    BY <1>6 DEF LateAckArrives
  <2>2. UNCHANGED <<queue, inbox, worker>>
    BY <1>6 DEF LateAckArrives, homeVars
  <2> QED BY <1>0, <2>1, <2>2, MirrorStep DEF Executes
<1>7. CASE ServerDiesAcknowledging
  BY <1>0, <1>7, MirrorStep DEF ServerDiesAcknowledging, homeVars
<1>8. CASE Tick \/ ShowSyncs \/ BeginPage \/ PullArrives \/ AckRefused \/ LateAckVanishes
             \/ AckReturns \/ MoveTask \/ CallFails \/ HomeRestarts \/ ServerRestarts
  <2>1. UNCHANGED <<queue, inbox, worker, attachment>>
    BY <1>8 DEF Tick, ShowSyncs, BeginPage, PullArrives, AckRefused, LateAckVanishes,
       AckReturns, MoveTask, CallFails, HomeRestarts, HomeProcessDies, ServerRestarts,
       serverVars, homeVars
  <2> QED BY <2>1, EndStep
<1>9. CASE BeginStop \/ StopReturns \/ StopFails \/ Show \/ Abandon
  <2>1. UNCHANGED <<queue, inbox, attachment>>
    BY <1>9 DEF BeginStop, StopReturns, StopFails, Show, Abandon, serverVars
  <2>2. \/ worker' = worker
        \/ worker \in Live /\ worker' \in Live \cup {"stopped", "abandoned"}
    BY <1>9 DEF BeginStop, StopReturns, StopVerdict, StopFails, Show, Abandon, Live,
       Settleable
  <2> QED BY <2>1, <2>2, EndStep
<1>10. CASE StopArrives \/ TerminalClosed
  <2>1. UNCHANGED <<queue, inbox, worker>>
    BY <1>10 DEF StopArrives, TerminalClosed, homeVars
  <2>2. \/ attachment' = attachment
        \/ attachment \in Live /\ attachment' \in Live \cup {"stopped"}
    BY <1>10 DEF StopArrives, TerminalClosed, Live
  <2> QED BY <2>1, <2>2, EndStep
<1>11. CASE UNCHANGED vars
  BY <1>11 DEF vars, serverVars, homeVars, DeliveryStep, Abstract!deliveryVars
<1> QED BY <1>1, <1>2, <1>3, <1>4, <1>5, <1>6, <1>7, <1>8, <1>9, <1>10, <1>11 DEF Next

LEMMA DeliveryInit == Init => Abstract!Init
BY DEF Init, Abstract!Init, OpenOr, Live

(* The relay of a settling home implements ReportDelivery while no report takes a
   heartbeat's place: order, single delivery, one final verdict and a faithful mirror
   of it, whatever calls are lost, late or repeated and whichever process dies. *)
THEOREM RelayDeliversReports ==
  ASSUME RelayConstants, PlainRelay PROVE Spec => ImplementsDelivery
<1>1. Inv /\ Inv' /\ [Next]_vars => [Abstract!Next]_Abstract!deliveryVars
  BY StepDelivers DEF DeliveryStep
<1> QED BY <1>1, DeliveryInit, InvIsInvariant, PTL
        DEF Spec, ImplementsDelivery, Abstract!Spec
=============================================================================
