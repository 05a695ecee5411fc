-------------------------- MODULE MutationLeaseProofs --------------------------
(***************************************************************************)
(* The relay fence broker's lease, for any number of handlers, requests,   *)
(* takeovers, leases and failed calls.                                     *)
(*                                                                         *)
(* A write is judged on two reads and lands later.  What carries the       *)
(* judgement is that a generation never comes back: if the object still    *)
(* has the generation of the metadata, the body was that lease's too, and  *)
(* what was found of it still holds (Judged).  A delete lands later than   *)
(* the mutation it follows; every generation deleted is one whose mutation *)
(* succeeded, and no other handler runs under it (Owned).                  *)
(***************************************************************************)
EXTENDS MutationLease, SequenceTheorems, TLAPS

Writes == [at : {"write"}, request : Requests, seen : {0} \cup Generations, expires : Nat]
Holds == [at : {"run", "release"}, request : Requests, own : Generations]

(* A stored lease is the last one written. *)
StoredIsLast == object \in {0, Len(leases)}

(* If the condition of a write still holds, so does its judgement. *)
Fair(w) == w.seen # 0 /\ object = w.seen => Over(w.request, w.seen, w.seen)

Judged ==
  /\ \A p \in Handlers : handler[p].at = "write" => Fair(handler[p])
  /\ \A w \in stray : w.at = "write" => Fair(w)

(* Whoever runs or releases does so under a lease of its request that is no one
   else's; a release follows success. *)
Owned ==
  /\ \A p \in Handlers : handler[p].at \in {"run", "release"} =>
       /\ leases[handler[p].own].request = handler[p].request
       /\ handler[p].at = "release" <=> handler[p].own \in done
       /\ \A q \in Handlers \ {p} :
            handler[q].at \in {"run", "release"} => handler[q].own # handler[p].own
  /\ \A d \in stray : d.at = "release" => d.own \in done

(* What LiveMutationIsCovered asks of a running handler. *)
Covered(h) ==
  \/ Expired(h.own) \/ object = h.own
  \/ /\ h.own < Len(leases)
     /\ \/ leases[h.own + 1].request = h.request
        \/ Names(leases[h.own + 1].request, h.own, h.own)

Inv ==
  TypeOK /\ StoredIsLast /\ Judged /\ Owned /\ LiveMutationIsCovered

-----------------------------------------------------------------------------

(* What a step of a handler is, told by its name. *)
LEMMA StepShapes ==
  ASSUME NEW h \in Steps
  PROVE  /\ h.at = "metadata" => h.request \in Requests
         /\ h.at = "body" => h.request \in Requests /\ h.seen \in Generations
         /\ h.at = "write" => h \in Writes
         /\ h.at \in {"run", "release"} => h \in Holds
BY DEF Steps, Idle, Metadata, Writes, Holds

(* What the other handlers and the stray calls keep when leases are only added. *)
LEMMA StepsGrow ==
  ASSUME leases \in Seq([request : Requests, expires : Nat]),
         leases' \in Seq([request : Requests, expires : Nat]),
         Len(leases) <= Len(leases')
  PROVE  Steps \subseteq Steps'
<1>1. Generations \subseteq Generations'
  BY DEF Generations
<1> QED BY <1>1 DEF Steps

LEMMA InitInv == ASSUME LeaseConstants PROVE Init => Inv
<1> SUFFICES ASSUME Init PROVE Inv OBVIOUS
<1>1. TypeOK
  BY EmptySeq DEF Init, LeaseConstants, TypeOK, Steps, Generations
<1>2. StoredIsLast /\ Judged /\ Owned /\ LiveMutationIsCovered
  BY DEF Init, StoredIsLast, Judged, Owned, LiveMutationIsCovered, Running, Idle
<1> QED BY <1>1, <1>2 DEF Inv

LEMMA LeaseTypes ==
  ASSUME TypeOK, NEW g \in Generations
  PROVE  leases[g].request \in Requests /\ leases[g].expires \in Nat
<1>1. leases[g] \in [request : Requests, expires : Nat]
  BY ElementOfSeq DEF TypeOK, Generations
<1> QED BY <1>1

(* What appending a lease keeps of the others. *)
LEMMA LeaseAppended ==
  ASSUME TypeOK, NEW l \in [request : Requests, expires : Nat],
         leases' = Append(leases, l)
  PROVE  /\ leases' \in Seq([request : Requests, expires : Nat])
         /\ Len(leases) \in Nat /\ Len(leases') = Len(leases) + 1
         /\ \A g \in Generations : leases'[g] = leases[g]
         /\ leases'[Len(leases) + 1] = l
BY AppendProperties DEF TypeOK, Generations

-----------------------------------------------------------------------------
(* One handler moves on; what is stored stays. *)

(* A judgement that holds goes on holding: time passes and leases are only added. *)
LEMMA OverStays ==
  ASSUME TypeOK, NEW r \in Requests, NEW g \in Generations, Over(r, g, g),
         expected' = expected, clock' \in Nat, clock <= clock',
         leases' = leases \/ \E l \in [request : Requests, expires : Nat] : leases' = Append(leases, l)
  PROVE  Over(r, g, g)'
<1>1. leases'[g] = leases[g]
  BY LeaseAppended
<1>2. leases[g].expires \in Nat /\ clock \in Nat
  BY LeaseTypes DEF TypeOK
<1> QED BY <1>1, <1>2 DEF Over, Expired, Names

LEMMA HandlerStep ==
  ASSUME Inv, NEW p \in Handlers, NEW h \in Steps,
         handler' = [handler EXCEPT ![p] = h],
         UNCHANGED <<clock, expected, leases, object, stray, done>>,
         faults' \in 0..MaxFaults,
         h.at = "write" => Fair(h),
         h.at = "run" => FALSE,
         h.at = "release" => FALSE
  PROVE  Inv'
<1>0. Steps' = Steps /\ Generations' = Generations
  BY DEF Steps, Generations
<1>1. TypeOK'
  BY <1>0 DEF Inv, TypeOK
<1>2. StoredIsLast'
  BY DEF Inv, StoredIsLast
<1>3. Judged'
  BY DEF Inv, TypeOK, Judged, Fair, Over, Expired, Names
<1>4. Owned'
  BY DEF Inv, TypeOK, Owned
<1>5. LiveMutationIsCovered'
  BY DEF Inv, TypeOK, LiveMutationIsCovered, Running, Expired, Names
<1> QED BY <1>1, <1>2, <1>3, <1>4, <1>5 DEF Inv

LEMMA ReceiveInv ==
  ASSUME LeaseConstants, Inv, NEW p \in Handlers, NEW r \in Requests, Receive(p, r)
  PROVE  Inv'
<1>1. Metadata(r) \in Steps /\ Metadata(r).at = "metadata"
  BY DEF Steps, Metadata
<1>2. faults' \in 0..MaxFaults
  BY DEF Receive, Inv, TypeOK
<1> QED BY <1>1, <1>2, HandlerStep DEF Receive

LEMMA ReadMetadataInv ==
  ASSUME LeaseConstants, Inv, NEW p \in Handlers, ReadMetadata(p)
  PROVE  Inv'
<1> DEFINE r == handler[p].request
           h == IF object # 0 THEN Body(r, object)
                ELSE IF expected[r] # NoLease THEN Idle
                ELSE Write(r, 0, clock + TTL)
<1>1. r \in Requests /\ clock \in Nat /\ TTL \in Nat /\ object \in {0} \cup Generations
  BY StepShapes DEF Inv, TypeOK, ReadMetadata, LeaseConstants
<1>2. h \in Steps
  BY <1>1 DEF Steps, Body, Write, Idle
<1>3. /\ h.at = "write" => Fair(h)
      /\ h.at \notin {"run", "release"}
  BY DEF Fair, Body, Write, Idle
<1>4. handler' = [handler EXCEPT ![p] = h] /\ faults' \in 0..MaxFaults
  BY DEF ReadMetadata, Inv, TypeOK
<1> HIDE DEF h
<1> QED BY <1>2, <1>3, <1>4, HandlerStep DEF ReadMetadata

LEMMA ReadBodyInv ==
  ASSUME LeaseConstants, Inv, NEW p \in Handlers, ReadBody(p)
  PROVE  Inv'
<1> DEFINE r == handler[p].request
           s == handler[p].seen
           h == IF object # 0 /\ Over(r, s, object)
                  THEN Write(r, s, clock + TTL) ELSE Idle
<1>1. /\ r \in Requests /\ s \in Generations
      /\ clock \in Nat /\ TTL \in Nat
  BY StepShapes DEF Inv, TypeOK, ReadBody, LeaseConstants
<1>2. h \in Steps
  BY <1>1 DEF Steps, Write, Idle
<1>3. h.at = "write" => Fair(h)
  <2> SUFFICES ASSUME object # 0, Over(r, s, object), object = s
               PROVE  Over(r, s, s)
    BY DEF Fair, Write, Idle
  <2> QED OBVIOUS
<1>4. h.at \notin {"run", "release"}
  BY DEF Write, Idle
<1>5. handler' = [handler EXCEPT ![p] = h] /\ faults' \in 0..MaxFaults
  BY DEF ReadBody, Inv, TypeOK
<1> HIDE DEF h
<1> QED BY <1>2, <1>3, <1>4, <1>5, HandlerStep DEF ReadBody

(* A handler that ends without success leaves everything else as it was. *)
LEMMA EndsInv ==
  ASSUME LeaseConstants, Inv, NEW p \in Handlers, Refused(p) \/ Fails(p)
  PROVE  Inv'
<1>1. Idle \in Steps /\ Idle.at = "idle"
  BY DEF Steps, Idle
<1>2. faults' \in 0..MaxFaults
  BY DEF Refused, Fails, Inv, TypeOK
<1> QED BY <1>1, <1>2, HandlerStep DEF Refused, Fails

-----------------------------------------------------------------------------
(* A mutation ends well: its generation may be deleted from now on. *)

LEMMA SucceedsInv ==
  ASSUME LeaseConstants, Inv, NEW p \in Handlers, MutationSucceeds(p)
  PROVE  Inv'
<1> DEFINE own == handler[p].own
           h == Release(handler[p].request, own)
<1>0. Steps' = Steps /\ Generations' = Generations
  BY DEF Steps, Generations, MutationSucceeds
<1>1. /\ handler[p] \in Holds /\ handler[p].at = "run"
      /\ own \in Generations /\ handler[p].request \in Requests
  BY StepShapes DEF Inv, TypeOK, MutationSucceeds, Holds
<1>2. h \in Steps /\ h.at = "release" /\ h.own = own /\ h.request = handler[p].request
  BY <1>1 DEF Steps, Release
<1>3. /\ handler' = [handler EXCEPT ![p] = h]
      /\ done' = done \cup {own}
      /\ UNCHANGED <<clock, expected, leases, object, stray, faults>>
  BY DEF MutationSucceeds
<1> HIDE DEF h, own
<1>4. TypeOK'
  BY <1>0, <1>1, <1>2, <1>3 DEF Inv, TypeOK
<1>5. StoredIsLast'
  BY <1>3 DEF Inv, StoredIsLast
<1>6. Judged'
  BY <1>2, <1>3 DEF Inv, TypeOK, Judged, Fair, Over, Expired, Names
<1>7. Owned'
  <2>1. own = handler[p].own
    BY DEF own
  <2> QED BY <1>1, <1>2, <1>3, <2>1 DEF Inv, TypeOK, Owned
<1>8. LiveMutationIsCovered'
  BY <1>2, <1>3 DEF Inv, TypeOK, LiveMutationIsCovered, Running, Expired, Names
<1> QED BY <1>4, <1>5, <1>6, <1>7, <1>8 DEF Inv

(* A write or a delete is left to itself. *)
LEMMA CallFailsInv ==
  ASSUME LeaseConstants, Inv, NEW p \in Handlers, CallFails(p)
  PROVE  Inv'
<1>0. Steps' = Steps /\ Generations' = Generations
  BY DEF Steps, Generations, CallFails
<1>1. /\ handler' = [handler EXCEPT ![p] = Idle]
      /\ stray' = stray \/ stray' = stray \cup {handler[p]}
      /\ handler[p].at = "write" \/ handler[p].at = "release"
      /\ UNCHANGED <<clock, expected, leases, object, done>>
      /\ Idle \in Steps /\ Idle.at = "idle"
  BY DEF CallFails, Steps, Idle
<1>2. TypeOK'
  BY <1>0, <1>1 DEF Inv, TypeOK, CallFails, LeaseConstants
<1>3. StoredIsLast'
  BY <1>1 DEF Inv, StoredIsLast
<1>4. Judged'
  BY <1>1 DEF Inv, TypeOK, Judged, Fair, Over, Expired, Names
<1>5. Owned'
  BY <1>1 DEF Inv, TypeOK, Owned
<1>6. LiveMutationIsCovered'
  BY <1>1 DEF Inv, TypeOK, LiveMutationIsCovered, Running, Expired, Names
<1> QED BY <1>2, <1>3, <1>4, <1>5, <1>6 DEF Inv

LEMMA TickInv ==
  ASSUME LeaseConstants, Inv, Tick
  PROVE  Inv'
<1>0. Steps' = Steps /\ Generations' = Generations
  BY DEF Steps, Generations, Tick
<1>1. /\ clock' = clock + 1 /\ clock \in Nat /\ clock' \in 0..MaxTime
      /\ UNCHANGED <<expected, leases, object, handler, stray, done, faults>>
  BY DEF Tick, Inv, TypeOK, LeaseConstants
<1>2. TypeOK'
  BY <1>0, <1>1 DEF Inv, TypeOK
<1>3. StoredIsLast' /\ Owned'
  BY <1>1 DEF Inv, StoredIsLast, Owned
<1>4. \A g \in Generations : leases[g].expires \in Nat
  BY LeaseTypes DEF Inv
<1>5. \A r \in Requests, g \in Generations : Over(r, g, g) => Over(r, g, g)'
  BY <1>1, OverStays DEF Inv
<1>6. Judged'
  <2>1. \A w \in Writes : Fair(w) => Fair(w)'
    BY <1>1, <1>5 DEF Fair, Writes
  <2>2. \A w \in Steps : w.at = "write" => w \in Writes
    BY StepShapes
  <2> QED BY <1>1, <2>1, <2>2 DEF Inv, TypeOK, Judged
<1>7. LiveMutationIsCovered'
  <2> SUFFICES ASSUME NEW p \in Handlers, Running(p)
               PROVE  LET own == handler[p].own
                      IN  Expired(own)' \/ object = own \/
                            /\ own < Len(leases)
                            /\ \/ leases[own + 1].request = handler[p].request
                               \/ Names(leases[own + 1].request, own, own)
    BY <1>1 DEF LiveMutationIsCovered, Running, Names
  <2>1. handler[p].own \in Generations
    BY StepShapes DEF Running, Inv, TypeOK, Holds
  <2>2. Expired(handler[p].own) => Expired(handler[p].own)'
    BY <1>1, <1>4, <2>1 DEF Expired
  <2> QED BY <2>2 DEF Inv, LiveMutationIsCovered
<1> QED BY <1>2, <1>3, <1>6, <1>7 DEF Inv
-----------------------------------------------------------------------------
(* Storage executes a write. *)

(* What a write that lands leaves true, whatever becomes of its caller: h is what the
   handlers do besides, s what is left of the stray calls. *)
LEMMA StoreInv ==
  ASSUME LeaseConstants, Inv, NEW w \in Writes, Fair(w), Store(w),
         UNCHANGED <<clock, expected, done, faults>>,
         stray' \subseteq stray,
         \/ handler' = handler
         \/ \E p \in Handlers :
              /\ handler[p].at = "write"
              /\ handler' = [handler EXCEPT ![p] = Run(w.request, Len(leases) + 1)]
  PROVE  Inv'
<1> DEFINE l == [request |-> w.request, expires |-> w.expires]
           n == Len(leases) + 1
           R == Run(w.request, n)
<1>1. /\ l \in [request : Requests, expires : Nat]
      /\ l.request = w.request
      /\ w.request \in Requests /\ w.seen \in {0} \cup Generations
  BY DEF Writes
<1>2. leases' = Append(leases, l) /\ object' = n /\ object = w.seen /\ n <= MaxLeases
  BY DEF Store, Matches, Inv, TypeOK, LeaseConstants
<1> HIDE DEF l
<1>3. /\ leases' \in Seq([request : Requests, expires : Nat])
      /\ Len(leases) \in Nat /\ Len(leases') = n
      /\ \A g \in Generations : leases'[g] = leases[g]
      /\ leases'[n] = l
  BY <1>1, <1>2, LeaseAppended DEF Inv
<1>4. /\ Steps \subseteq Steps' /\ Generations' = Generations \cup {n}
      /\ n \notin Generations
  BY <1>3, StepsGrow DEF Inv, TypeOK, Generations
<1>5. /\ R \in Steps' /\ R.at = "run" /\ R.own = n /\ R.request = w.request
  BY <1>1, <1>3, <1>4 DEF Steps, Run
<1> HIDE DEF R
<1>6. \/ handler' = handler
      \/ \E p \in Handlers : handler[p].at = "write" /\ handler' = [handler EXCEPT ![p] = R]
  BY DEF R
<1>7. TypeOK'
  <2>1. handler' \in [Handlers -> Steps']
    BY <1>4, <1>5, <1>6 DEF Inv, TypeOK
  <2>2. stray' \subseteq Steps' /\ done' \subseteq Generations'
    BY <1>4 DEF Inv, TypeOK
  <2>3. object' \in {0} \cup Generations'
    BY <1>2, <1>4
  <2> QED BY <1>2, <1>3, <2>1, <2>2, <2>3 DEF Inv, TypeOK
<1>8. StoredIsLast'
  BY <1>2, <1>3 DEF StoredIsLast
<1>9. Judged'
  <2>1. ASSUME NEW v \in Steps, v.at = "write"
        PROVE  Fair(v)'
    <3>1. v.seen # n
      BY <1>4, <2>1, <1>3, StepShapes DEF Writes
    <3> QED BY <1>2, <3>1 DEF Fair
  <2> QED BY <1>5, <1>6, <2>1 DEF Inv, TypeOK, Judged
<1>10. Owned'
  <2>1. \A p \in Handlers : handler[p].at \in {"run", "release"} =>
          handler[p].own \in Generations
    BY StepShapes DEF Inv, TypeOK, Holds
  <2>2. n \notin done
    BY <1>4 DEF Inv, TypeOK
  <2>3. CASE handler' = handler
    BY <1>3, <2>1, <2>3 DEF Inv, Owned
  <2>4. ASSUME NEW p \in Handlers, handler' = [handler EXCEPT ![p] = R]
        PROVE  Owned'
    <3>1. handler'[p] = R /\ \A q \in Handlers \ {p} : handler'[q] = handler[q]
      BY <2>4 DEF Inv, TypeOK
    <3>2. leases'[R.own].request = R.request
      BY <1>1, <1>3, <1>5
    <3>3. ASSUME NEW q \in Handlers, handler'[q].at \in {"run", "release"}
          PROVE  /\ leases'[handler'[q].own].request = handler'[q].request
                 /\ handler'[q].at = "release" <=> handler'[q].own \in done'
                 /\ \A o \in Handlers \ {q} :
                      handler'[o].at \in {"run", "release"} =>
                        handler'[o].own # handler'[q].own
      <4>1. CASE q = p
        BY <1>4, <1>5, <2>1, <2>2, <3>1, <3>2, <3>3, <4>1
      <4>2. CASE q # p
        <5>1. /\ handler'[q] = handler[q] /\ handler[q].own \in Generations
              /\ handler[q].own # n
          BY <1>4, <2>1, <3>1, <3>3, <4>2
        <5>2. leases'[handler[q].own].request = handler[q].request
          BY <1>3, <3>3, <5>1 DEF Inv, Owned
        <5>3. handler[q].at = "release" <=> handler[q].own \in done'
          BY <3>3, <5>1 DEF Inv, Owned
        <5>4. \A o \in Handlers \ {q} :
                handler'[o].at \in {"run", "release"} => handler'[o].own # handler[q].own
          BY <1>5, <3>1, <3>3, <5>1 DEF Inv, Owned
        <5> QED BY <5>1, <5>2, <5>3, <5>4
      <4> QED BY <4>1, <4>2
    <3>4. \A d \in stray' : d.at = "release" => d.own \in done'
      BY DEF Inv, Owned
    <3> QED BY <3>3, <3>4 DEF Owned
  <2> QED BY <1>6, <2>3, <2>4
<1>11. LiveMutationIsCovered'
  <2> DEFINE After(h) ==
        \/ leases'[h.own].expires <= clock' \/ object' = h.own
        \/ /\ h.own < Len(leases')
           /\ \/ leases'[h.own + 1].request = h.request
              \/ /\ expected'[leases'[h.own + 1].request]
                       = [generation |-> h.own, request |-> leases'[h.own].request]
                 /\ OperationOf[leases'[h.own + 1].request] = OperationOf[leases'[h.own].request]
  <2>1. ASSUME NEW h \in Steps, h.at = "run", leases[h.own].request = h.request, Covered(h)
        PROVE  After(h)
    <3> DEFINE own == h.own
    <3>1. own \in Generations /\ own \in 1..Len(leases)
      BY <2>1, StepShapes DEF Holds, Generations
    <3>2. leases'[own] = leases[own] /\ leases[own].request = h.request
      BY <1>3, <2>1, <3>1
    <3>3. \/ Expired(own) \/ object = own
          \/ /\ own < Len(leases)
             /\ leases[own + 1].request = h.request \/ Names(leases[own + 1].request, own, own)
      BY <2>1 DEF Covered
    <3>4. After(h) <=>
            \/ leases'[own].expires <= clock \/ object' = own
            \/ /\ own < Len(leases')
               /\ \/ leases'[own + 1].request = h.request
                  \/ /\ expected[leases'[own + 1].request]
                            = [generation |-> own, request |-> leases'[own].request]
                     /\ OperationOf[leases'[own + 1].request] = OperationOf[leases'[own].request]
      OBVIOUS
    <3> HIDE DEF After
    <3> HIDE DEF own
    <3>5. CASE Expired(own)
      BY <3>2, <3>4, <3>5 DEF Expired
    <3>6. CASE ~Expired(own) /\ object = own
      <4>1. own = Len(leases) /\ own = w.seen /\ own # 0
        BY <1>2, <3>1, <3>6 DEF Inv, StoredIsLast
      <4>2. Over(w.request, own, own)
        BY <1>2, <4>1 DEF Fair
      <4>3. w.request = leases[own].request \/ Names(w.request, own, own)
        BY <3>6, <4>2 DEF Over
      <4>4. leases'[own + 1].request = w.request /\ own < Len(leases')
        BY <1>1, <1>3, <4>1
      <4> QED BY <3>2, <3>4, <4>3, <4>4 DEF Names
    <3>7. CASE ~Expired(own) /\ object # own
      <4>1. own < Len(leases) /\ own < Len(leases')
        BY <1>3, <3>1, <3>3, <3>7
      <4>2. own + 1 \in Generations
        BY <1>3, <3>1, <4>1 DEF Generations
      <4>3. leases'[own + 1] = leases[own + 1]
        BY <1>3, <4>2
      <4> QED BY <3>2, <3>3, <3>4, <3>7, <4>1, <4>3 DEF Names
    <3> QED BY <3>5, <3>6, <3>7
  <2>2. After(R)
    BY <1>2, <1>5
  <2>3. ASSUME NEW p \in Handlers, handler[p].at = "run"
        PROVE  Covered(handler[p]) /\ leases[handler[p].own].request = handler[p].request
    BY <2>3 DEF Inv, Owned, LiveMutationIsCovered, Running, Covered
  <2>4. LiveMutationIsCovered' <=>
          \A p \in Handlers : handler'[p].at = "run" => After(handler'[p])
    BY DEF LiveMutationIsCovered, Running, Names, Expired
  <2> HIDE DEF After
  <2>5. ASSUME NEW p \in Handlers, handler'[p].at = "run"
        PROVE  After(handler'[p])
    <3>1. handler[p] \in Steps /\ (handler'[p] = handler[p] \/ handler'[p] = R)
      BY <1>6 DEF Inv, TypeOK
    <3> QED BY <2>1, <2>2, <2>3, <2>5, <3>1
  <2> QED BY <2>4, <2>5
<1> QED BY <1>7, <1>8, <1>9, <1>10, <1>11 DEF Inv

LEMMA AcquiredInv ==
  ASSUME LeaseConstants, Inv, NEW p \in Handlers, Acquired(p)
  PROVE  Inv'
<1>1. handler[p] \in Writes /\ Fair(handler[p]) /\ Store(handler[p])
  BY StepShapes DEF Acquired, Inv, TypeOK, Judged
<1> QED BY <1>1, StoreInv DEF Acquired

LEMMA StrayWriteInv ==
  ASSUME LeaseConstants, Inv, StrayWrite
  PROVE  Inv'
<1>1. PICK w \in stray :
        /\ w.at = "write"
        /\ IF Matches(w) THEN Store(w) ELSE UNCHANGED <<leases, object>>
        /\ stray' = stray \ {w}
        /\ UNCHANGED <<clock, expected, handler, done, faults>>
  BY DEF StrayWrite
<1>2. w \in Writes /\ Fair(w)
  BY <1>1, StepShapes DEF Inv, TypeOK, Judged
<1>3. CASE Matches(w)
  BY <1>1, <1>2, <1>3, StoreInv
<1>4. CASE ~Matches(w)
  <2>0. Steps' = Steps /\ Generations' = Generations
    BY <1>1, <1>4 DEF Steps, Generations
  <2>1. UNCHANGED <<clock, expected, handler, done, faults, leases, object>> /\ stray' \subseteq stray
    BY <1>1, <1>4
  <2>2. TypeOK' /\ StoredIsLast'
    BY <2>0, <2>1 DEF Inv, TypeOK, StoredIsLast
  <2>3. Judged' /\ Owned'
    BY <2>1 DEF Inv, Judged, Owned, Fair, Over, Expired, Names
  <2>4. LiveMutationIsCovered'
    BY <2>1 DEF Inv, LiveMutationIsCovered, Running, Expired, Names
  <2> QED BY <2>2, <2>3, <2>4 DEF Inv
<1> QED BY <1>3, <1>4

-----------------------------------------------------------------------------
(* Storage deletes a lease: one whose mutation succeeded, so no one runs under it. *)

LEMMA DeleteInv ==
  ASSUME LeaseConstants, Inv, NEW d \in Holds, d.own \in done, Delete(d),
         UNCHANGED <<clock, expected, leases, done, faults>>,
         stray' \subseteq stray,
         \/ handler' = handler
         \/ \E p \in Handlers : handler' = [handler EXCEPT ![p] = Idle]
  PROVE  Inv'
<1>0. Steps' = Steps /\ Generations' = Generations
  BY DEF Steps, Generations
<1>1. Idle \in Steps /\ Idle.at = "idle"
  BY DEF Steps, Idle
<1>2. object' = 0 \/ object' = object
  BY DEF Delete
<1>3. /\ handler' \in [Handlers -> Steps]
      /\ \A q \in Handlers : handler'[q] = handler[q] \/ handler'[q] = Idle
  BY <1>1 DEF Inv, TypeOK
<1>4. TypeOK' /\ StoredIsLast'
  BY <1>0, <1>2, <1>3 DEF Inv, TypeOK, StoredIsLast
<1>5. Judged'
  <2>1. ASSUME NEW v \in Steps, v.at = "write", Fair(v)
        PROVE  Fair(v)'
    BY <1>2, <2>1 DEF Fair, Over, Expired, Names
  <2> QED BY <1>1, <1>3, <2>1 DEF Inv, TypeOK, Judged
<1>6. Owned'
  BY <1>1, <1>3 DEF Inv, Owned
<1>7. LiveMutationIsCovered'
  <2> SUFFICES ASSUME NEW p \in Handlers, handler[p].at = "run", handler'[p] = handler[p]
               PROVE  LET own == handler[p].own
                      IN  Expired(own) \/ object' = own \/
                            /\ own < Len(leases)
                            /\ \/ leases[own + 1].request = handler[p].request
                               \/ Names(leases[own + 1].request, own, own)
    BY <1>1, <1>3 DEF LiveMutationIsCovered, Running, Expired, Names
  <2>1. handler[p].own \notin done
    BY DEF Inv, Owned
  <2>2. object = handler[p].own => object' = object
    BY <2>1 DEF Delete
  <2> QED BY <2>2 DEF Inv, LiveMutationIsCovered, Running
<1> QED BY <1>4, <1>5, <1>6, <1>7 DEF Inv

LEMMA ReleasedInv ==
  ASSUME LeaseConstants, Inv, NEW p \in Handlers, Released(p)
  PROVE  Inv'
<1>1. handler[p] \in Holds /\ handler[p].own \in done /\ Delete(handler[p])
  BY StepShapes DEF Released, Inv, TypeOK, Owned
<1> QED BY <1>1, DeleteInv DEF Released

LEMMA StrayDeleteInv ==
  ASSUME LeaseConstants, Inv, StrayDelete
  PROVE  Inv'
<1>1. PICK d \in stray :
        /\ d.at = "release"
        /\ Delete(d)
        /\ stray' = stray \ {d}
        /\ UNCHANGED <<clock, expected, leases, handler, done, faults>>
  BY DEF StrayDelete
<1>2. d \in Holds /\ d.own \in done
  BY <1>1, StepShapes DEF Inv, TypeOK, Owned
<1> QED BY <1>1, <1>2, DeleteInv

-----------------------------------------------------------------------------

LEMMA StutterInv == ASSUME Inv, UNCHANGED vars PROVE Inv'
BY DEF vars, Inv, TypeOK, Steps, Generations, StoredIsLast, Judged, Fair, Over, Expired,
       Names, Owned, LiveMutationIsCovered, Running

LEMMA NextInv == ASSUME LeaseConstants, Inv, [Next]_vars PROVE Inv'
<1>1. CASE \E p \in Handlers : \E r \in Requests : Receive(p, r)
  BY <1>1, ReceiveInv
<1>2. CASE \E p \in Handlers : ReadMetadata(p) \/ ReadBody(p)
  BY <1>2, ReadMetadataInv, ReadBodyInv
<1>3. CASE \E p \in Handlers : Acquired(p)
  BY <1>3, AcquiredInv
<1>4. CASE \E p \in Handlers : Refused(p) \/ Fails(p)
  BY <1>4, EndsInv
<1>5. CASE \E p \in Handlers : MutationSucceeds(p)
  BY <1>5, SucceedsInv
<1>6. CASE \E p \in Handlers : Released(p)
  BY <1>6, ReleasedInv
<1>7. CASE \E p \in Handlers : CallFails(p)
  BY <1>7, CallFailsInv
<1>8. CASE StrayWrite
  BY <1>8, StrayWriteInv
<1>9. CASE StrayDelete
  BY <1>9, StrayDeleteInv
<1>10. CASE Tick
  BY <1>10, TickInv
<1>11. CASE UNCHANGED vars
  BY <1>11, StutterInv
<1> QED BY <1>1, <1>2, <1>3, <1>4, <1>5, <1>6, <1>7, <1>8, <1>9, <1>10, <1>11 DEF Next

(* The invariant holds of every behaviour of the broker. *)
THEOREM InvIsInvariant == ASSUME LeaseConstants PROVE Spec => []Inv
<1>1. Init => Inv
  BY InitInv
<1>2. Inv /\ [Next]_vars => Inv'
  BY NextInv
<1> QED BY <1>1, <1>2, PTL DEF Spec

(* Handlers and stray calls only speak of generations that were written. *)
THEOREM TypeCorrect == ASSUME LeaseConstants PROVE Spec => []TypeOK
<1>1. Inv => TypeOK
  BY DEF Inv
<1> QED BY <1>1, InvIsInvariant, PTL

(* A mutation under a living lease is covered by the stored lease, or by the takeover
   or the re-sent request that followed its own, however many handlers race and
   whichever calls are lost or late. *)
THEOREM MutationsCovered == ASSUME LeaseConstants PROVE Spec => []LiveMutationIsCovered
<1>1. Inv => LiveMutationIsCovered
  BY DEF Inv
<1> QED BY <1>1, InvIsInvariant, PTL

(* The only steps that take the stored lease away delete the lease of a mutation that
   succeeded. *)
THEOREM LeaseOutlives == ASSUME LeaseConstants PROVE Spec => LeaseOutlivesFailure
<1>1. ASSUME Inv, [Next]_vars
      PROVE  [(object # 0) /\ (object' = 0) => (object \in done)]_vars
  <2> SUFFICES ASSUME object # 0, object' = 0
               PROVE  object \in done
    OBVIOUS
  <2>1. \A w : ~Store(w)
    BY DEF Store, Inv, TypeOK
  <2>2. \A d : Delete(d) => object = d.own
    BY DEF Delete
  <2>3. CASE \E p \in Handlers : Released(p)
    <3> PICK p \in Handlers : Released(p)
      BY <2>3
    <3> QED BY <1>1, <2>2 DEF Released, Inv, Owned
  <2>4. CASE StrayDelete
    <3> PICK d \in stray : d.at = "release" /\ Delete(d)
      BY <2>4 DEF StrayDelete
    <3> QED BY <1>1, <2>2 DEF Inv, Owned
  <2>5. CASE \E p \in Handlers : Acquired(p)
    BY <2>1, <2>5 DEF Acquired
  <2>6. CASE StrayWrite
    BY <2>1, <2>6 DEF StrayWrite
  <2> QED
    BY <1>1, <2>3, <2>4, <2>5, <2>6
    DEF Next, vars, Receive, ReadMetadata, ReadBody, Refused, MutationSucceeds, Fails,
        CallFails, Tick
<1> QED BY <1>1, InvIsInvariant, PTL DEF Spec, LeaseOutlivesFailure

(* A write that lands on a living lease is the same request or the exact takeover:
   the judgement survives everything that happened since the reads. *)
THEOREM LeaseHandsOver == ASSUME LeaseConstants PROVE Spec => LeaseChangesHands
<1> DEFINE Passes == \/ object' = object \/ object = 0 \/ object' = 0
                     \/ Expired(object)
                     \/ leases'[object'].request = leases[object].request
                     \/ Names(leases'[object'].request, object, object)
<1>1. ASSUME Inv, [Next]_vars PROVE [Passes]_vars
  <2>1. ASSUME NEW w \in Writes, Fair(w), Store(w), object # 0
        PROVE  Passes
    <3>1. object = w.seen /\ object' = Len(leases) + 1
      BY <2>1 DEF Store, Matches
    <3>2. leases'[object'].request = w.request
      BY <2>1, <3>1, LeaseAppended DEF Store, Writes, Inv
    <3>3. Over(w.request, object, object)
      BY <2>1, <3>1 DEF Fair
    <3> QED BY <3>2, <3>3 DEF Over
  <2>2. CASE \E p \in Handlers : Acquired(p)
    <3> PICK p \in Handlers : Acquired(p)
      BY <2>2
    <3>1. handler[p] \in Writes /\ Fair(handler[p]) /\ Store(handler[p])
      BY <1>1, StepShapes DEF Acquired, Inv, TypeOK, Judged
    <3> QED BY <2>1, <3>1
  <2>3. CASE StrayWrite
    <3> PICK w \in stray :
          w.at = "write" /\ IF Matches(w) THEN Store(w) ELSE UNCHANGED <<leases, object>>
      BY <2>3 DEF StrayWrite
    <3>1. w \in Writes /\ Fair(w)
      BY <1>1, StepShapes DEF Inv, TypeOK, Judged
    <3> QED BY <2>1, <3>1
  <2>4. CASE object' = object \/ object' = 0
    BY <2>4
  <2> QED
    BY <1>1, <2>2, <2>3, <2>4
    DEF Next, vars, Receive, ReadMetadata, ReadBody, Refused, MutationSucceeds, Fails,
        CallFails, Tick, Released, StrayDelete, Delete
<1> QED BY <1>1, InvIsInvariant, PTL DEF Spec, LeaseChangesHands
=============================================================================
