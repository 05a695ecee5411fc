----------------------------- MODULE MutationLease -----------------------------
(***************************************************************************)
(* The relay fence broker lets one relay mutation run at a time.  Its lock  *)
(* is an object in cloud storage that names the request holding it and when*)
(* the hold expires.  A handler reads the object's generation, then its    *)
(* body, judges both, and writes its own lease on the condition that the   *)
(* generation is still the one it read; it runs the mutation and deletes   *)
(* the object on the condition that it is still its own.                   *)
(*                                                                         *)
(* Every call to the storage is a step of its own, and may be executed     *)
(* after its caller has failed.  Storage numbers the objects it stores and *)
(* never reuses a number: lease n is the n-th object written.              *)
(***************************************************************************)
EXTENDS Integers, Sequences

CONSTANTS
  Handlers,     \* HTTP requests the broker can be serving at a time
  Requests,     \* request bodies; a digest stands for its body
  Takeovers,    \* those that carry an expected lease
  OperationOf,  \* the operation id of each
  TTL,          \* how long a lease lasts (35 minutes)
  MaxTime,      \* bound: the clock
  MaxLeases,    \* bound: leases ever written
  MaxFaults     \* bound: failed writes and deletes

ASSUME LeaseConstants ==
  /\ Takeovers \subseteq Requests
  /\ TTL \in Nat \ {0}
  /\ {MaxTime, MaxLeases, MaxFaults} \subseteq Nat

VARIABLES
  clock,
  expected,  \* expectedLease of each request, fixed by its digest
  leases,    \* every lease written, in the order of their generations
  object,    \* the generation stored now, 0 when there is no object
  handler,   \* what each handler is doing
  stray,     \* writes and deletes whose handler has failed
  done,      \* generations whose mutation has succeeded
  faults

vars == <<clock, expected, leases, object, handler, stray, done, faults>>

NoLease == [generation |-> 0, request |-> {}]

Idle == [at |-> "idle"]
Metadata(r) == [at |-> "metadata", request |-> r]
Body(r, g) == [at |-> "body", request |-> r, seen |-> g]
(* The conditional write of a lease over generation g, 0 for none. *)
Write(r, g, until) == [at |-> "write", request |-> r, seen |-> g, expires |-> until]
Run(r, g) == [at |-> "run", request |-> r, own |-> g]
Release(r, g) == [at |-> "release", request |-> r, own |-> g]

Init ==
  /\ clock = 0
  /\ expected \in [Requests -> {NoLease} \cup
                     [generation : 1..MaxLeases, request : Requests]]
  /\ \A r \in Requests :
       /\ r \in Takeovers <=> expected[r] # NoLease
       /\ expected[r].request # r  \* a digest does not contain itself
  /\ leases = <<>> /\ object = 0
  /\ handler = [p \in Handlers |-> Idle]
  /\ stray = {} /\ done = {} /\ faults = 0

-----------------------------------------------------------------------------
(* Acquiring.                                                              *)

Expired(g) == leases[g].expires <= clock

(* exactTakeover: request r expects the lease read, its generation from the
   metadata, its digest and operation from the body.  A request may only expect a
   lease of its own operation. *)
Names(r, seen, body) ==
  /\ expected[r] = [generation |-> seen, request |-> leases[body].request]
  /\ OperationOf[r] = OperationOf[leases[body].request]

(* Fault: any request that expects a lease may take any lease over. *)
OverAny(r, seen, body) ==
  leases[body].request = r \/ Expired(body) \/ expected[r] # NoLease

(* A lease may be replaced by the same request, after its expiry, or by the request
   that expects it. *)
Over(r, seen, body) ==
  leases[body].request = r \/ Expired(body) \/ Names(r, seen, body)

Receive(p, r) ==
  /\ handler[p] = Idle
  /\ handler' = [handler EXCEPT ![p] = Metadata(r)]
  /\ UNCHANGED <<clock, expected, leases, object, stray, done, faults>>

(* Without an object there is nothing to judge but an expectation. *)
ReadMetadata(p) ==
  LET r == handler[p].request
  IN  /\ handler[p].at = "metadata"
      /\ handler' = [handler EXCEPT ![p] =
                       IF object # 0 THEN Body(r, object)
                       ELSE IF expected[r] # NoLease THEN Idle
                       ELSE Write(r, 0, clock + TTL)]
      /\ UNCHANGED <<clock, expected, leases, object, stray, done, faults>>

(* The body read is that of the object stored by now; judged and answered with a
   conflict, or turned into a write that expires a TTL from now. *)
ReadBody(p) ==
  LET r == handler[p].request
      seen == handler[p].seen
  IN  /\ handler[p].at = "body"
      /\ handler' = [handler EXCEPT ![p] =
                       IF object # 0 /\ Over(r, seen, object)
                         THEN Write(r, seen, clock + TTL) ELSE Idle]
      /\ UNCHANGED <<clock, expected, leases, object, stray, done, faults>>

(* Fault: the write is conditional only on an object being there or not. *)
MatchesPresence(w) == (w.seen = 0) = (object = 0)

(* ifGenerationMatch: generation 0 asks for no object to be there. *)
Matches(w) == object = w.seen

(* Storage executes a write whose condition holds. *)
Store(w) ==
  /\ Matches(w)
  /\ Len(leases) < MaxLeases
  /\ leases' = Append(leases, [request |-> w.request, expires |-> w.expires])
  /\ object' = Len(leases) + 1

(* Fault: the generation read is kept as that of the new lease. *)
AcquiredAsRead(p) ==
  /\ handler[p].at = "write"
  /\ Store(handler[p])
  /\ handler' = [handler EXCEPT ![p] = Run(handler[p].request, handler[p].seen)]
  /\ UNCHANGED <<clock, expected, stray, done, faults>>

Acquired(p) ==
  /\ handler[p].at = "write"
  /\ Store(handler[p])
  /\ handler' = [handler EXCEPT ![p] = Run(handler[p].request, Len(leases) + 1)]
  /\ UNCHANGED <<clock, expected, stray, done, faults>>

(* 412: the lease changed since it was read. *)
Refused(p) ==
  /\ handler[p].at = "write" /\ ~Matches(handler[p])
  /\ handler' = [handler EXCEPT ![p] = Idle]
  /\ UNCHANGED <<clock, expected, leases, object, stray, done, faults>>

-----------------------------------------------------------------------------
(* Running and releasing.                                                  *)

MutationSucceeds(p) ==
  /\ handler[p].at = "run"
  /\ handler' = [handler EXCEPT ![p] = Release(handler[p].request, handler[p].own)]
  /\ done' = done \cup {handler[p].own}
  /\ UNCHANGED <<clock, expected, leases, object, stray, faults>>

(* The mutation fails, or a read before it: what is stored stays behind. *)
Fails(p) ==
  /\ handler[p].at \in {"metadata", "body", "run"}
  /\ handler' = [handler EXCEPT ![p] = Idle]
  /\ UNCHANGED <<clock, expected, leases, object, stray, done, faults>>

(* Fault: whatever is stored is deleted. *)
DeleteStored(d) == object' = 0

(* Storage deletes the object if it has the generation asked for; a missing one
   and another one are left alone. *)
Delete(d) == object' = IF object = d.own THEN 0 ELSE object

Released(p) ==
  /\ handler[p].at = "release"
  /\ Delete(handler[p])
  /\ handler' = [handler EXCEPT ![p] = Idle]
  /\ UNCHANGED <<clock, expected, leases, stray, done, faults>>

-----------------------------------------------------------------------------
(* Time and faults.                                                        *)

Tick ==
  /\ clock < MaxTime
  /\ clock' = clock + 1
  /\ UNCHANGED <<expected, leases, object, handler, stray, done, faults>>

(* A write or a delete fails at its handler, or the broker dies waiting for it: it
   is lost, or still executed at some time. *)
CallFails(p) ==
  /\ handler[p].at \in {"write", "release"}
  /\ faults < MaxFaults /\ faults' = faults + 1
  /\ stray' \in {stray, stray \cup {handler[p]}}
  /\ handler' = [handler EXCEPT ![p] = Idle]
  /\ UNCHANGED <<clock, expected, leases, object, done>>

StrayWrite ==
  \E w \in stray :
    /\ w.at = "write"
    /\ IF Matches(w) THEN Store(w) ELSE UNCHANGED <<leases, object>>
    /\ stray' = stray \ {w}
    /\ UNCHANGED <<clock, expected, handler, done, faults>>

StrayDelete ==
  \E d \in stray :
    /\ d.at = "release"
    /\ Delete(d)
    /\ stray' = stray \ {d}
    /\ UNCHANGED <<clock, expected, leases, handler, done, faults>>

Next ==
  \/ \E p \in Handlers :
       \/ \E r \in Requests : Receive(p, r)
       \/ ReadMetadata(p) \/ ReadBody(p) \/ Acquired(p) \/ Refused(p)
       \/ MutationSucceeds(p) \/ Released(p)
       \/ Fails(p) \/ CallFails(p)
  \/ StrayWrite \/ StrayDelete \/ Tick

Spec == Init /\ [][Next]_vars

-----------------------------------------------------------------------------
(* Properties.                                                             *)

Generations == 1..Len(leases)

Steps ==
  {Idle} \cup {Metadata(r) : r \in Requests}
  \cup [at : {"body"}, request : Requests, seen : Generations]
  \cup [at : {"write"}, request : Requests, seen : {0} \cup Generations, expires : Nat]
  \cup [at : {"run", "release"}, request : Requests, own : Generations]

(* Handlers and stray calls speak of generations that were written. *)
TypeOK ==
  /\ clock \in 0..MaxTime
  /\ expected \in [Requests -> {NoLease} \cup [generation : Nat, request : Requests]]
  /\ leases \in Seq([request : Requests, expires : Nat]) /\ Len(leases) <= MaxLeases
  /\ object \in {0} \cup Generations
  /\ handler \in [Handlers -> Steps]
  /\ stray \subseteq Steps
  /\ done \subseteq Generations
  /\ faults \in 0..MaxFaults

Running(p) == handler[p].at = "run"

(* While a mutation runs and its lease lives, the stored lease is its own, or the
   next one written after it was written for the same request or for the request
   that names it exactly, within the same operation: so two different operations
   never run side by side on living leases unless the same request was sent twice
   (acquire and its generation precondition in mutation-lease.ts). *)
LiveMutationIsCovered ==
  \A p \in Handlers : Running(p) =>
    LET own == handler[p].own
    IN  Expired(own) \/ object = own \/
          /\ own < Len(leases)
          /\ \/ leases[own + 1].request = handler[p].request
             \/ Names(leases[own + 1].request, own, own)

(* The stored lease goes away only after its own mutation has succeeded: neither the
   end of a mutation whose lease was taken over, nor a failed one, nor a late delete
   lets another request in before expiry ("it retains that lease after a failure",
   docs/orca-relay-operations.md). *)
LeaseOutlivesFailure ==
  [][(object # 0) /\ (object' = 0) => (object \in done)]_vars

(* A living lease passes to another request only by an exact takeover, whatever calls
   were late: the judgement made on two reads still holds when the write lands.  *)
LeaseChangesHands ==
  [][ \/ object' = object \/ object = 0 \/ object' = 0
      \/ Expired(object)
      \/ leases'[object'].request = leases[object].request
      \/ Names(leases'[object'].request, object, object) ]_vars
=============================================================================
