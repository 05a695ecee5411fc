------------------------------- MODULE TaskLease -------------------------------
(***************************************************************************)
(* What the orchestration database promises about a Task, whoever asks:    *)
(* attempts are numbered as they are taken, a Task is leased to one of     *)
(* them at a time, a lease ends once and for ever, nothing changes under a *)
(* lease except that its worker becomes unproven or proven again, and a    *)
(* Task that succeeded is not leased before it has been reopened.          *)
(***************************************************************************)
EXTENDS Naturals

CONSTANT Tasks

VARIABLES
  phase,    \* phase[t]: what the Task's status tells its observers
  holders,  \* holders[t]: the attempts t is leased to
  issued    \* number of leases ever granted

leaseVars == <<phase, holders, issued>>

Free(t) == holders[t] = {}

Init ==
  /\ phase = [t \in Tasks |-> "absent"]
  /\ holders = [t \in Tasks |-> {}]
  /\ issued = 0

(* A Task appears; it may be leased in the same step (Take). *)
Create(t) ==
  /\ phase[t] = "absent"
  /\ phase' = [phase EXCEPT ![t] = "open"]
  /\ UNCHANGED <<holders, issued>>

Take(t) ==
  /\ Free(t) /\ phase[t] \in {"absent", "open", "failed"}
  /\ issued' = issued + 1
  /\ holders' = [holders EXCEPT ![t] = {issued'}]
  /\ phase' = [phase EXCEPT ![t] = "running"]

(* The worker's start or stop is not proven, or is after all. *)
Doubt(t) ==
  /\ ~Free(t)
  /\ \E p \in {"running", "unproven"} : phase' = [phase EXCEPT ![t] = p]
  /\ UNCHANGED <<holders, issued>>

Release(t) ==
  /\ ~Free(t)
  /\ holders' = [holders EXCEPT ![t] = {}]
  /\ \E p \in {"open", "succeeded", "failed"} : phase' = [phase EXCEPT ![t] = p]
  /\ UNCHANGED issued

(* A Task nobody holds is settled, or the record of its last attempt is corrected. *)
Settle(t) ==
  /\ Free(t) /\ phase[t] # "absent"
  /\ \E p \in {"succeeded", "failed"} : phase' = [phase EXCEPT ![t] = p]
  /\ UNCHANGED <<holders, issued>>

Reopen(ts) ==
  /\ \A t \in ts : Free(t) /\ phase[t] # "absent"
  /\ phase' = [t \in Tasks |-> IF t \in ts THEN "open" ELSE phase[t]]
  /\ UNCHANGED <<holders, issued>>

Next ==
  \/ \E t \in Tasks : Create(t) \/ Take(t) \/ Doubt(t) \/ Release(t) \/ Settle(t)
  \/ \E ts \in SUBSET Tasks : Reopen(ts)

Spec == Init /\ [][Next]_leaseVars
=============================================================================
