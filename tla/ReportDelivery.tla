---------------------------- MODULE ReportDelivery ----------------------------
(***************************************************************************)
(* What a federated Dispatch promises, whatever calls are lost: the home    *)
(* receives what the worker sent, in that order and once; the first verdict*)
(* it gives is one of the reports it received, or that the work was         *)
(* withdrawn, and is final; and the worker's server never settles on        *)
(* another report than the home.                                           *)
(***************************************************************************)
EXTENDS Naturals, Sequences

CONSTANTS
  Mail,     \* what a worker sends besides its reports
  Outcomes   \* the verdicts; a report is named by the one it asks for

VARIABLES
  sent,      \* what the worker has sent
  received,  \* what the home has received
  verdict,   \* the home's: open, one of Outcomes, or withdrawn
  mirrored   \* the worker's server's

deliveryVars == <<sent, received, verdict, mirrored>>

Init ==
  /\ sent = <<>> /\ received = <<>>
  /\ verdict = "open" /\ mirrored = "open"

Send ==
  /\ \E m \in Mail \cup Outcomes : sent' = Append(sent, m)
  /\ UNCHANGED <<received, verdict, mirrored>>

(* Some more arrives, or nothing does; either way a report received so far may
   now decide. *)
Receive ==
  /\ \E n \in Len(received)..Len(sent) : received' = SubSeq(sent, 1, n)
  /\ \/ UNCHANGED verdict
     \/ /\ verdict = "open"
        /\ \E i \in 1..Len(received') :
             received'[i] \in Outcomes /\ verdict' = received'[i]
  /\ UNCHANGED <<sent, mirrored>>

Withdraw ==
  /\ verdict = "open" /\ verdict' = "withdrawn"
  /\ UNCHANGED <<sent, received, mirrored>>

(* The worker's server follows the verdict, unless it ended the work itself. *)
Mirror ==
  /\ mirrored = "open" /\ verdict \in Outcomes
  /\ mirrored' = verdict
  /\ UNCHANGED <<sent, received, verdict>>

EndThere ==
  /\ mirrored = "open" /\ mirrored' = "withdrawn"
  /\ UNCHANGED <<sent, received, verdict>>

Next == Send \/ Receive \/ Withdraw \/ Mirror \/ EndThere

Spec == Init /\ [][Next]_deliveryVars
=============================================================================
