----------------------------- MODULE MCLifecycle -----------------------------
(* Instances of OrchestrationLifecycle for TLC. *)
EXTENDS OrchestrationLifecycle, TLC

CONSTANTS t1, t2

Chain == (t1 :> {}) @@ (t2 :> {t1})
Alone == (t1 :> {})
=============================================================================
