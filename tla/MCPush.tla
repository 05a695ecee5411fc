--------------------------------- MODULE MCPush ---------------------------------
EXTENDS DurablePush, TLC

CONSTANTS a, x, d1, d2

(* x dismisses a. *)
DismissesA == x :> {a}

(* Among equals the dismissal goes first. *)
DismissalFirst == (<<x, d1>> :> 1) @@ (<<a, d1>> :> 2) @@ (<<x, d2>> :> 3)

TwoDevices == DOMAIN DismissalFirst

SameDrains == Permutations(Drains)
=============================================================================
