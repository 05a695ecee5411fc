-------------------------------- MODULE MCLease --------------------------------
EXTENDS MutationLease, TLC

CONSTANTS a, b, t, op, other

(* Request t belongs to the operation of a, b to another. *)
OneTakeover == (a :> op) @@ (t :> op) @@ (b :> other)

SameHandlers == Permutations(Handlers)
=============================================================================
