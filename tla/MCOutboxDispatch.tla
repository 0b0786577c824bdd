-------------------------- MODULE MCOutboxDispatch --------------------------
(* Two workers over healthy rows and one whose payload is corrupt.         *)
EXTENDS OutboxDrain, TLC

CONSTANTS w1, w2

MCQuarantine == [w \in Workers |-> "Quarantine"]

(* Two deployments of the worker share the table under different policies. *)
MCMixed == (w1 :> "Retry") @@ (w2 :> "Quarantine")

Symmetry == Permutations(Rows \ Poison)
=============================================================================
