-------------------------- MODULE MCDurableLedger --------------------------
(* Two callers compete for two intents whose footprints overlap in one     *)
(* projection.                                                             *)
EXTENDS DurableLedger, TLC

CONSTANTS c1, c2, i1, i2, k1, k2

MCFootprint == (i1 :> {k1, k2}) @@ (i2 :> {k2})

MCSharedFootprint == [i \in Intents |-> {k1}]

(* Callers and payloads are only ever compared.                            *)
Symmetry == Permutations(Callers) \cup Permutations(Payloads)
=============================================================================
