------------------------- MODULE MCProjectionRebuild -------------------------
(* Owner-based resources, and a balance with two holders.                  *)
EXTENDS ProjectionRebuild, TLC

CONSTANTS a, b, alice, bob

OwnerBased == [s \in Slots |-> s]
SubjectHeld == [s \in Slots |-> a]
=============================================================================
