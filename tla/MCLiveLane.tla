----------------------------- MODULE MCLiveLane -----------------------------
(* Small instances of LiveLane for TLC. *)
EXTENDS LiveLane, TLC

CONSTANTS r1, r2, r3

(* r1 streams as many tokens as run decodes; r3 streams a single one. *)
MixedSteps == (r1 :> 2) @@ (r3 :> 1)
OneStream == r1 :> 2

(* Physical blocks are interchangeable. *)
BlockSymmetry == Permutations(Block)

=============================================================================
