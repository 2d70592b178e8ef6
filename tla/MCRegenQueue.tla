---------------------------- MODULE MCRegenQueue ----------------------------
(* Instances of RegenQueue for TLC. *)
EXTENDS RegenQueue, TLC

CONSTANTS r1, r2, p1, p2

OwnFirst == [p \in Posts |-> p]

PostSymmetry == Permutations(Posts)
=============================================================================
