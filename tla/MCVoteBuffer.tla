---------------------------- MODULE MCVoteBuffer ----------------------------
(* Instances of VoteBuffer for TLC. *)
EXTENDS VoteBuffer, TLC

CONSTANTS e1, e2, u1, u2

OneType  == [e \in Entities |-> 1]

ThreeFaultSets == { {"db"},                     \* saves fail
                    {"db", "redis", "crash"},   \* the worker fails
                    {"db", "loss"} }            \* Redis loses its data
NoFaults == { {} }

UserSymmetry == Permutations(Users)
=============================================================================
