---------------------------- MODULE MCJobManager ----------------------------
(* Instances of JobManager for TLC. *)
EXTENDS JobManager

CONSTANTS j1, s1, s2

AllVisible == [s \in UserStreams |-> Jobs]
=============================================================================
