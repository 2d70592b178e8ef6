------------------------------ MODULE JobBoard ------------------------------
(***************************************************************************)
(* What the job manager promises to the clients of its event streams: jobs *)
(* only move forward, and a list a client is shown is made of states its   *)
(* jobs have been in.  Lists may be late, and an administrator's may be    *)
(* later than the one before; a user's never step back.                    *)
(* JobManager implements this specification.                               *)
(***************************************************************************)
EXTENDS Integers

CONSTANTS Jobs,
          Items,         \* items a job works through
          UserStreams,
          AdminStreams,
          Visible        \* [UserStreams -> SUBSET Jobs]

VARIABLES job,     \* [Jobs -> Entry]
          listed,  \* the jobs of the registry
          shown    \* [Streams -> Lists], what each client sees

boardVars == <<job, listed, shown>>

Phase == {"none", "pending", "running", "ended"}
Entry == [phase: Phase, work: 0..Items]
Lists == UNION {[D -> Entry] : D \in SUBSET Jobs}

Rank(phase) == CASE phase = "none"    -> 0
                 [] phase = "pending" -> 1
                 [] phase = "running" -> 2
                 [] OTHER             -> 3

\* A job that was in state a can be in state b later.
NotAfter(a, b) == a.work <= b.work /\ Rank(a.phase) <= Rank(b.phase)

Init ==
    /\ job = [j \in Jobs |-> [phase |-> "none", work |-> 0]]
    /\ listed = {}
    /\ shown = [s \in UserStreams \cup AdminStreams |-> [j \in {} |-> job[j]]]

\* A job is registered once.
Begin(j) ==
    /\ job[j].phase = "none"
    /\ job' = [job EXCEPT ![j].phase = "pending"]
    /\ listed' = listed \cup {j}
    /\ UNCHANGED shown

Run(j) ==
    /\ job[j].phase = "pending"
    /\ job' = [job EXCEPT ![j].phase = "running"]
    /\ UNCHANGED <<listed, shown>>

\* The item under way when a job is cancelled is still counted.
Work(j) ==
    /\ job[j].phase \in {"running", "ended"}
    /\ job[j].work < Items
    /\ job' = [job EXCEPT ![j].work = @ + 1]
    /\ UNCHANGED <<listed, shown>>

End(j) ==
    /\ job[j].phase \in {"pending", "running"}
    /\ job' = [job EXCEPT ![j].phase = "ended"]
    /\ UNCHANGED <<listed, shown>>

\* Only a job that has ended leaves the registry.
Leave(j) ==
    /\ job[j].phase = "ended"
    /\ j \in listed
    /\ listed' = listed \ {j}
    /\ UNCHANGED <<job, shown>>

\* Nobody sees what a job has not reached.
Reached(list) ==
    \A j \in DOMAIN list : list[j].phase # "none" /\ NotAfter(list[j], job[j])

\* A user sees no job of a higher level, sees none step back, and loses none
\* that is still in the registry.
StepsForward(s, list) ==
    /\ DOMAIN list \subseteq Visible[s]
    /\ DOMAIN shown[s] \cap listed \subseteq DOMAIN list
    /\ \A j \in DOMAIN shown[s] \cap DOMAIN list : NotAfter(shown[s][j], list[j])

Show(s, list) ==
    /\ Reached(list)
    /\ s \in UserStreams => StepsForward(s, list)
    /\ shown' = [shown EXCEPT ![s] = list]
    /\ UNCHANGED <<job, listed>>

Next ==
    \/ \E j \in Jobs : Begin(j) \/ Run(j) \/ Work(j) \/ End(j) \/ Leave(j)
    \/ \E s \in UserStreams \cup AdminStreams : \E list \in Lists : Show(s, list)

Spec == Init /\ [][Next]_boardVars
=============================================================================
