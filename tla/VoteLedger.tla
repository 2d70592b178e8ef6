----------------------------- MODULE VoteLedger -----------------------------
(***************************************************************************)
(* What the write-behind vote buffer promises (package comment of          *)
(* backend/cache/redis.go): a vote takes effect at once in the live        *)
(* ledger, and every entity whose stored copy may differ from its live one *)
(* stays pending until a save copies the live ledger into the store.       *)
(* VoteBuffer implements this specification: live is Redis, stored is      *)
(* Postgres.                                                               *)
(***************************************************************************)
EXTENDS Integers

CONSTANTS Entities,  \* posts, comments and post tags
          Users

VARIABLES live,         \* [Entities -> [Users -> Vote]], 0 is "no vote"
          liveScore,    \* [Entities -> Int]
          stored,       \* the saved copy of live
          storedScore,  \* the saved copy of liveScore
          pending       \* the entities a later save still has to visit

ledgerVars == <<live, liveScore, stored, storedScore, pending>>

Vote == {-1, 0, 1}

Init ==
    /\ live = [e \in Entities |-> [u \in Users |-> 0]]
    /\ liveScore = [e \in Entities |-> 0]
    /\ stored = live
    /\ storedScore = liveScore
    /\ pending = {}

\* The score moves by what the user's own vote moved, however often the
\* request is repeated.
Cast(e, u, v) ==
    /\ live[e][u] # v
    /\ live' = [live EXCEPT ![e][u] = v]
    /\ liveScore' = [liveScore EXCEPT ![e] = @ + v - live[e][u]]
    /\ pending' = pending \cup {e}
    /\ UNCHANGED <<stored, storedScore>>

\* A save that nothing overtook: only now may the entity leave pending.
Save(e) ==
    /\ e \in pending
    /\ stored' = [stored EXCEPT ![e] = live[e]]
    /\ storedScore' = [storedScore EXCEPT ![e] = liveScore[e]]
    /\ pending' = pending \ {e}
    /\ UNCHANGED <<live, liveScore>>

\* A save that votes overtook, or whose outcome the saver did not learn: it
\* may store anything for the entity, which stays pending.
SaveOvertaken(e) ==
    /\ e \in pending
    /\ \A f \in Entities \ {e} : /\ stored'[f] = stored[f]
                                 /\ storedScore'[f] = storedScore[f]
    /\ UNCHANGED <<live, liveScore, pending>>

Next ==
    \E e \in Entities :
        \/ \E u \in Users, v \in Vote : Cast(e, u, v)
        \/ Save(e)
        \/ SaveOvertaken(e)

Spec == Init /\ [][Next]_ledgerVars
=============================================================================
