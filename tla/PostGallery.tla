---------------------------- MODULE PostGallery -----------------------------
(***************************************************************************)
(* What the post pipeline promises about a post and its picture.  A post   *)
(* is queued once; it ends finished or dropped, and neither is taken back. *)
(* From the step that finishes it to the one that begins its deletion, the *)
(* file its row names holds its own picture.  Only a finished post is      *)
(* released by its owner.  PostPipeline implements this specification.     *)
(***************************************************************************)
CONSTANTS Posts,
          Imported  \* posts that are released from the start

VARIABLES life,     \* [Posts -> "absent", "queued", "finished" or "dropped"]
          released,
          doomed,   \* posts whose deletion was begun
          deleted,
          shows     \* [Posts -> the post whose picture is shown, or "none"]

galleryVars == <<life, released, doomed, deleted, shows>>

Init ==
    /\ life = [p \in Posts |-> "absent"]
    /\ released = {} /\ doomed = {} /\ deleted = {}
    /\ shows = [p \in Posts |-> "none"]

Moves(p, from, to) == life[p] = from /\ life' = [life EXCEPT ![p] = to]

Queue(p) ==
    /\ Moves(p, "absent", "queued")
    /\ released' = released \cup ({p} \cap Imported)
    /\ UNCHANGED <<doomed, deleted, shows>>

Finish(p) ==
    /\ Moves(p, "queued", "finished")
    /\ shows' = IF p \in doomed THEN shows ELSE [shows EXCEPT ![p] = p]
    /\ UNCHANGED <<released, doomed, deleted>>

Drop(p) ==
    /\ Moves(p, "queued", "dropped")
    /\ UNCHANGED <<released, doomed, deleted, shows>>

Release(p) ==
    /\ life[p] = "finished"
    /\ released' = released \cup {p}
    /\ UNCHANGED <<life, doomed, deleted, shows>>

BeginDelete(p) ==
    /\ life[p] \in {"queued", "finished"} /\ p \notin doomed
    /\ doomed' = doomed \cup {p}
    /\ shows' = [shows EXCEPT ![p] = "none"]
    /\ UNCHANGED <<life, released, deleted>>

\* Nothing is deleted twice, or without the step above.
Delete(p) ==
    /\ life[p] \in {"queued", "finished"} /\ p \in doomed \ deleted
    /\ deleted' = deleted \cup {p}
    /\ UNCHANGED <<life, released, doomed, shows>>

Next ==
    \E p \in Posts : Queue(p) \/ Finish(p) \/ Drop(p) \/ Release(p) \/ BeginDelete(p) \/ Delete(p)

Spec == Init /\ [][Next]_galleryVars
=============================================================================
