----------------------------- MODULE RegenStore -----------------------------
(***************************************************************************)
(* What the regeneration of images promises about the work and the files.  *)
(* An item that was enqueued is held until it has a result.  Files are     *)
(* only touched for an item that is held: a new file is added, the item's  *)
(* post changes over to it, and a file goes that no post shows.            *)
(* RegenQueue implements this specification: held is what either Redis     *)
(* list has, settled what has a result.                                    *)
(***************************************************************************)
CONSTANTS Runs, Posts,
          First     \* the file each post begins with

VARIABLES held,     \* items that are not done with
          settled,  \* items with a result
          shows,    \* [Posts -> the file its row names]
          files     \* the image files

storeVars == <<held, settled, shows, files>>

Items == Runs \X Posts
PostOf(i) == i[2]

Init ==
    /\ held = {}
    /\ settled = {}
    /\ shows = First
    /\ files = {First[p] : p \in Posts}

\* Once: an item that is held, or was, is not enqueued again.
Enqueue(i) ==
    /\ i \notin held \cup settled
    /\ held' = held \cup {i}
    /\ UNCHANGED <<settled, shows, files>>

Acknowledge(i) ==
    /\ i \in held \cap settled
    /\ held' = held \ {i}
    /\ UNCHANGED <<settled, shows, files>>

\* A file under a name that is not in use.
Add ==
    /\ \E f \in files' \ files : files' = files \cup {f}
    /\ UNCHANGED shows

\* A post never changes over to another post's file.
ChangeOver(p) ==
    /\ \E f \in files : /\ \A q \in Posts \ {p} : shows[q] # f
                        /\ shows' = [shows EXCEPT ![p] = f]
    /\ UNCHANGED files

Discard ==
    /\ \E f \in files : /\ \A q \in Posts : shows[q] # f
                        /\ files' = files \ {f}
    /\ UNCHANGED shows

\* One thing is done for an item, and it may have its result with it.
Work(i) ==
    /\ i \in held
    /\ Add \/ ChangeOver(PostOf(i)) \/ Discard \/ UNCHANGED <<shows, files>>
    /\ settled' \in {settled, settled \cup {i}}
    /\ UNCHANGED held

Next == \E i \in Items : Enqueue(i) \/ Acknowledge(i) \/ Work(i)

Spec == Init /\ [][Next]_storeVars
=============================================================================
