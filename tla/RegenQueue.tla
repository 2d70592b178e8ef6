----------------------------- MODULE RegenQueue -----------------------------
(***************************************************************************)
(* Re-encoding every stored image: the admin handler that enqueues the     *)
(* items and follows their progress (src/backend/api/admin.go), and the    *)
(* worker that takes them from a reliable Redis queue, replaces the files  *)
(* and reports each item (src/worker/src/queue.rs, db.rs).                 *)
(*                                                                         *)
(* Items are unique (one post of one run), so the two Redis lists are sets *)
(* here: the worker takes all there is and works on it in any order.       *)
(***************************************************************************)
EXTENDS Integers, Sequences, FiniteSets

CONSTANTS Runs,        \* requests to RegenerateImages
          Posts,       \* the image posts
          FirstFile,   \* [Posts -> Posts], the same for posts that were given one file
          Concurrency, \* items worked on at a time
          MaxCrashes,  \* bound: crashes of the worker
          Faults       \* which of FaultKinds may happen

FaultKinds ==
    { "redis",    \* a Redis command of the worker fails or times out
      "pubsub",   \* a progress message is not delivered
      "item",     \* an item fails or times out
      "remove",   \* an old file cannot be removed
      "stall",    \* ten minutes pass without progress
      "cancel" }  \* the job is cancelled, or the backend goes away

ASSUME RegenQueueAssumption ==
    /\ IsFiniteSet(Posts)
    /\ FirstFile \in [Posts -> Posts]
    /\ Concurrency \in Nat \ {0}
    /\ MaxCrashes \in Nat
    /\ Faults \subseteq FaultKinds

Items == Runs \X Posts
RunOf(i)  == i[1]
PostOf(i) == i[2]
ItemsOf(r) == {r} \X Posts
Total == Cardinality(Posts)

VARIABLES
    row,        \* [Posts -> file name in the posts table]
    disk,       \* the image files
    names,      \* file names generated so far
    queue,      \* Redis wallium:regen:queue
    processing, \* Redis wallium:regen:processing
    counter,    \* Redis wallium:regen:done:{job key}
    worker,     \* "recovering" until the start-up recovery is through, then "up"
    at,         \* [Items -> what the worker does with the item]
    out,        \* the file the item's re-encoding wrote
    ok,         \* the result of the item
    crashes,    \* crashes so far
    src,        \* the file name in the item, read by the handler
    run,        \* [Runs -> where the handler is]
    mail,       \* progress messages in the handler's channel
    updated, failed, lastPolled, \* the handler's counters
    pushed, finished             \* history: items enqueued, items with a result

fileVars   == <<row, disk, names>>
redisVars  == <<queue, processing, counter>>
workerVars == <<worker, at, out, ok, crashes>>
runVars    == <<run, mail, updated, failed, lastPolled>>
vars == <<fileVars, redisVars, workerVars, runVars, src, pushed, finished>>

NoFile == 0

\* A re-encoding writes a file of its own; the file a post began with, number
\* 1, it may share with others (PostPipeline tells how that happens).
File(p, n) == IF n = 1 THEN <<FirstFile[p], 1>> ELSE <<p, n>>
Source(i) == File(PostOf(i), src[i])

Init ==
    /\ row = [p \in Posts |-> 1]
    /\ disk = {File(p, 1) : p \in Posts}
    /\ names = 1
    /\ queue = {} /\ processing = {}
    /\ counter = [r \in Runs |-> 0]
    /\ worker = "recovering"
    /\ at = [i \in Items |-> "none"]
    /\ out = [i \in Items |-> NoFile]
    /\ ok = [i \in Items |-> FALSE]
    /\ crashes = 0
    /\ src = [i \in Items |-> NoFile]
    /\ run = [r \in Runs |-> "off"]
    /\ mail = [r \in Runs |-> <<>>]
    /\ updated = [r \in Runs |-> 0]
    /\ failed = [r \in Runs |-> 0]
    /\ lastPolled = [r \in Runs |-> 0]
    /\ pushed = {} /\ finished = {}

-----------------------------------------------------------------------------
(* The worker: recovery and taking items. *)

\* Mutant: the processing list is left alone.
RecoverNothing ==
    /\ worker = "recovering"
    /\ worker' = "up"
    /\ UNCHANGED <<fileVars, redisVars, at, out, ok, crashes, runVars, src, pushed, finished>>

\* LMOVE of one item after the other, until there is none or an error.
Recover ==
    /\ worker = "recovering"
    /\ \E S \in SUBSET processing :
          /\ S = processing \/ "redis" \in Faults
          /\ queue' = queue \cup S
          /\ processing' = processing \ S
    /\ worker' = "up"
    /\ UNCHANGED <<fileVars, counter, at, out, ok, crashes, runVars, src, pushed, finished>>

Idle == worker = "up" /\ \A i \in Items : at[i] = "none"

\* Mutant: LPOP.
PopOnly ==
    /\ Idle
    /\ queue # {}
    /\ queue' = {}
    /\ at' = [i \in Items |-> IF i \in queue THEN "wait" ELSE "none"]
    /\ UNCHANGED <<fileVars, processing, counter, worker, out, ok, crashes, runVars, src, pushed, finished>>

\* Pipelined LMOVE of all items.
Pop ==
    /\ Idle
    /\ queue # {}
    /\ processing' = processing \cup queue
    /\ queue' = {}
    /\ at' = [i \in Items |-> IF i \in queue THEN "wait" ELSE "none"]
    /\ UNCHANGED <<fileVars, counter, worker, out, ok, crashes, runVars, src, pushed, finished>>

\* The answer is lost: some items are moved, none is worked on.
PopFails ==
    /\ Idle
    /\ "redis" \in Faults
    /\ \E S \in SUBSET queue : /\ processing' = processing \cup S
                               /\ queue' = queue \ S
    /\ UNCHANGED <<fileVars, counter, workerVars, runVars, src, pushed, finished>>

-----------------------------------------------------------------------------
(* The worker: one item. *)

Goto(i, where) == at' = [at EXCEPT ![i] = where]

\* process_regen_item has returned, or was dropped at its deadline.
Result(i, success) ==
    /\ Goto(i, "count")
    /\ ok' = [ok EXCEPT ![i] = success]
    /\ finished' = finished \cup {i}

CheckSource(i) ==
    /\ at[i] = "wait"
    /\ Cardinality({k \in Items : at[k] \notin {"none", "wait"}}) < Concurrency
    /\ \/ /\ Source(i) \in disk
          /\ Goto(i, "encode")
          /\ UNCHANGED <<ok, finished>>
       \/ /\ Source(i) \notin disk
          /\ Result(i, FALSE)
    /\ UNCHANGED <<fileVars, redisVars, worker, out, crashes, runVars, src, pushed>>

\* Mutant: the old file is replaced.
EncodeInPlace(i) ==
    /\ at[i] = "encode"
    /\ Source(i) \in disk
    /\ names' = names + 1
    /\ out' = [out EXCEPT ![i] = names']
    /\ disk' = (disk \ {Source(i)}) \cup {File(PostOf(i), names')}
    /\ Goto(i, "update")
    /\ UNCHANGED <<row, redisVars, worker, ok, crashes, runVars, src, pushed, finished>>

\* The source is read again here; the output gets a fresh name.
Encode(i) ==
    /\ at[i] = "encode"
    /\ Source(i) \in disk
    /\ names' = names + 1
    /\ out' = [out EXCEPT ![i] = names']
    /\ disk' = disk \cup {File(PostOf(i), names')}
    /\ Goto(i, "update")
    /\ UNCHANGED <<row, redisVars, worker, ok, crashes, runVars, src, pushed, finished>>

\* UPDATE posts ... WHERE id = $5.
UpdateRow(i) ==
    /\ at[i] = "update"
    /\ row' = [row EXCEPT ![PostOf(i)] = out[i]]
    /\ Goto(i, "remove")
    /\ UNCHANGED <<disk, names, redisVars, worker, out, ok, crashes, runVars, src, pushed, finished>>

\* Mutant: the old file is kept.
RemoveNothing(i) ==
    /\ at[i] = "remove"
    /\ Result(i, TRUE)
    /\ UNCHANGED <<fileVars, redisVars, worker, out, crashes, runVars, src, pushed>>

\* Errors of remove_file are ignored.
RemoveOld(i) ==
    /\ at[i] = "remove"
    /\ \/ disk' = disk \ {Source(i)}
       \/ "remove" \in Faults /\ UNCHANGED disk
    /\ Result(i, TRUE)
    /\ UNCHANGED <<row, names, redisVars, worker, out, crashes, runVars, src, pushed>>

\* An error of the encoder or the database, or the deadline, at any point: an
\* update or a removal that was under way is or is not carried out.  What the
\* encoders of a dropped item may still write under a name that no row and no
\* item will ever have (see MediaEncode!Deadline) is left out.
ItemFails(i) ==
    /\ at[i] \in {"encode", "update", "remove"}
    /\ \/ "item" \in Faults
       \/ at[i] = "encode" /\ Source(i) \notin disk
    /\ \/ UNCHANGED <<row, disk>>
       \/ /\ at[i] = "update" /\ "item" \in Faults
          /\ row' = [row EXCEPT ![PostOf(i)] = out[i]]
          /\ UNCHANGED disk
       \/ /\ at[i] = "remove" /\ "item" \in Faults
          /\ disk' = disk \ {Source(i)}
          /\ UNCHANGED row
    /\ Result(i, FALSE)
    /\ UNCHANGED <<names, redisVars, worker, out, crashes, runVars, src, pushed>>

\* Mutant: DECR.
CountDown(i) ==
    /\ at[i] = "count"
    /\ counter' = [counter EXCEPT ![RunOf(i)] = @ - 1]
    /\ Goto(i, "publish")
    /\ UNCHANGED <<fileVars, queue, processing, worker, out, ok, crashes, runVars, src, pushed, finished>>

\* INCR of the job's counter; on an error, or if Redis cannot be reached, the
\* worker goes on without.
Count(i) ==
    /\ at[i] = "count"
    /\ \/ /\ counter' = [counter EXCEPT ![RunOf(i)] = @ + 1]
          /\ Goto(i, "publish")
       \/ /\ "redis" \in Faults
          /\ UNCHANGED counter
          /\ Goto(i, "publish") \/ Goto(i, "ack")
    /\ UNCHANGED <<fileVars, queue, processing, worker, out, ok, crashes, runVars, src, pushed, finished>>

\* PUBLISH reaches the handler of the item's run if it still listens.
Publish(i) ==
    LET r == RunOf(i) IN
    /\ at[i] = "publish"
    /\ \/ /\ run[r] \in {"enqueue", "loop"}
          /\ mail' = [mail EXCEPT ![r] = Append(@, ok[i])]
       \/ /\ run[r] \notin {"enqueue", "loop"} \/ {"redis", "pubsub"} \cap Faults # {}
          /\ UNCHANGED mail
    /\ Goto(i, "ack")
    /\ UNCHANGED <<fileVars, redisVars, worker, out, ok, crashes, run, updated, failed, lastPolled,
                   src, pushed, finished>>

\* LREM; an item that cannot be acknowledged stays for the next start.
Ack(i) ==
    /\ at[i] = "ack"
    /\ \/ processing' = processing \ {i}
       \/ "redis" \in Faults /\ UNCHANGED processing
    /\ Goto(i, "none")
    /\ UNCHANGED <<fileVars, queue, counter, worker, out, ok, crashes, runVars, src, pushed, finished>>

\* The worker process dies, or is stopped: the regen task ends where it is.
Crash ==
    /\ crashes < MaxCrashes
    /\ crashes' = crashes + 1
    /\ worker' = "recovering"
    /\ at' = [i \in Items |-> "none"]
    /\ UNCHANGED <<fileVars, redisVars, out, ok, runVars, src, pushed, finished>>

-----------------------------------------------------------------------------
(* The handler. *)

\* GetAllImagePosts.
ListPosts(r) ==
    /\ run[r] = "off"
    /\ src' = [i \in Items |-> IF RunOf(i) = r THEN row[PostOf(i)] ELSE src[i]]
    /\ run' = [run EXCEPT ![r] = "enqueue"]
    /\ UNCHANGED <<fileVars, redisVars, workerVars, mail, updated, failed, lastPolled, pushed, finished>>

\* Subscribe, then one RPUSH after the other: the pipeline is no transaction,
\* and the worker may take items before the last one is pushed.
PushItem(i) ==
    /\ run[RunOf(i)] = "enqueue"
    /\ i \notin pushed
    /\ queue' = queue \cup {i}
    /\ pushed' = pushed \cup {i}
    /\ UNCHANGED <<fileVars, processing, counter, workerVars, runVars, src, finished>>

\* job.Fail: what was pushed stays in the queue.
PushFails(r) ==
    /\ run[r] = "enqueue"
    /\ "redis" \in Faults
    /\ run' = [run EXCEPT ![r] = "failed"]
    /\ UNCHANGED <<fileVars, redisVars, workerVars, mail, updated, failed, lastPolled, src, pushed, finished>>

\* The loop begins; with no post it is over at once.
Follow(r) ==
    /\ run[r] = "enqueue"
    /\ ItemsOf(r) \subseteq pushed
    /\ run' = [run EXCEPT ![r] = IF Total = 0 THEN "done" ELSE "loop"]
    /\ UNCHANGED <<fileVars, redisVars, workerVars, mail, updated, failed, lastPolled, src, pushed, finished>>

Current(r) == updated[r] + failed[r]

\* cur >= total ends the loop, and the job completes.
EndIfAll(r) == run' = [run EXCEPT ![r] = IF updated'[r] + failed'[r] >= Total THEN "done" ELSE "loop"]

HearMessage(r) ==
    /\ run[r] = "loop"
    /\ mail[r] # <<>>
    /\ mail' = [mail EXCEPT ![r] = Tail(@)]
    /\ IF Head(mail[r])
       THEN updated' = [updated EXCEPT ![r] = @ + 1] /\ UNCHANGED failed
       ELSE failed' = [failed EXCEPT ![r] = @ + 1] /\ UNCHANGED updated
    /\ EndIfAll(r)
    /\ UNCHANGED <<fileVars, redisVars, workerVars, lastPolled, src, pushed, finished>>

\* Mutant: nothing is charged.
PollOnly(r) ==
    /\ run[r] = "loop"
    /\ counter[r] > lastPolled[r]
    /\ lastPolled' = [lastPolled EXCEPT ![r] = counter[r]]
    /\ UNCHANGED <<updated, failed>>
    /\ EndIfAll(r)
    /\ UNCHANGED <<fileVars, redisVars, workerVars, mail, src, pushed, finished>>

\* A counter that has moved since the last poll and is ahead of the handler:
\* the difference is charged to failed.
Poll(r) ==
    /\ run[r] = "loop"
    /\ counter[r] > lastPolled[r]
    /\ lastPolled' = [lastPolled EXCEPT ![r] = counter[r]]
    /\ failed' = [failed EXCEPT ![r] = IF counter[r] > Current(r)
                                       THEN counter[r] - updated[r] ELSE @]
    /\ UNCHANGED updated
    /\ EndIfAll(r)
    /\ UNCHANGED <<fileVars, redisVars, workerVars, mail, src, pushed, finished>>

\* After ten minutes without progress the handler gives up, and completes.
Stall(r) ==
    /\ run[r] = "loop"
    /\ "stall" \in Faults
    /\ counter[r] <= lastPolled[r] /\ mail[r] = <<>>
    /\ run' = [run EXCEPT ![r] = "done"]
    /\ UNCHANGED <<fileVars, redisVars, workerVars, mail, updated, failed, lastPolled, src, pushed, finished>>

Leave(r) ==
    /\ run[r] = "loop"
    /\ "cancel" \in Faults
    /\ run' = [run EXCEPT ![r] = "cancelled"]
    /\ UNCHANGED <<fileVars, redisVars, workerVars, mail, updated, failed, lastPolled, src, pushed, finished>>

-----------------------------------------------------------------------------
ItemStep(i) == \/ CheckSource(i) \/ Encode(i) \/ UpdateRow(i) \/ RemoveOld(i) \/ ItemFails(i)
               \/ Count(i) \/ Publish(i) \/ Ack(i)
Handler(r) == HearMessage(r) \/ Poll(r) \/ Stall(r) \/ Leave(r)

Next ==
    \/ Recover \/ Pop \/ PopFails \/ Crash
    \/ \E i \in Items : PushItem(i) \/ ItemStep(i)
    \/ \E r \in Runs : ListPosts(r) \/ PushFails(r) \/ Follow(r) \/ Handler(r)

Spec == Init /\ [][Next]_vars

\* Tasks that are under way go on, the ticker lets the worker look at the queue
\* again, and a handler reads its channel and polls.  The worker is started
\* again when it dies (restart: unless-stopped).
FairSpec ==
    /\ Spec
    /\ WF_vars(Recover) /\ WF_vars(Pop)
    /\ \A i \in Items : WF_vars(ItemStep(i))
    /\ \A r \in Runs : WF_vars(HearMessage(r) \/ Poll(r))

-----------------------------------------------------------------------------
(* Properties. *)

TypeOK ==
    /\ row \in [Posts -> Nat]
    /\ disk \subseteq Posts \X Nat
    /\ names \in Nat
    /\ queue \subseteq Items
    /\ processing \subseteq Items
    /\ counter \in [Runs -> Nat]
    /\ worker \in {"recovering", "up"}
    /\ at \in [Items -> {"none", "wait", "encode", "update", "remove", "count", "publish", "ack"}]
    /\ out \in [Items -> Nat]
    /\ ok \in [Items -> BOOLEAN]
    /\ crashes \in 0..MaxCrashes
    /\ src \in [Items -> Nat]
    /\ run \in [Runs -> {"off", "enqueue", "loop", "done", "failed", "cancelled"}]
    /\ mail \in [Runs -> Seq(BOOLEAN)]
    /\ updated \in [Runs -> Nat]
    /\ failed \in [Runs -> Nat]
    /\ lastPolled \in [Runs -> Nat]
    /\ pushed \subseteq Items
    /\ finished \subseteq Items

\* queue.rs:771-776, 941-947: an item leaves Redis only after it has a result,
\* whenever the worker dies and whatever Redis answers are lost.
NothingLost == pushed \ finished \subseteq queue \cup processing

\* queue.rs:1165-1175: the file a post's row names exists, whenever the worker
\* dies and whoever else re-encodes the same post.
RowHasFile == \A p \in Posts : File(p, row[p]) \in disk

\* queue.rs:771-776, 941-952, 1116-1175: the queue and the worker implement the
\* store: whenever the worker dies and whatever Redis answers are lost, an item
\* is held until it has a result, a post changes over to a file that exists and
\* is its own, and no file goes that a post shows.
Store == INSTANCE RegenStore WITH
    First   <- [p \in Posts |-> File(p, 1)],
    held    <- queue \cup processing,
    settled <- finished,
    shows   <- [p \in Posts |-> File(p, row[p])],
    files   <- disk
ImplementsStore == Store!Spec

\* queue.rs:1116-1126, 1165-1175: the handler reports an item as updated at
\* most once, and only if its post has a new file, although an item may be
\* worked on again after a crash.
UpdatedTruthful ==
    \A r \in Runs :
        updated[r] <= Cardinality({i \in ItemsOf(r) : i \in pushed /\ row[PostOf(i)] # src[i]})

\* admin.go:489-491, 590-603: the poll makes up for lost messages, so that the
\* handler's loop ends.
RunsEnd == \A r \in Runs : run[r] = "loop" ~> run[r] # "loop"

\* queue.rs:48-51: every item that was enqueued is acknowledged in the end,
\* through crashes and restarts of the worker.
ItemsAcknowledged ==
    \A i \in Items : i \in pushed ~> [](i \notin queue \cup processing)
=============================================================================
