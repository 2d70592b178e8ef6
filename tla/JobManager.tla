----------------------------- MODULE JobManager -----------------------------
(***************************************************************************)
(* The registry of long-running jobs (src/backend/api/jobs.go), the        *)
(* handlers that run and cancel jobs (admin.go, import.go) and the event   *)
(* streams that show them (jobs_handlers.go).                              *)
(*                                                                         *)
(* A job is changed by its runner, by a request that cancels it and by the *)
(* clean-up goroutine each of the two leaves behind.  Whoever changes it   *)
(* then broadcasts: it lists all jobs, one job lock after the other, and   *)
(* offers the list to every subscriber.  Nothing orders two broadcasts.    *)
(***************************************************************************)
EXTENDS Integers, Sequences, FiniteSets, Functions

CONSTANTS Jobs,
          Items,         \* items a job works through
          UserStreams,   \* connections to UserJobsStream
          AdminStreams,  \* connections to AdminJobsStream
          Visible,       \* [UserStreams -> SUBSET Jobs]
          Cap,           \* capacity of a subscriber channel
          MaxStreams     \* bound: streams open in one behaviour

Streams == UserStreams \cup AdminStreams
Actors  == {"run", "cancel"} \X Jobs

ASSUME JobManagerAssumption ==
    /\ Items \in Nat
    /\ Cap \in Nat \ {0}
    /\ MaxStreams \in Nat
    /\ UserStreams \cap AdminStreams = {}
    /\ Streams \cap Actors = {}
    /\ Visible \in [UserStreams -> SUBSET Jobs]

VARIABLES
    status,    \* Job.Status, "none" before Register
    progress,  \* Job.Progress
    ctxDone,   \* jobs whose context is cancelled
    listed,    \* the keys of JobManager.jobs
    pc,        \* [Actors -> where the runner or the canceller is]
    cast,      \* [Actors -> how far its broadcast is]
    left,      \* jobs a lister has still to read, under the manager's lock
    view,      \* what a lister has read
    subs,      \* JobManager.subs
    chan,      \* the subscriber channels
    stream,    \* [Streams -> where the stream's loop is]
    seen       \* the last list written to the client

jobVars    == <<status, progress, ctxDone, listed>>
actorVars  == <<pc, cast>>
listVars   == <<left, view>>
streamVars == <<subs, chan, stream, seen>>
vars == <<jobVars, actorVars, listVars, streamVars>>

Terminal == {"done", "failed", "cancelled"}
Status   == {"none", "pending", "running"} \cup Terminal
Snapshot == [status: Status, progress: 0..Items]
EmptyList == [j \in {} |-> [status |-> "none", progress |-> 0]]

SnapshotOf(j) == [status |-> status[j], progress |-> progress[j]]

Init ==
    /\ status = [j \in Jobs |-> "none"]
    /\ progress = [j \in Jobs |-> 0]
    /\ ctxDone = {}
    /\ listed = {}
    /\ pc = [a \in Actors |-> "off"]
    /\ cast = [a \in Actors |-> "none"]
    /\ left = [x \in Actors \cup Streams |-> {}]
    /\ view = [x \in Actors \cup Streams |-> EmptyList]
    /\ subs = {}
    /\ chan = [s \in Streams |-> <<>>]
    /\ stream = [s \in Streams |-> "off"]
    /\ seen = [s \in Streams |-> EmptyList]

-----------------------------------------------------------------------------
(* Lists and broadcasts. *)

\* A writer of the jobs map waits until no list holds the read lock.
MapUnlocked == \A x \in Actors \cup Streams : left[x] = {}

\* What x may see of the registry; a broadcast and an admin stream see all.
Scope(x) == IF x \in UserStreams THEN listed \cap Visible[x] ELSE listed

BeginList(x) ==
    /\ left' = [left EXCEPT ![x] = Scope(x)]
    /\ view' = [view EXCEPT ![x] = EmptyList]

\* Snapshot of one job, under that job's lock.
ReadJob(x, j) ==
    /\ j \in left[x]
    /\ left' = [left EXCEPT ![x] = @ \ {j}]
    /\ view' = [view EXCEPT ![x] = [k \in DOMAIN @ \cup {j} |->
                                      IF k = j THEN SnapshotOf(j) ELSE @[k]]]
    /\ UNCHANGED <<jobVars, actorVars, streamVars>>

\* Actor a is between two statements: it is not inside broadcast().
At(a, where) == pc[a] = where /\ cast[a] = "none"
Go(a, where) == pc' = [pc EXCEPT ![a] = where]
ChangeAndBroadcast(a, where) ==
    /\ Go(a, where)
    /\ cast' = [cast EXCEPT ![a] = "list"]

BroadcastLists(a) ==
    /\ cast[a] = "list"
    /\ BeginList(a)
    /\ cast' = [cast EXCEPT ![a] = "send"]
    /\ UNCHANGED <<jobVars, pc, streamVars>>

\* The non-blocking send to every subscriber.  Only the order of the sends to
\* one channel matters to a stream, so the loop over subs is one step.
BroadcastSends(a) ==
    /\ cast[a] = "send"
    /\ left[a] = {}
    /\ chan' = [s \in Streams |-> IF s \in subs /\ Len(chan[s]) < Cap
                                  THEN Append(chan[s], view[a]) ELSE chan[s]]
    /\ view' = [view EXCEPT ![a] = EmptyList]
    /\ cast' = [cast EXCEPT ![a] = "none"]
    /\ UNCHANGED <<jobVars, pc, left, subs, stream, seen>>

-----------------------------------------------------------------------------
(* The runner of a job: the pattern the job handlers share. *)

Register(j) ==
    LET a == <<"run", j>> IN
    /\ At(a, "off")
    /\ MapUnlocked
    /\ status' = [status EXCEPT ![j] = "pending"]
    /\ listed' = listed \cup {j}
    /\ ChangeAndBroadcast(a, "start")
    /\ UNCHANGED <<progress, ctxDone, listVars, streamVars>>

\* Mutant: no guard.
StartAlways(j) ==
    LET a == <<"run", j>> IN
    /\ At(a, "start")
    /\ status' = [status EXCEPT ![j] = "running"]
    /\ ChangeAndBroadcast(a, "loop")
    /\ UNCHANGED <<progress, ctxDone, listed, listVars, streamVars>>

\* Start broadcasts even when the job was cancelled before it began.
Start(j) ==
    LET a == <<"run", j>> IN
    /\ At(a, "start")
    /\ status' = [status EXCEPT ![j] = IF @ = "pending" THEN "running" ELSE @]
    /\ ChangeAndBroadcast(a, "loop")
    /\ UNCHANGED <<progress, ctxDone, listed, listVars, streamVars>>

\* Mutant: one item too many.
NextItemOffByOne(j) ==
    LET a == <<"run", j>> IN
    /\ At(a, "loop")
    /\ progress[j] <= Items
    /\ Go(a, IF j \in ctxDone THEN "ended" ELSE "item")
    /\ UNCHANGED <<jobVars, cast, listVars, streamVars>>

\* The head of the loop looks at the job's context.
NextItem(j) ==
    LET a == <<"run", j>> IN
    /\ At(a, "loop")
    /\ progress[j] < Items
    /\ Go(a, IF j \in ctxDone THEN "ended" ELSE "item")
    /\ UNCHANGED <<jobVars, cast, listVars, streamVars>>

\* The loop is through, or the source had no more items.
NoMoreItems(j) ==
    LET a == <<"run", j>> IN
    /\ At(a, "loop")
    /\ Go(a, "ended")
    /\ UNCHANGED <<jobVars, cast, listVars, streamVars>>

SetProgress(j) ==
    LET a == <<"run", j>> IN
    /\ At(a, "item")
    /\ progress' = [progress EXCEPT ![j] = @ + 1]
    /\ ChangeAndBroadcast(a, "loop")
    /\ UNCHANGED <<status, ctxDone, listed, listVars, streamVars>>

\* load-new gives up at a page it cannot fetch.
Fail(j) ==
    LET a == <<"run", j>> IN
    /\ At(a, "item")
    /\ status' = [status EXCEPT ![j] = "failed"]
    /\ ChangeAndBroadcast(a, "sleep")
    /\ UNCHANGED <<progress, ctxDone, listed, listVars, streamVars>>

\* "if job.Ctx().Err() != nil" once more, before Complete.
LastCheck(j) ==
    LET a == <<"run", j>> IN
    /\ At(a, "ended")
    /\ Go(a, IF j \in ctxDone THEN "over" ELSE "complete")
    /\ UNCHANGED <<jobVars, cast, listVars, streamVars>>

\* Mutant: no clean-up is scheduled.
CompleteForGood(j) ==
    LET a == <<"run", j>> IN
    /\ At(a, "complete")
    /\ status' = [status EXCEPT ![j] = "done"]
    /\ ChangeAndBroadcast(a, "over")
    /\ UNCHANGED <<progress, ctxDone, listed, listVars, streamVars>>

Complete(j) ==
    LET a == <<"run", j>> IN
    /\ At(a, "complete")
    /\ status' = [status EXCEPT ![j] = "done"]
    /\ ChangeAndBroadcast(a, "sleep")
    /\ UNCHANGED <<progress, ctxDone, listed, listVars, streamVars>>

-----------------------------------------------------------------------------
(* Cancellation and clean-up. *)

\* Mutant: no broadcast.
CancelSilently(j) ==
    LET a == <<"cancel", j>> IN
    /\ At(a, "off")
    /\ j \in listed
    /\ status[j] \notin Terminal
    /\ status' = [status EXCEPT ![j] = "cancelled"]
    /\ ctxDone' = ctxDone \cup {j}
    /\ Go(a, "sleep")
    /\ UNCHANGED <<progress, listed, cast, listVars, streamVars>>

\* The request that wins: every later one finds the job terminal.
Cancel(j) ==
    LET a == <<"cancel", j>> IN
    /\ At(a, "off")
    /\ j \in listed
    /\ status[j] \notin Terminal
    /\ status' = [status EXCEPT ![j] = "cancelled"]
    /\ ctxDone' = ctxDone \cup {j}
    /\ ChangeAndBroadcast(a, "sleep")
    /\ UNCHANGED <<progress, listed, listVars, streamVars>>

\* scheduleCleanup: once for the runner's Complete or Fail, once for Cancel.
Cleanup(a) ==
    LET j == a[2] IN
    /\ At(a, "sleep")
    /\ MapUnlocked
    /\ listed' = IF status[j] \in Terminal THEN listed \ {j} ELSE listed
    /\ ChangeAndBroadcast(a, "over")
    /\ UNCHANGED <<status, progress, ctxDone, listVars, streamVars>>

-----------------------------------------------------------------------------
(* The event streams. *)

Subscribe(s) ==
    /\ stream[s] = "off"
    /\ Cardinality(subs) < MaxStreams
    /\ subs' = subs \cup {s}
    /\ stream' = [stream EXCEPT ![s] = "list"]
    /\ UNCHANGED <<jobVars, actorVars, listVars, chan, seen>>

\* The initial list, and for a user every later one.
StreamLists(s) ==
    /\ stream[s] = "list"
    /\ BeginList(s)
    /\ stream' = [stream EXCEPT ![s] = "write"]
    /\ UNCHANGED <<jobVars, actorVars, subs, chan, seen>>

StreamWrites(s) ==
    /\ stream[s] = "write"
    /\ left[s] = {}
    /\ seen' = [seen EXCEPT ![s] = view[s]]
    /\ view' = [view EXCEPT ![s] = EmptyList]
    /\ stream' = [stream EXCEPT ![s] = "wait"]
    /\ UNCHANGED <<jobVars, actorVars, left, subs, chan>>

\* Mutant: the list received is shown.
UserShowsReceived(s) ==
    /\ s \in UserStreams
    /\ stream[s] = "wait"
    /\ chan[s] # <<>>
    /\ chan' = [chan EXCEPT ![s] = Tail(@)]
    /\ seen' = [seen EXCEPT ![s] = Head(chan[s])]
    /\ UNCHANGED <<jobVars, actorVars, listVars, subs, stream>>

\* A user stream ignores the list it receives and makes its own.
UserReceives(s) ==
    /\ s \in UserStreams
    /\ stream[s] = "wait"
    /\ chan[s] # <<>>
    /\ chan' = [chan EXCEPT ![s] = Tail(@)]
    /\ stream' = [stream EXCEPT ![s] = "list"]
    /\ UNCHANGED <<jobVars, actorVars, listVars, subs, seen>>

\* An admin stream writes the list it receives.
AdminReceives(s) ==
    /\ s \in AdminStreams
    /\ stream[s] = "wait"
    /\ chan[s] # <<>>
    /\ chan' = [chan EXCEPT ![s] = Tail(@)]
    /\ seen' = [seen EXCEPT ![s] = Head(chan[s])]
    /\ UNCHANGED <<jobVars, actorVars, listVars, subs, stream>>

-----------------------------------------------------------------------------
Runner(j) == \/ Start(j) \/ NextItem(j) \/ NoMoreItems(j) \/ SetProgress(j)
             \/ Fail(j) \/ LastCheck(j) \/ Complete(j)
ActorStep(a) == BroadcastLists(a) \/ BroadcastSends(a) \/ Cleanup(a)
StreamStep(s) == StreamLists(s) \/ StreamWrites(s) \/ UserReceives(s) \/ AdminReceives(s)
ReadStep(x) == \E j \in Jobs : ReadJob(x, j)

Next ==
    \/ \E j \in Jobs : Register(j) \/ Runner(j) \/ Cancel(j)
    \/ \E a \in Actors : ActorStep(a)
    \/ \E s \in Streams : Subscribe(s) \/ StreamStep(s)
    \/ \E x \in Actors \cup Streams : ReadStep(x)

Spec == Init /\ [][Next]_vars

\* Every goroutine that can go on does.  A writer that waits for the map lock
\* keeps new readers out (sync.RWMutex), so it gets the lock in the end.
Fairness ==
    /\ \A j \in Jobs : WF_vars(Runner(j))
    /\ \A a \in Actors : WF_vars(BroadcastLists(a) \/ BroadcastSends(a)) /\ SF_vars(Cleanup(a))
    /\ \A s \in Streams : WF_vars(StreamStep(s))
    /\ \A x \in Actors \cup Streams : WF_vars(ReadStep(x))

FairSpec == Spec /\ Fairness

-----------------------------------------------------------------------------
(* Properties. *)

Lists == UNION {[D -> Snapshot] : D \in SUBSET Jobs}

TypeOK ==
    /\ status \in [Jobs -> Status]
    /\ progress \in [Jobs -> 0..Items]
    /\ ctxDone \subseteq Jobs
    /\ listed \subseteq Jobs
    /\ pc \in [Actors -> {"off", "start", "loop", "item", "ended", "complete", "sleep", "over"}]
    /\ cast \in [Actors -> {"none", "list", "send"}]
    /\ left \in [Actors \cup Streams -> SUBSET Jobs]
    /\ view \in [Actors \cup Streams -> Lists]
    /\ subs \subseteq Streams
    /\ chan \in [Streams -> Seq(Lists)]
    /\ \A s \in Streams : Len(chan[s]) <= Cap
    /\ stream \in [Streams -> {"off", "list", "write", "wait"}]
    /\ seen \in [Streams -> Lists]

\* Nobody is about to tell stream s anything.
Settled(s) == /\ stream[s] = "wait"
              /\ chan[s] = <<>>
              /\ \A a \in Actors : cast[a] = "none"

CurrentList(s) == [j \in Scope(s) |-> SnapshotOf(j)]

\* jobs_handlers.go:94-112, jobs.go:457-467: once all broadcasts have been
\* made and taken, a user sees the registry as it is, although sends to a full
\* channel are dropped, broadcasts overtake each other and a list is read one
\* job at a time.
UserStreamCurrent == \A s \in UserStreams : Settled(s) => seen[s] = CurrentList(s)

\* jobs.go:457-467: a list that was overtaken on its way to a client is behind
\* the registry, never ahead of it: no client sees a job ended, or work done,
\* that a later change takes back.
StreamsNeverAhead ==
    \A s \in Streams : \A j \in DOMAIN seen[s] :
        /\ seen[s][j].progress <= progress[j]
        /\ seen[s][j].status \in Terminal => status[j] \in Terminal

\* jobs.go:176-182, 379-383: a job that has ended never runs again, whether or
\* not its runner had begun when it was cancelled.
EndedStaysEnded ==
    [][\A j \in Jobs : status[j] \in Terminal => status'[j] \in Terminal]_vars

\* jobs.go:365-388, 471-486: every registered job ends, by itself, by a failure
\* or by a cancellation, and is dropped from the registry.
JobsLeave == \A j \in Jobs : j \in listed ~> j \notin listed

\* jobs.go:164-221, 457-486, jobs_handlers.go:94-112: the manager implements the
\* board: whatever overtakes what, a job moves forward and leaves only when it
\* has ended, and no list a user is shown takes a step back, loses a job that is
\* still in the registry or tells of one of a higher level.
EntryOf(snapshot) ==
    [phase |-> IF snapshot.status \in Terminal THEN "ended" ELSE snapshot.status,
     work  |-> snapshot.progress]
EntriesOf(list) == [j \in DOMAIN list |-> EntryOf(list[j])]
Board == INSTANCE JobBoard WITH
    job   <- [j \in Jobs |-> EntryOf(SnapshotOf(j))],
    shown <- [s \in Streams |-> EntriesOf(seen[s])]
ImplementsBoard == Board!Spec

\* jobs_handlers.go:106-112: a user does not go on seeing a job as running
\* that has ended.
UserSeesEnd ==
    \A j \in Jobs : \A s \in UserStreams :
        status[j] \in Terminal ~>
            [](j \in DOMAIN seen[s] => seen[s][j].status \in Terminal)
=============================================================================
