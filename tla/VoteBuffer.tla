----------------------------- MODULE VoteBuffer -----------------------------
(***************************************************************************)
(* The Redis write-behind vote buffer: src/backend/cache/vote.go (votes),  *)
(* flush.go (the flush worker, the start-up preload) and the order in      *)
(* which main.go starts and stops them.                                    *)
(*                                                                         *)
(* A vote is one atomic Lua script on Redis.  One flush worker copies      *)
(* dirty entities into Postgres, one Redis command or one transaction per  *)
(* step here, so that votes, faults and the shutdown signal fall between   *)
(* any two of them.                                                        *)
(***************************************************************************)
EXTENDS Integers, FiniteSets, Functions

CONSTANTS Entities,  \* posts, comments and post tags
          Users,
          NTypes,    \* entity types, flushed one after the other
          TypeOf,    \* [Entities -> 1..NTypes]
          Gone,      \* entities with no row in the parent table
          FaultSets  \* choices of the FaultKinds that may happen

FaultKinds ==
    { "db",      \* a query or a transaction of Postgres fails
      "redis",   \* a Redis command of the flush worker fails
      "crash",   \* the backend process dies
      "loss" }   \* Redis loses its data

ASSUME VoteBufferAssumption ==
    /\ NTypes \in Nat \ {0}
    /\ IsFiniteSet(Users)
    /\ TypeOf \in [Entities -> 1..NTypes]
    /\ Gone \subseteq Entities
    /\ FaultSets \subseteq SUBSET FaultKinds

VARIABLES
    votes,      \* Redis votes:{type}:{id}, 0 where the hash has no field
    score,      \* Redis score:{type}:{id}, 0 where there is no such key
    scored,     \* the entities whose score key exists
    dirty,      \* Redis dirty:{type}, all types together
    deleted,    \* Redis deleted:{type}:{id}
    dbVotes,    \* rows of the vote tables, 0 where there is no row
    dbScore,    \* the score column of the parent tables
    pc,         \* where the flush worker is
    typ,        \* the entity type it is flushing
    final,      \* it runs the last flush, under context.Background()
    batch,      \* ids not yet dealt with in this flush
    unread,     \* ids the pipeline has not read completely
    cur,        \* the set holding the id being read or written
    redo,       \* ids about to be marked dirty again
    snap,       \* what the pipeline read
    accepting,  \* the HTTP server takes requests
    cancelled,  \* workerCtx is cancelled
    cut,        \* history: entities the signal cut off from being saved
    faults      \* the faults that may happen, chosen once

redisVars  == <<votes, score, scored, dirty, deleted>>
dbVars     == <<dbVotes, dbScore>>
flushVars  == <<pc, typ, final, batch, unread, cur, redo, snap>>
serverVars == <<accepting, cancelled, cut, faults>>
vars == <<redisVars, dbVars, flushVars, serverVars>>

Vote   == {-1, 0, 1}
NoVote == [u \in Users |-> 0]
Blank  == [votes |-> NoVote, score |-> 0, deleted |-> {}]

\* A call made with ctx can succeed, and can fail.
Alive == final \/ ~cancelled
RedisMayFail == ~Alive \/ "redis" \in faults

Init ==
    /\ votes = [e \in Entities |-> NoVote]
    /\ score = [e \in Entities |-> 0]
    /\ scored = {}
    /\ dirty = {}
    /\ deleted = [e \in Entities |-> {}]
    /\ dbVotes = votes
    /\ dbScore = score
    /\ pc = "idle"
    /\ typ = 1
    /\ final = FALSE
    /\ batch = {} /\ unread = {} /\ cur = {} /\ redo = {}
    /\ snap = [e \in Entities |-> Blank]
    /\ accepting = TRUE
    /\ cancelled = FALSE
    /\ cut = {}
    /\ faults \in FaultSets

-----------------------------------------------------------------------------
(* Votes: the Lua script of CastVote. *)

\* The new vote, the retraction mark, the score and the dirty mark change in
\* one atomic step; the last two only if the vote moved the score.
CastVote(e, u, v) ==
    LET delta == v - votes[e][u] IN
    /\ accepting
    /\ votes' = [votes EXCEPT ![e][u] = v]
    /\ deleted' = [deleted EXCEPT ![e] = IF v = 0 THEN @ \cup {u} ELSE @ \ {u}]
    /\ score' = [score EXCEPT ![e] = @ + delta]
    /\ scored' = IF delta = 0 THEN scored ELSE scored \cup {e}
    /\ dirty' = IF delta = 0 THEN dirty ELSE dirty \cup {e}
    /\ cut' = cut \ dirty'
    /\ UNCHANGED <<dbVars, flushVars, accepting, cancelled, faults>>

-----------------------------------------------------------------------------
(* The flush worker. *)

\* The worker's select: a tick starts a flush under ctx, even when ctx is
\* cancelled at the same moment; Done starts the last one under Background.
Tick ==
    /\ pc = "idle"
    /\ pc' = "grab"
    /\ UNCHANGED <<redisVars, dbVars, typ, final, batch, unread, cur, redo, snap, serverVars>>

\* Mutant: Done ends the worker without a last flush.
FinalFlushSkipped ==
    /\ pc = "idle"
    /\ cancelled
    /\ pc' = "stopped"
    /\ final' = TRUE
    /\ UNCHANGED <<redisVars, dbVars, typ, batch, unread, cur, redo, snap, serverVars>>

FinalFlush ==
    /\ pc = "idle"
    /\ cancelled
    /\ pc' = "grab"
    /\ final' = TRUE
    /\ UNCHANGED <<redisVars, dbVars, typ, batch, unread, cur, redo, snap, serverVars>>

\* Mutants: one type too many; the last flush is forgotten.
EndOfTypeOffByOne ==
    \/ /\ typ <= NTypes
       /\ typ' = typ + 1
       /\ pc' = "grab"
    \/ /\ typ > NTypes
       /\ typ' = 1
       /\ pc' = IF final THEN "stopped" ELSE "idle"

EndOfTypeAlwaysIdles ==
    \/ /\ typ < NTypes
       /\ typ' = typ + 1
       /\ pc' = "grab"
    \/ /\ typ = NTypes
       /\ typ' = 1
       /\ pc' = "idle"

\* flushAll goes on to the next entity type whether or not this one failed.
EndOfType ==
    \/ /\ typ < NTypes
       /\ typ' = typ + 1
       /\ pc' = "grab"
    \/ /\ typ = NTypes
       /\ typ' = 1
       /\ pc' = IF final THEN "stopped" ELSE "idle"

\* SMEMBERS dirty.
Grab ==
    /\ pc = "grab"
    /\ Alive
    /\ batch' = {e \in dirty : TypeOf[e] = typ}
    /\ \/ batch' # {} /\ pc' = "clear" /\ UNCHANGED typ
       \/ batch' = {} /\ EndOfType
    /\ UNCHANGED <<redisVars, dbVars, final, unread, cur, redo, snap, serverVars>>

GrabFails ==
    /\ pc = "grab"
    /\ RedisMayFail
    /\ EndOfType
    /\ UNCHANGED <<redisVars, dbVars, final, batch, unread, cur, redo, snap, serverVars>>

\* SREM dirty, before anything is read; its error is ignored.
ClearDirty ==
    /\ pc = "clear"
    /\ \/ Alive /\ dirty' = dirty \ batch
       \/ RedisMayFail /\ UNCHANGED dirty
    /\ pc' = "readVotes"
    /\ unread' = batch
    /\ UNCHANGED <<votes, score, scored, deleted, dbVars, typ, final, batch, cur, redo, snap, serverVars>>

\* The pipeline is no transaction: HGETALL, GET and SMEMBERS of one entity
\* after the other, with other clients' commands between any two.
ReadVotes(e) ==
    /\ pc = "readVotes"
    /\ e \in unread
    /\ Alive
    /\ cur' = {e}
    /\ snap' = [snap EXCEPT ![e].votes = votes[e]]
    /\ pc' = "readScore"
    /\ UNCHANGED <<redisVars, dbVars, typ, final, batch, unread, redo, serverVars>>

ReadScore(e) ==
    /\ pc = "readScore"
    /\ e \in cur
    /\ Alive
    /\ snap' = [snap EXCEPT ![e].score = score[e]]
    /\ pc' = "readDeleted"
    /\ UNCHANGED <<redisVars, dbVars, typ, final, batch, unread, cur, redo, serverVars>>

ReadDeleted(e) ==
    /\ pc = "readDeleted"
    /\ e \in cur
    /\ Alive
    /\ snap' = [snap EXCEPT ![e].deleted = deleted[e]]
    /\ cur' = {}
    /\ unread' = unread \ {e}
    /\ pc' = IF unread' = {} THEN "write" ELSE "readVotes"
    /\ UNCHANGED <<redisVars, dbVars, typ, final, batch, redo, serverVars>>

\* The whole pipeline fails: every id of the batch is to be marked again.
ReadFails ==
    /\ pc \in {"readVotes", "readScore", "readDeleted"}
    /\ RedisMayFail
    /\ cur' = {}
    /\ unread' = {}
    /\ redo' = batch
    /\ pc' = "remark"
    /\ UNCHANGED <<redisVars, dbVars, typ, final, batch, snap, serverVars>>

\* Mutant: only upserts.
SavedVotesUpsertOnly(e) ==
    [u \in Users |-> IF snap[e].votes[u] # 0 THEN snap[e].votes[u] ELSE dbVotes[e][u]]

\* What one transaction leaves in the vote table: the votes read are
\* upserted, then the users read from the deleted set lose their row.
SavedVotes(e) ==
    [u \in Users |-> IF u \in snap[e].deleted THEN 0
                     ELSE IF snap[e].votes[u] # 0 THEN snap[e].votes[u]
                     ELSE dbVotes[e][u]]

WriteEntity(e) ==
    /\ dbVotes' = [dbVotes EXCEPT ![e] = SavedVotes(e)]
    /\ dbScore' = IF e \in Gone THEN dbScore
                  ELSE [dbScore EXCEPT ![e] = snap[e].score]

\* The foreign key of the vote tables refuses rows of an entity that is gone.
ForeignKeyHolds(e) == e \notin Gone \/ snap[e].votes = NoVote

\* Mutant: the dirty mark is cleared once the transaction has committed.
WriteCommitsThenClears(e) ==
    /\ pc = "write"
    /\ e \in batch
    /\ Alive
    /\ ForeignKeyHolds(e)
    /\ WriteEntity(e)
    /\ dirty' = dirty \ {e}
    /\ cur' = {e}
    /\ pc' = "ack"
    /\ UNCHANGED <<votes, score, scored, deleted, typ, final, batch, unread, redo, snap, serverVars>>

WriteCommits(e) ==
    /\ pc = "write"
    /\ e \in batch
    /\ Alive
    /\ ForeignKeyHolds(e)
    /\ WriteEntity(e)
    /\ cur' = {e}
    /\ pc' = "ack"
    /\ UNCHANGED <<redisVars, typ, final, batch, unread, redo, snap, serverVars>>

\* The transaction reports an error: it rolled back, or, if only the answer
\* to COMMIT was lost, it did not.
WriteFails(e) ==
    /\ pc = "write"
    /\ e \in batch
    /\ ~Alive \/ "db" \in faults \/ ~ForeignKeyHolds(e)
    /\ \/ UNCHANGED dbVars
       \/ "db" \in faults /\ ForeignKeyHolds(e) /\ WriteEntity(e)
    /\ cur' = {}
    /\ redo' = {e}
    /\ pc' = "remark"
    /\ UNCHANGED <<redisVars, typ, final, batch, unread, snap, serverVars>>

\* The worker is through with the entities of S.
Leave(S) ==
    /\ batch' = batch \ S
    /\ snap' = [e \in Entities |-> IF e \in S THEN Blank ELSE snap[e]]
    /\ \/ batch' # {} /\ pc' = "write" /\ UNCHANGED typ
       \/ batch' = {} /\ EndOfType

\* Mutants: the entity is not marked again; one failure ends the whole batch.
RemarkForgotten ==
    /\ pc = "remark"
    /\ redo' = {}
    /\ Leave(redo)
    /\ UNCHANGED <<redisVars, dbVars, final, unread, cur, serverVars>>

RemarkEndsBatch ==
    /\ pc = "remark"
    /\ dirty' = dirty \cup redo
    /\ redo' = {}
    /\ Leave(batch)
    /\ UNCHANGED <<votes, score, scored, deleted, dbVars, final, unread, cur, serverVars>>

\* SADD dirty with the same context as the call that failed; its error is
\* ignored.
Remark ==
    /\ pc = "remark"
    /\ \/ Alive /\ dirty' = dirty \cup redo
       \/ RedisMayFail /\ UNCHANGED dirty
    /\ redo' = {}
    /\ Leave(redo)
    /\ UNCHANGED <<votes, score, scored, deleted, dbVars, final, unread, cur, serverVars>>

\* Mutant: DEL of the deleted set.
AckDropsSet(e) ==
    /\ pc = "ack"
    /\ e \in cur
    /\ deleted' = [deleted EXCEPT ![e] = {}]
    /\ cur' = {}
    /\ Leave({e})
    /\ UNCHANGED <<votes, score, scored, dirty, dbVars, final, unread, redo, serverVars>>

\* SREM from the deleted set the users this transaction removed.
Ack(e) ==
    /\ pc = "ack"
    /\ e \in cur
    /\ \/ Alive /\ deleted' = [deleted EXCEPT ![e] = @ \ snap[e].deleted]
       \/ RedisMayFail /\ UNCHANGED deleted
    /\ cur' = {}
    /\ Leave({e})
    /\ UNCHANGED <<votes, score, scored, dirty, dbVars, final, unread, redo, serverVars>>

-----------------------------------------------------------------------------
(* Shutdown, restart, and the loss of Redis. *)

\* srv.App.Shutdown() returns: no request is running and none will be taken.
StopAccepting ==
    /\ accepting
    /\ accepting' = FALSE
    /\ UNCHANGED <<redisVars, dbVars, flushVars, cancelled, cut, faults>>

\* The entities the worker has taken off the dirty set, or is about to, and has
\* not yet saved or marked again.
InFlight == IF pc = "ack" THEN batch \ cur ELSE batch

\* workerCancel() comes at any moment, also in the middle of a flush.  From then
\* on nothing that flush does succeeds: what it holds is neither saved nor
\* marked again, until a vote marks it.
CancelWorker ==
    /\ ~accepting
    /\ ~cancelled
    /\ cancelled' = TRUE
    /\ cut' = cut \cup (InFlight \ dirty)
    /\ UNCHANGED <<redisVars, dbVars, flushVars, accepting, faults>>

\* Mutant: SET instead of SETNX.
PreloadOverwrites(n) ==
    LET seeded == {e \in Entities : TypeOf[e] <= n /\ dbVotes[e] # NoVote} IN
    /\ scored' = scored \cup seeded
    /\ score' = [e \in Entities |-> IF e \in seeded THEN SumFunction(dbVotes[e])
                                    ELSE score[e]]

\* PreloadScores for the first n types: SETNX of the sum of the saved votes,
\* for the entities that have any.
Preload(n) ==
    LET seeded == {e \in Entities : /\ TypeOf[e] <= n
                                    /\ dbVotes[e] # NoVote
                                    /\ e \notin scored}
    IN  /\ scored' = scored \cup seeded
        /\ score' = [e \in Entities |-> IF e \in seeded THEN SumFunction(dbVotes[e])
                                        ELSE score[e]]

\* A new backend process after an orderly stop or a crash.  A preload that
\* fails at some type skips the rest and is not fatal.
Restart ==
    /\ pc = "stopped" \/ "crash" \in faults
    /\ \E n \in 0..NTypes : /\ n = NTypes \/ "db" \in faults \/ "redis" \in faults
                            /\ Preload(n)
    /\ pc' = "idle"
    /\ typ' = 1
    /\ final' = FALSE
    /\ batch' = {} /\ unread' = {} /\ cur' = {} /\ redo' = {}
    /\ snap' = [e \in Entities |-> Blank]
    /\ accepting' = TRUE
    /\ cancelled' = FALSE
    /\ UNCHANGED <<votes, dirty, deleted, dbVars, cut, faults>>

RedisLoss ==
    /\ "loss" \in faults
    /\ votes' = [e \in Entities |-> NoVote]
    /\ score' = [e \in Entities |-> 0]
    /\ scored' = {}
    /\ dirty' = {}
    /\ deleted' = [e \in Entities |-> {}]
    /\ UNCHANGED <<dbVars, flushVars, serverVars>>

-----------------------------------------------------------------------------
FlushStep ==
    \/ Tick \/ FinalFlush \/ Grab \/ GrabFails \/ ClearDirty \/ ReadFails \/ Remark
    \/ \E e \in Entities : \/ ReadVotes(e) \/ ReadScore(e) \/ ReadDeleted(e)
                           \/ WriteCommits(e) \/ WriteFails(e) \/ Ack(e)

Next ==
    \/ \E e \in Entities, u \in Users, v \in Vote : CastVote(e, u, v)
    \/ FlushStep
    \/ StopAccepting \/ CancelWorker \/ Restart \/ RedisLoss

Spec == Init /\ [][Next]_vars

\* The ticker keeps firing and a started flush goes on; when both a tick and
\* Done are ready, Go's select takes either, so Done is not passed over for
\* ever.
FairSpec == Spec /\ WF_vars(FlushStep) /\ SF_vars(FinalFlush)

-----------------------------------------------------------------------------
(* Properties. *)

TypeOK ==
    /\ votes \in [Entities -> [Users -> Vote]]
    /\ score \in [Entities -> Int]
    /\ scored \subseteq Entities
    /\ dirty \subseteq Entities
    /\ deleted \in [Entities -> SUBSET Users]
    /\ dbVotes \in [Entities -> [Users -> Vote]]
    /\ dbScore \in [Entities -> Int]
    /\ pc \in {"idle", "grab", "clear", "readVotes", "readScore", "readDeleted",
               "write", "remark", "ack", "stopped"}
    /\ typ \in 1..NTypes
    /\ final \in BOOLEAN
    /\ batch \subseteq Entities
    /\ unread \subseteq batch
    /\ cur \subseteq batch
    /\ redo \subseteq batch
    /\ snap \in [Entities -> [votes: [Users -> Vote], score: Int, deleted: SUBSET Users]]
    /\ accepting \in BOOLEAN
    /\ cancelled \in BOOLEAN
    /\ cut \subseteq Entities
    /\ faults \in FaultSets

Pending == dirty \cup InFlight

\* What the faults that may happen leave to be promised.
RedisKeeps     == "loss" \notin faults
OnlySavesFail  == faults \subseteq {"db"}
WorkerLives    == faults \subseteq {"db", "loss"}

InSync(e) == dbVotes[e] = votes[e] /\ dbScore[e] = score[e]

\* flush.go:128-130, 185: an entity that is neither marked dirty nor in the
\* hands of the worker has its votes and its score in Postgres, whatever
\* votes arrived between the commands of a flush and whatever transactions
\* failed; and only a shutdown signal that meets a flush cuts one off.
CleanAgrees ==
    OnlySavesFail => \A e \in Entities \ (Gone \cup cut) : e \notin Pending => InSync(e)

\* vote.go:46-54, flush.go:191-199: a vote row whose user has no vote in
\* Redis is remembered in the deleted set, so the next flush removes it; the
\* worker never drops the mark of a row that is still there.
RetractionsRemembered ==
    RedisKeeps => \A e \in Entities : \A u \in Users :
                      votes[e][u] = 0 /\ dbVotes[e][u] # 0 => u \in deleted[e]

\* vote.go:44-59: the score counts the present vote of each user once,
\* through re-votes, retractions, restarts and preloads.
ScoreIsSum ==
    RedisKeeps => \A e \in Entities : score[e] = SumFunction(votes[e])

\* flush.go:174-200: a transaction that no vote overtook leaves Postgres
\* equal to Redis for its entity, however far apart an earlier crash, lost
\* mark or failed preload had left them.
FlushRepairs ==
    RedisKeeps /\ pc = "ack" => \A e \in cur \ (dirty \cup Gone) : InSync(e)

\* flush.go:128-130: after a loss of Redis, every vote cast since then still
\* reaches its row.
CachedVotesSaved ==
    WorkerLives =>
      \A e \in Entities \ (Gone \cup Pending \cup cut) : \A u \in Users :
        votes[e][u] # 0 => dbVotes[e][u] = votes[e][u]

\* flush.go:37-39: when the worker has stopped, after its last flush, Postgres
\* has the votes of every entity but of those the signal cut off in the middle
\* of a flush: what that flush still had marked, the last one saves.
SavedAtExit == pc = "stopped" => \A e \in Entities \ (Gone \cup cut) : InSync(e)

\* flush.go:49-59: a vote that its user leaves alone reaches Postgres, even
\* while other votes keep coming and an entity that is gone fails every time,
\* unless the shutdown signal cuts its entity off.
VotesReachDatabase ==
    \A e \in Entities \ Gone : \A u \in Users : \A v \in Vote :
        votes[e][u] = v ~> (dbVotes[e][u] = v \/ votes[e][u] # v \/ e \in cut)

\* flush.go:51-54, main.go:105-106: the shutdown that waits for the worker
\* ends.
ShutdownEnds == cancelled ~> pc = "stopped"

\* While saves are all that fails the buffer implements the ledger: Redis is
\* live, Postgres is stored, and an entity is pending while it is dirty, in
\* flight or cut off.  (Ledger!Spec, under the condition.)
Ledger == INSTANCE VoteLedger WITH
    live <- votes, liveScore <- score,
    stored <- dbVotes, storedScore <- dbScore, pending <- Pending \cup cut
ImplementsLedger ==
    /\ OnlySavesFail => Ledger!Init
    /\ [][OnlySavesFail => [Ledger!Next]_(Ledger!ledgerVars)]_vars
=============================================================================
