-------------------------- MODULE VoteBufferProofs --------------------------
(***************************************************************************)
(* Proofs about VoteBuffer, for any number of entities, users and entity   *)
(* types, and for every choice of faults: what a property promises under   *)
(* which faults is part of the property.                                   *)
(***************************************************************************)
EXTENDS VoteBuffer, SumTheorems, TLAPS

Reading == {"readVotes", "readScore", "readDeleted"}

\* Where the worker's sets stand at each of its steps.
Stages ==
    /\ pc \notin Reading => unread = {}
    /\ pc # "remark" => redo = {}
    /\ pc \notin {"readScore", "readDeleted", "ack"} => cur = {}
    /\ pc \in {"idle", "grab", "stopped"} => batch = {}
    /\ \A e, f \in cur : e = f

\* A vote that exists anywhere has made the score key exist.
Seeded ==
    \A e \in Entities :
        e \notin scored => /\ votes[e] = NoVote
                           /\ dbVotes[e] = NoVote
                           /\ snap[e].votes = NoVote

\* The deleted set holds no user with a vote.
DeletedUnvoted == \A e \in Entities : \A u \in deleted[e] : votes[e][u] = 0

\* A vote the worker has read and not yet written is still there or its
\* retraction is remembered.
ReadRetractionsRemembered ==
    \A e \in Entities : \A u \in Users :
        votes[e][u] = 0 /\ snap[e].votes[u] # 0 => u \in deleted[e]

\* The users about to leave the deleted set have no row.
AckedRowsGone ==
    pc = "ack" => \A e \in cur : \A u \in snap[e].deleted : dbVotes[e][u] = 0

\* What the pipeline has read so far of an entity of the batch.
DeletedRead(e) ==
    pc \in Reading \cup {"write", "remark", "ack"} /\ e \in batch \ (unread \cup redo)
VotesRead(e) == DeletedRead(e) \/ (pc \in {"readScore", "readDeleted"} /\ e \in cur)
ScoreRead(e) == DeletedRead(e) \/ (pc = "readDeleted" /\ e \in cur)

\* What has been read of an entity that is not dirty again is current.
Fresh ==
    \A e \in Entities \ dirty :
        /\ VotesRead(e) => snap[e].votes = votes[e]
        /\ ScoreRead(e) => snap[e].score = score[e]
        /\ DeletedRead(e) => \A u \in Users :
              /\ u \in snap[e].deleted => votes[e][u] = 0
              /\ votes[e][u] = 0 /\ dbVotes[e][u] # 0 => u \in snap[e].deleted

\* The invariant that needs no more than that Redis keeps its data.
LosslessInv ==
    /\ TypeOK
    /\ Stages
    /\ Seeded
    /\ DeletedUnvoted
    /\ RetractionsRemembered
    /\ ReadRetractionsRemembered
    /\ AckedRowsGone
    /\ Fresh
    /\ FlushRepairs

\* After the signal a flush can do no more harm than to what was cut off.
CutHeld ==
    /\ final => cancelled
    /\ ~Alive => InFlight \subseteq dirty \cup cut

\* What is cut off is not marked, and no flush that can save holds it.
CutApart ==
    /\ cut \cap dirty = {}
    /\ Alive => cut \cap batch = {}

SyncInv == LosslessInv /\ CutHeld /\ CutApart /\ CleanAgrees

-----------------------------------------------------------------------------
(* A preload that finds Redis intact writes nothing. *)

LEMMA PreloadIsIdle ==
    ASSUME TypeOK, Seeded, NEW n \in 0..NTypes, Preload(n)
    PROVE  scored' = scored /\ score' = score
<1>1. {e \in Entities : /\ TypeOf[e] <= n
                        /\ dbVotes[e] # NoVote
                        /\ e \notin scored} = {}
  BY DEF Seeded
<1>2. scored' = scored
  BY <1>1 DEF Preload
<1>3. score' = [e \in Entities |-> score[e]]
  BY <1>1 DEF Preload
<1>4. score' = score
  BY <1>3 DEF TypeOK
<1> QED
  BY <1>2, <1>4

LEMMA RestartKeepsRedis ==
    ASSUME TypeOK, Seeded, Restart
    PROVE  UNCHANGED <<redisVars, dbVars>>
<1>1. PICK n \in 0..NTypes : Preload(n)
  BY DEF Restart
<1> QED
  BY <1>1, PreloadIsIdle DEF Restart, redisVars, dbVars

LEMMA DeltaZero ==
    ASSUME NEW a \in Int, NEW b \in Int
    PROVE  a - b = 0 <=> a = b
  OBVIOUS

LEMMA VoteIsInt ==
    ASSUME TypeOK, NEW e \in Entities, NEW u \in Users, NEW v \in Vote
    PROVE  votes[e][u] \in Int /\ v \in Int
<1>1. votes[e] \in [Users -> Vote]
  BY DEF TypeOK
<1>2. votes[e][u] \in Vote
  BY <1>1
<1> QED
  BY <1>2 DEF Vote

LEMMA WriteEntityType ==
    ASSUME TypeOK, NEW e \in Entities, WriteEntity(e)
    PROVE  /\ dbVotes' \in [Entities -> [Users -> Vote]]
           /\ dbScore' \in [Entities -> Int]
<1>1. SavedVotes(e) \in [Users -> Vote]
  BY DEF TypeOK, SavedVotes, Vote
<1> QED
  BY <1>1 DEF TypeOK, WriteEntity

LEMMA LeaveTypes ==
    ASSUME TypeOK, NEW S, Leave(S)
    PROVE  /\ batch' = batch \ S
           /\ snap' \in [Entities -> [votes: [Users -> Vote], score: Int, deleted: SUBSET Users]]
           /\ pc' \in {"write", "grab", "stopped", "idle"}
           /\ typ' \in 1..NTypes
<1>1. Blank \in [votes: [Users -> Vote], score: Int, deleted: SUBSET Users]
  BY DEF Blank, NoVote, Vote
<1>2. snap' \in [Entities -> [votes: [Users -> Vote], score: Int, deleted: SUBSET Users]]
  BY <1>1 DEF Leave, TypeOK
<1>3. EndOfType => pc' \in {"grab", "stopped", "idle"} /\ typ' \in 1..NTypes
  BY VoteBufferAssumption DEF EndOfType, TypeOK
<1> QED
  BY <1>2, <1>3 DEF Leave, TypeOK

LEMMA VotesAreInts == \A w \in [Users -> Vote] : w \in [Users -> Int]
<1>1. Vote \subseteq Int
  BY DEF Vote
<1> QED
  BY <1>1

LEMMA PreloadTypes ==
    ASSUME TypeOK, NEW n \in 0..NTypes, Preload(n)
    PROVE  scored' \subseteq Entities /\ score' \in [Entities -> Int]
<1>1. IsFiniteSet(Users)
  BY VoteBufferAssumption DEF VoteBufferAssumption
<1>2. ASSUME NEW e \in Entities PROVE SumFunction(dbVotes[e]) \in Int
  <2>1. dbVotes[e] \in [Users -> Int]
    BY VotesAreInts DEF TypeOK
  <2> QED
    BY <1>1, <2>1, SumType
<1> QED
  BY <1>2 DEF Preload, TypeOK

LEMMA TypeStep ==
    ASSUME TypeOK, Stages, [Next]_vars
    PROVE  TypeOK'
<1> USE VoteBufferAssumption DEF TypeOK, redisVars, dbVars, flushVars, serverVars
<1>1. ASSUME NEW e \in Entities, NEW u \in Users, NEW v \in Vote, CastVote(e, u, v)
      PROVE  TypeOK'
  <2>1. votes' \in [Entities -> [Users -> Vote]]
    BY <1>1 DEF CastVote
  <2>2. deleted' \in [Entities -> SUBSET Users]
    BY <1>1 DEF CastVote
  <2>3. votes[e][u] \in Int /\ v \in Int
    BY VoteIsInt
  <2>4. score' \in [Entities -> Int]
    BY <1>1, <2>3 DEF CastVote
  <2>5. scored' \subseteq Entities /\ dirty' \subseteq Entities
    BY <1>1 DEF CastVote
  <2> QED
    BY <1>1, <2>1, <2>2, <2>4, <2>5 DEF CastVote
<1>2. CASE Tick
  BY <1>2 DEF Tick
<1>3. CASE FinalFlush
  BY <1>3 DEF FinalFlush
<1>4. CASE Grab
  BY <1>4 DEF Grab, EndOfType, Stages, Reading
<1>5. CASE GrabFails
  BY <1>5 DEF GrabFails, EndOfType
<1>6. CASE ClearDirty
  BY <1>6 DEF ClearDirty, Stages
<1>7. CASE ReadFails
  BY <1>7 DEF ReadFails
<1>8. CASE Remark
  <2>1. Leave(redo) /\ unread = {} /\ cur = {} /\ redo' = {} /\ dirty' \subseteq Entities
    BY <1>8 DEF Remark, Stages, Reading
  <2> QED
    BY <1>8, <2>1, LeaveTypes DEF Remark
<1>9. ASSUME NEW e \in Entities, ReadVotes(e)
      PROVE  TypeOK'
  BY <1>9 DEF ReadVotes
<1>10. ASSUME NEW e \in Entities, ReadScore(e)
       PROVE  TypeOK'
  BY <1>10 DEF ReadScore
<1>11. ASSUME NEW e \in Entities, ReadDeleted(e)
       PROVE  TypeOK'
  BY <1>11 DEF ReadDeleted
<1>12. ASSUME NEW e \in Entities, WriteCommits(e)
       PROVE  TypeOK'
  BY <1>12, WriteEntityType DEF WriteCommits
<1>13. ASSUME NEW e \in Entities, WriteFails(e)
       PROVE  TypeOK'
  <2>1. dbVotes' \in [Entities -> [Users -> Vote]] /\ dbScore' \in [Entities -> Int]
    BY <1>13, WriteEntityType DEF WriteFails
  <2> QED
    BY <1>13, <2>1 DEF WriteFails
<1>14. ASSUME NEW e \in Entities, Ack(e)
       PROVE  TypeOK'
  <2>1. Leave({e}) /\ unread = {} /\ redo = {} /\ cur' = {}
    BY <1>14 DEF Ack, Stages, Reading
  <2>2. deleted' \in [Entities -> SUBSET Users]
    BY <1>14 DEF Ack
  <2> QED
    BY <1>14, <2>1, <2>2, LeaveTypes DEF Ack
<1>15. CASE StopAccepting
  BY <1>15 DEF StopAccepting
<1>16. CASE CancelWorker
  BY <1>16 DEF CancelWorker, InFlight
<1>17. CASE Restart
  <2>1. scored' \subseteq Entities /\ score' \in [Entities -> Int]
    BY <1>17, PreloadTypes DEF Restart
  <2>2. snap' \in [Entities -> [votes: [Users -> Vote], score: Int, deleted: SUBSET Users]]
    BY <1>17 DEF Restart, Blank, NoVote, Vote
  <2>3. 1 \in 1..NTypes
    OBVIOUS
  <2> QED
    BY <1>17, <2>1, <2>2, <2>3 DEF Restart
<1>18. CASE UNCHANGED vars
  BY <1>18 DEF vars
<1>19. CASE RedisLoss
  <2>1. votes' \in [Entities -> [Users -> Vote]]
    BY <1>19 DEF RedisLoss, NoVote, Vote
  <2>2. score' \in [Entities -> Int] /\ deleted' \in [Entities -> SUBSET Users]
    BY <1>19 DEF RedisLoss
  <2> QED
    BY <1>19, <2>1, <2>2 DEF RedisLoss
<1> QED
  BY <1>1, <1>2, <1>3, <1>4, <1>5, <1>6, <1>7, <1>8, <1>9, <1>10, <1>11, <1>12, <1>13,
     <1>14, <1>15, <1>16, <1>17, <1>18, <1>19 DEF Next, FlushStep

LEMMA StagesStep ==
    ASSUME TypeOK, Stages, [Next]_vars
    PROVE  Stages'
<1> USE DEF TypeOK, Stages, Reading, redisVars, dbVars, flushVars, serverVars
<1>1. CASE Tick \/ FinalFlush \/ Grab \/ GrabFails \/ ClearDirty \/ ReadFails
  BY <1>1 DEF Tick, FinalFlush, Grab, GrabFails, ClearDirty, ReadFails, EndOfType
<1>2. CASE Remark
  BY <1>2 DEF Remark, Leave, EndOfType
<1>3. ASSUME NEW e \in Entities, ReadVotes(e) \/ ReadScore(e) \/ ReadDeleted(e)
      PROVE  Stages'
  BY <1>3 DEF ReadVotes, ReadScore, ReadDeleted
<1>4. ASSUME NEW e \in Entities, WriteCommits(e) \/ WriteFails(e)
      PROVE  Stages'
  BY <1>4 DEF WriteCommits, WriteFails
<1>5. ASSUME NEW e \in Entities, Ack(e)
      PROVE  Stages'
  BY <1>5 DEF Ack, Leave, EndOfType
<1>6. CASE StopAccepting \/ CancelWorker \/ Restart \/ RedisLoss \/ UNCHANGED vars
  BY <1>6 DEF StopAccepting, CancelWorker, Restart, RedisLoss, vars
<1>7. ASSUME NEW e \in Entities, NEW u \in Users, NEW v \in Vote, CastVote(e, u, v)
      PROVE  Stages'
  BY <1>7 DEF CastVote
<1> QED
  BY <1>1, <1>2, <1>3, <1>4, <1>5, <1>6, <1>7 DEF Next, FlushStep

LEMMA SeededStep ==
    ASSUME RedisKeeps, TypeOK, Seeded, [Next]_vars
    PROVE  Seeded'
<1> USE DEF TypeOK, Seeded, redisVars, dbVars, flushVars, serverVars
<1>1. ASSUME NEW e \in Entities, NEW u \in Users, NEW v \in Vote, CastVote(e, u, v)
      PROVE  Seeded'
  <2>1. CASE votes[e][u] = v
    <3>1. votes' = votes
      BY <1>1, <2>1 DEF CastVote
    <3> QED
      BY <1>1, <3>1 DEF CastVote
  <2>2. CASE votes[e][u] # v
    <3>1. v - votes[e][u] # 0
      BY <2>2, VoteIsInt, DeltaZero
    <3>2. scored' = scored \cup {e}
      BY <1>1, <3>1 DEF CastVote
    <3>3. \A f \in Entities \ {e} : votes'[f] = votes[f]
      BY <1>1 DEF CastVote
    <3> QED
      BY <1>1, <3>2, <3>3 DEF CastVote
  <2> QED
    BY <2>1, <2>2
<1>2. CASE Tick \/ FinalFlush \/ Grab \/ GrabFails \/ ClearDirty \/ ReadFails
  BY <1>2 DEF Tick, FinalFlush, Grab, GrabFails, ClearDirty, ReadFails
<1>3. CASE Remark
  BY <1>3 DEF Remark, Leave, Blank
<1>4. ASSUME NEW e \in Entities, ReadVotes(e) \/ ReadScore(e) \/ ReadDeleted(e)
      PROVE  Seeded'
  <2>1. CASE ReadVotes(e)
    BY <2>1 DEF ReadVotes
  <2>2. CASE ReadScore(e)
    BY <2>2 DEF ReadScore
  <2>3. CASE ReadDeleted(e)
    BY <2>3 DEF ReadDeleted
  <2> QED
    BY <1>4, <2>1, <2>2, <2>3
<1>5. ASSUME NEW e \in Entities, WriteEntity(e), e \notin scored
      PROVE  dbVotes'[e] = NoVote
  BY <1>5 DEF WriteEntity, SavedVotes, NoVote
<1>6. ASSUME NEW e \in Entities, WriteCommits(e) \/ WriteFails(e)
      PROVE  Seeded'
  BY <1>5, <1>6 DEF WriteCommits, WriteFails, WriteEntity
<1>7. ASSUME NEW e \in Entities, Ack(e)
      PROVE  Seeded'
  BY <1>7 DEF Ack, Leave, Blank
<1>8. CASE Restart
  BY <1>8, RestartKeepsRedis DEF Restart, Blank
<1>9. CASE StopAccepting \/ CancelWorker \/ UNCHANGED vars
  BY <1>9 DEF StopAccepting, CancelWorker, vars
<1> QED
  BY <1>1, <1>2, <1>3, <1>4, <1>6, <1>7, <1>8, <1>9 DEF Next, FlushStep, RedisLoss, RedisKeeps

\* The two retraction marks of an entity and the votes they are about.
LEMMA RetractionStep ==
    ASSUME RedisKeeps, TypeOK, Stages, Seeded, DeletedUnvoted,
           RetractionsRemembered, ReadRetractionsRemembered, AckedRowsGone, [Next]_vars
    PROVE  /\ DeletedUnvoted'
           /\ RetractionsRemembered'
           /\ ReadRetractionsRemembered'
           /\ AckedRowsGone'
<1> USE DEF TypeOK, DeletedUnvoted, RetractionsRemembered, ReadRetractionsRemembered,
            AckedRowsGone, redisVars, dbVars, flushVars, serverVars
<1> DEFINE Goal == /\ DeletedUnvoted'
                   /\ RetractionsRemembered'
                   /\ ReadRetractionsRemembered'
                   /\ AckedRowsGone'
<1>1. ASSUME NEW e \in Entities, NEW u \in Users, NEW v \in Vote, CastVote(e, u, v)
      PROVE  Goal
  <2>1. DeletedUnvoted'
    BY <1>1 DEF CastVote
  <2>2. RetractionsRemembered'
    BY <1>1 DEF CastVote
  <2>3. ReadRetractionsRemembered'
    BY <1>1 DEF CastVote
  <2> QED
    BY <1>1, <2>1, <2>2, <2>3 DEF CastVote
<1>2. CASE Tick \/ FinalFlush \/ Grab \/ GrabFails \/ ClearDirty \/ ReadFails
  BY <1>2 DEF Tick, FinalFlush, Grab, GrabFails, ClearDirty, ReadFails, EndOfType
<1>3. CASE Remark
  BY <1>3 DEF Remark, Leave, EndOfType, Blank, NoVote
<1>4. ASSUME NEW e \in Entities, ReadVotes(e) \/ ReadScore(e) \/ ReadDeleted(e)
      PROVE  Goal
  <2>1. CASE ReadVotes(e)
    BY <2>1 DEF ReadVotes
  <2>2. CASE ReadScore(e)
    BY <2>2 DEF ReadScore
  <2>3. CASE ReadDeleted(e)
    BY <2>3 DEF ReadDeleted
  <2> QED
    BY <1>4, <2>1, <2>2, <2>3
<1>5. ASSUME NEW e \in Entities, WriteEntity(e)
      PROVE  /\ \A f \in Entities \ {e} : dbVotes'[f] = dbVotes[f]
             /\ \A u \in Users :
                   /\ u \in snap[e].deleted => dbVotes'[e][u] = 0
                   /\ dbVotes'[e][u] # 0 => snap[e].votes[u] # 0 \/ dbVotes[e][u] # 0
  BY <1>5 DEF WriteEntity, SavedVotes
<1>5a. ASSUME NEW e \in Entities, WriteEntity(e), UNCHANGED <<votes, deleted, snap>>
       PROVE  RetractionsRemembered'
  <2>1. SUFFICES ASSUME NEW f \in Entities, NEW u \in Users, votes[f][u] = 0, dbVotes'[f][u] # 0
                 PROVE  u \in deleted[f]
    BY <1>5a
  <2>2. CASE f # e
    BY <1>5, <1>5a, <2>1, <2>2
  <2>3. CASE f = e
    <3>1. snap[e].votes[u] # 0 \/ dbVotes[e][u] # 0
      BY <1>5, <1>5a, <2>1, <2>3
    <3> QED
      BY <2>1, <2>3, <3>1
  <2> QED
    BY <2>2, <2>3
<1>6. ASSUME NEW e \in Entities, WriteCommits(e)
      PROVE  Goal
  <2>1. /\ WriteEntity(e)
        /\ UNCHANGED <<votes, deleted, snap>>
        /\ cur' = {e}
    BY <1>6 DEF WriteCommits
  <2>2. DeletedUnvoted' /\ ReadRetractionsRemembered'
    BY <2>1
  <2>3. RetractionsRemembered'
    BY <1>5a, <2>1
  <2>4. AckedRowsGone'
    BY <1>5, <2>1
  <2> QED
    BY <2>2, <2>3, <2>4
<1>7. ASSUME NEW e \in Entities, WriteFails(e)
      PROVE  Goal
  <2>1. /\ UNCHANGED <<votes, deleted, snap>>
        /\ pc' = "remark" /\ cur' = {}
    BY <1>7 DEF WriteFails
  <2>2. WriteEntity(e) \/ UNCHANGED dbVotes
    BY <1>7 DEF WriteFails
  <2>3. DeletedUnvoted' /\ ReadRetractionsRemembered' /\ AckedRowsGone'
    BY <2>1
  <2>4. RetractionsRemembered'
    <3>1. CASE WriteEntity(e)
      BY <1>5a, <2>1, <3>1
    <3>2. CASE UNCHANGED dbVotes
      BY <2>1, <3>2
    <3> QED
      BY <2>2, <3>1, <3>2
  <2> QED
    BY <2>3, <2>4
<1>8. ASSUME NEW e \in Entities, Ack(e)
      PROVE  Goal
  <2>1. pc = "ack" /\ e \in cur /\ \A u \in snap[e].deleted : dbVotes[e][u] = 0
    BY <1>8 DEF Ack
  <2>2. snap' = [f \in Entities |-> IF f \in {e} THEN Blank ELSE snap[f]]
    BY <1>8 DEF Ack, Leave
  <2>3. \A f \in Entities :
            \/ deleted'[f] = deleted[f]
            \/ f = e /\ deleted'[f] = deleted[f] \ snap[f].deleted
    BY <1>8 DEF Ack
  <2>4. /\ UNCHANGED <<votes, dbVotes>>
        /\ pc' # "ack"
    BY <1>8 DEF Ack, Leave, EndOfType
  <2>5. DeletedUnvoted' /\ AckedRowsGone'
    BY <2>3, <2>4
  <2>6. RetractionsRemembered'
    <3>1. SUFFICES ASSUME NEW f \in Entities, NEW u \in Users,
                          votes[f][u] = 0, dbVotes[f][u] # 0
                   PROVE  u \in deleted'[f]
      BY <2>4
    <3>2. u \in deleted[f]
      BY <3>1
    <3>3. f = e => u \notin snap[f].deleted
      BY <2>1, <3>1
    <3> QED
      BY <2>3, <3>2, <3>3
  <2>7. ReadRetractionsRemembered'
    BY <2>1, <2>2, <2>3, <2>4 DEF Blank, NoVote
  <2> QED
    BY <2>5, <2>6, <2>7
<1>9. CASE Restart
  BY <1>9, RestartKeepsRedis DEF Restart, Blank, NoVote
<1>10. CASE StopAccepting \/ CancelWorker \/ UNCHANGED vars
  BY <1>10 DEF StopAccepting, CancelWorker, vars
<1> QED
  BY <1>1, <1>2, <1>3, <1>4, <1>6, <1>7, <1>8, <1>9, <1>10 DEF Next, FlushStep, RedisLoss, RedisKeeps

\* A vote that moves nothing leaves its entity alone; one that does marks it
\* dirty.
LEMMA CastMarks ==
    ASSUME TypeOK, NEW e \in Entities, NEW u \in Users, NEW v \in Vote, CastVote(e, u, v)
    PROVE  /\ dirty \subseteq dirty'
           /\ \A f \in Entities \ dirty' : votes'[f] = votes[f] /\ score'[f] = score[f]
<1>1. votes[e][u] \in Int /\ v \in Int /\ score[e] \in Int
  BY VoteIsInt DEF TypeOK
<1>2. dirty \subseteq dirty'
  BY DEF CastVote
<1>3. \A f \in Entities \ {e} : votes'[f] = votes[f] /\ score'[f] = score[f]
  BY DEF CastVote, TypeOK
<1>4. CASE votes[e][u] = v
  <2>1. votes'[e] = votes[e]
    BY <1>4 DEF CastVote, TypeOK
  <2>2. v - votes[e][u] = 0
    BY <1>1, <1>4
  <2>3. score'[e] = score[e]
    BY <1>1, <2>2 DEF CastVote, TypeOK
  <2> QED
    BY <1>2, <1>3, <2>1, <2>3
<1>5. CASE votes[e][u] # v
  <2>1. v - votes[e][u] # 0
    BY <1>1, <1>5, DeltaZero
  <2>2. e \in dirty'
    BY <2>1 DEF CastVote
  <2> QED
    BY <1>2, <1>3, <2>2
<1> QED
  BY <1>4, <1>5

LEMMA FreshStep ==
    ASSUME RedisKeeps, TypeOK, Stages, Seeded, DeletedUnvoted,
           RetractionsRemembered, Fresh, [Next]_vars
    PROVE  Fresh'
<1> USE DEF TypeOK, redisVars, dbVars, flushVars, serverVars
<1> USE DEF Fresh, DeletedRead, VotesRead, ScoreRead, Reading
<1>1. ASSUME NEW e \in Entities, NEW u \in Users, NEW v \in Vote, CastVote(e, u, v)
      PROVE  Fresh'
  <2>1. /\ dirty \subseteq dirty'
        /\ \A f \in Entities \ dirty' : votes'[f] = votes[f] /\ score'[f] = score[f]
    BY <1>1, CastMarks
  <2>2. UNCHANGED <<dbVotes, pc, batch, unread, cur, redo, snap>>
    BY <1>1 DEF CastVote
  <2> QED
    BY <2>1, <2>2
<1>2. CASE Tick \/ FinalFlush \/ Grab \/ GrabFails \/ ClearDirty
  BY <1>2 DEF Tick, FinalFlush, Grab, GrabFails, ClearDirty, EndOfType, Stages
<1>3. CASE ReadFails
  BY <1>3 DEF ReadFails
<1>4. CASE Remark
  <2>1. /\ UNCHANGED <<votes, score, dbVotes, cur, unread>>
        /\ dirty \subseteq dirty'
        /\ batch' = batch \ redo
        /\ redo' = {}
        /\ snap' = [e \in Entities |-> IF e \in redo THEN Blank ELSE snap[e]]
        /\ pc' \in {"write", "grab", "idle", "stopped"}
        /\ pc = "remark"
    BY <1>4 DEF Remark, Leave, EndOfType
  <2> QED
    BY <2>1
<1>5. ASSUME NEW e \in Entities, ReadVotes(e)
      PROVE  Fresh'
  BY <1>5 DEF ReadVotes, Stages
<1>6. ASSUME NEW e \in Entities, ReadScore(e)
      PROVE  Fresh'
  BY <1>6 DEF ReadScore, Stages
<1>7. ASSUME NEW e \in Entities, ReadDeleted(e)
      PROVE  Fresh'
  BY <1>7 DEF ReadDeleted, Stages, DeletedUnvoted, RetractionsRemembered
<1>8. ASSUME NEW e \in Entities, WriteCommits(e)
      PROVE  Fresh'
  BY <1>8 DEF WriteCommits, WriteEntity, SavedVotes, Stages
<1>9. ASSUME NEW e \in Entities, WriteFails(e)
      PROVE  Fresh'
  BY <1>9 DEF WriteFails, WriteEntity, Stages
<1>10. ASSUME NEW e \in Entities, Ack(e)
       PROVE  Fresh'
  <2>1. /\ UNCHANGED <<votes, score, dirty, dbVotes, unread, redo>>
        /\ cur' = {}
        /\ batch' = batch \ {e}
        /\ snap' = [f \in Entities |-> IF f \in {e} THEN Blank ELSE snap[f]]
        /\ pc' \in {"write", "grab", "idle", "stopped"}
        /\ pc = "ack"
    BY <1>10 DEF Ack, Leave, EndOfType
  <2> QED
    BY <2>1
<1>11. CASE Restart
  BY <1>11, RestartKeepsRedis DEF Restart
<1>12. CASE StopAccepting \/ CancelWorker \/ UNCHANGED vars
  BY <1>12 DEF StopAccepting, CancelWorker, vars
<1> QED
  BY <1>1, <1>2, <1>3, <1>4, <1>5, <1>6, <1>7, <1>8, <1>9, <1>10, <1>11, <1>12
     DEF Next, FlushStep, RedisLoss, RedisKeeps

LEMMA RepairStep ==
    ASSUME RedisKeeps, TypeOK, Stages, Fresh, FlushRepairs, [Next]_vars
    PROVE  FlushRepairs'
<1> USE DEF TypeOK, FlushRepairs, InSync, redisVars, dbVars, flushVars, serverVars
<1>1. ASSUME NEW e \in Entities, NEW u \in Users, NEW v \in Vote, CastVote(e, u, v)
      PROVE  FlushRepairs'
  <2>1. /\ dirty \subseteq dirty'
        /\ \A f \in Entities \ dirty' : votes'[f] = votes[f] /\ score'[f] = score[f]
    BY <1>1, CastMarks
  <2>2. UNCHANGED <<dbVotes, dbScore, pc, cur>>
    BY <1>1 DEF CastVote
  <2> QED
    BY <2>1, <2>2
<1>2. CASE Tick \/ FinalFlush \/ Grab \/ GrabFails \/ ClearDirty \/ ReadFails
  BY <1>2 DEF Tick, FinalFlush, Grab, GrabFails, ClearDirty, ReadFails, EndOfType
<1>3. CASE Remark
  BY <1>3 DEF Remark, Leave, EndOfType
<1>4. ASSUME NEW e \in Entities, ReadVotes(e) \/ ReadScore(e) \/ ReadDeleted(e)
      PROVE  FlushRepairs'
  BY <1>4 DEF ReadVotes, ReadScore, ReadDeleted
<1>5. ASSUME NEW e \in Entities, WriteCommits(e)
      PROVE  FlushRepairs'
  <2>1. SUFFICES ASSUME e \notin dirty, e \notin Gone
                 PROVE  InSync(e)'
    BY <1>5 DEF WriteCommits
  <2>2. DeletedRead(e) /\ VotesRead(e) /\ ScoreRead(e)
    BY <1>5 DEF WriteCommits, DeletedRead, VotesRead, ScoreRead, Stages, Reading
  <2>3. dbScore'[e] = score'[e]
    BY <1>5, <2>1, <2>2 DEF WriteCommits, WriteEntity, Fresh
  <2>4. dbVotes'[e] = SavedVotes(e) /\ votes' = votes
    BY <1>5 DEF WriteCommits, WriteEntity
  <2>5. \A u \in Users : SavedVotes(e)[u] = votes[e][u]
    BY <2>1, <2>2 DEF SavedVotes, Fresh
  <2>6. votes[e] \in [Users -> Vote]
    OBVIOUS
  <2>7. SavedVotes(e) = votes[e]
    BY <2>5, <2>6 DEF SavedVotes
  <2> QED
    BY <2>3, <2>4, <2>7
<1>6. ASSUME NEW e \in Entities, WriteFails(e)
      PROVE  FlushRepairs'
  BY <1>6 DEF WriteFails
<1>7. ASSUME NEW e \in Entities, Ack(e)
      PROVE  FlushRepairs'
  BY <1>7 DEF Ack, Leave, EndOfType
<1>8. CASE StopAccepting \/ CancelWorker \/ Restart \/ UNCHANGED vars
  BY <1>8 DEF StopAccepting, CancelWorker, Restart, vars
<1> QED
  BY <1>1, <1>2, <1>3, <1>4, <1>5, <1>6, <1>7, <1>8 DEF Next, FlushStep, RedisLoss, RedisKeeps

-----------------------------------------------------------------------------
(* The theorems. *)

LEMMA LosslessInit == Init => LosslessInv
<1> SUFFICES ASSUME Init PROVE LosslessInv
  OBVIOUS
<1> USE VoteBufferAssumption DEF Init
<1>1. TypeOK
  <2>1. NoVote \in [Users -> Vote] /\ 1 \in 1..NTypes
    BY DEF NoVote, Vote
  <2>2. Blank \in [votes: [Users -> Vote], score: Int, deleted: SUBSET Users]
    BY <2>1 DEF Blank
  <2>3. /\ votes \in [Entities -> [Users -> Vote]]
        /\ dbVotes \in [Entities -> [Users -> Vote]]
    BY <2>1
  <2>4. snap \in [Entities -> [votes: [Users -> Vote], score: Int, deleted: SUBSET Users]]
    BY <2>2
  <2>5. /\ score \in [Entities -> Int]
        /\ dbScore \in [Entities -> Int]
        /\ deleted \in [Entities -> SUBSET Users]
    OBVIOUS
  <2>6. typ \in 1..NTypes
    BY <2>1
  <2>7. scored \subseteq Entities /\ dirty \subseteq Entities /\ batch \subseteq Entities
    OBVIOUS
  <2>8. unread \subseteq batch /\ cur \subseteq batch /\ redo \subseteq batch
    OBVIOUS
  <2>9. /\ final \in BOOLEAN /\ accepting \in BOOLEAN /\ cancelled \in BOOLEAN
        /\ pc = "idle" /\ faults \in FaultSets
    OBVIOUS
  <2> QED
    BY <2>3, <2>4, <2>5, <2>6, <2>7, <2>8, <2>9 DEF TypeOK
<1>2. Stages /\ AckedRowsGone /\ FlushRepairs
  BY DEF Stages, AckedRowsGone, FlushRepairs, Reading
<1>3. Seeded /\ DeletedUnvoted /\ RetractionsRemembered /\ ReadRetractionsRemembered
  BY DEF Seeded, DeletedUnvoted, RetractionsRemembered, ReadRetractionsRemembered, NoVote, Blank
<1>4. Fresh
  BY DEF Fresh, DeletedRead, VotesRead, ScoreRead
<1> QED
  BY <1>1, <1>2, <1>3, <1>4 DEF LosslessInv

\* As long as Redis keeps its data, LosslessInv is an invariant: whatever
\* Redis commands and transactions fail, and wherever the worker is cancelled
\* or dies.
LosslessHolds == RedisKeeps => LosslessInv

\* Which faults may happen is decided once.
LEMMA FaultsFixed == [Next]_vars => UNCHANGED faults
  BY DEF Next, FlushStep, vars, serverVars, CastVote, Tick, FinalFlush, Grab, GrabFails,
         ClearDirty, ReadFails, Remark, ReadVotes, ReadScore, ReadDeleted, WriteCommits,
         WriteFails, Ack, StopAccepting, CancelWorker, Restart, RedisLoss

LEMMA LosslessSafe == Spec => []LosslessHolds
<1>1. Init => LosslessHolds
  BY LosslessInit DEF LosslessHolds
<1>2. LosslessHolds /\ [Next]_vars => LosslessHolds'
  <2> SUFFICES ASSUME RedisKeeps, LosslessInv, [Next]_vars
               PROVE  LosslessInv'
    BY FaultsFixed DEF LosslessHolds, RedisKeeps
  <2> QED
    BY TypeStep, StagesStep, SeededStep, RetractionStep, FreshStep, RepairStep DEF LosslessInv
<1> QED
  BY <1>1, <1>2, PTL DEF Spec

LEMMA AlwaysTyped == Spec => [](TypeOK /\ Stages)
<1>1. Init => TypeOK /\ Stages
  BY LosslessInit DEF LosslessInv
<1>2. TypeOK /\ Stages /\ [Next]_vars => (TypeOK /\ Stages)'
  BY TypeStep, StagesStep
<1> QED
  BY <1>1, <1>2, PTL DEF Spec

\* The variables keep their types, whatever fails (flush.go, vote.go as a
\* whole).
THEOREM TypeCorrect == Spec => []TypeOK
  BY AlwaysTyped, PTL

\* No retraction is forgotten: a row whose user has no vote in Redis is in
\* the deleted set (vote.go:46-54, flush.go:191-199).
THEOREM RetractionsSafe == Spec => []RetractionsRemembered
<1>1. LosslessHolds => RetractionsRemembered
  BY DEF LosslessHolds, LosslessInv, RetractionsRemembered
<1> QED
  BY <1>1, LosslessSafe, PTL

\* A transaction that no vote overtook leaves its entity equal in Redis and
\* Postgres, whatever went wrong before it (flush.go:174-200).
THEOREM FlushRepairsSafe == Spec => []FlushRepairs
<1>1. LosslessHolds => FlushRepairs
  BY DEF LosslessHolds, LosslessInv, FlushRepairs
<1> QED
  BY <1>1, LosslessSafe, PTL

\* The score counts the present vote of each user once: the script adds the
\* difference to the vote it replaces, and a restart finds the key (vote.go:44-59).
LEMMA SumKept ==
    ASSUME RedisKeeps, TypeOK, Seeded, ScoreIsSum, [Next]_vars
    PROVE  ScoreIsSum'
<1> USE DEF redisVars, dbVars, flushVars, serverVars
<1>1. ASSUME NEW e \in Entities, NEW u \in Users, NEW v \in Vote, CastVote(e, u, v),
             NEW f \in Entities
      PROVE  score'[f] = SumFunction(votes'[f])
  <2>1. score[f] = SumFunction(votes[f])
    BY DEF ScoreIsSum
  <2>2. CASE f # e
    <3>1. score'[f] = score[f] /\ votes'[f] = votes[f]
      BY <1>1, <2>2 DEF CastVote, TypeOK
    <3> QED
      BY <2>1, <3>1
  <2>3. CASE f = e
    <3>1. /\ votes'[e] = [votes[e] EXCEPT ![u] = v]
          /\ score'[e] = score[e] + (v - votes[e][u])
      BY <1>1 DEF CastVote, TypeOK
    <3>2. IsFiniteSet(Users) /\ votes[e] \in [Users -> Int] /\ v \in Int
      BY VotesAreInts, VoteIsInt, VoteBufferAssumption DEF VoteBufferAssumption, TypeOK
    <3>3. SumFunction([votes[e] EXCEPT ![u] = v]) = SumFunction(votes[e]) + (v - votes[e][u])
      BY <3>2, SumOfChanged
    <3> QED
      BY <2>1, <2>3, <3>1, <3>3
  <2> QED
    BY <2>2, <2>3
<1>2. CASE UNCHANGED <<votes, score>>
  BY <1>2 DEF ScoreIsSum
<1>3. CASE Restart
  BY <1>2, <1>3, RestartKeepsRedis
<1>4. ASSUME NEW e \in Entities, NEW u \in Users, NEW v \in Vote, CastVote(e, u, v)
      PROVE  ScoreIsSum'
  BY <1>1, <1>4 DEF ScoreIsSum
<1> QED
  BY <1>2, <1>3, <1>4
     DEF Next, FlushStep, RedisLoss, RedisKeeps, vars, Tick, FinalFlush, Grab, GrabFails, ClearDirty,
         ReadFails, Remark, ReadVotes, ReadScore, ReadDeleted, WriteCommits, WriteFails, Ack,
         StopAccepting, CancelWorker

\* While Redis keeps its data the score of an entity is the sum of its votes,
\* through re-votes, retractions, crashes, restarts and preloads (vote.go:44-59,
\* flush.go:64-106).
THEOREM ScoreIsSumSafe == Spec => []ScoreIsSum
<1>1. Init => ScoreIsSum
  <2> SUFFICES ASSUME Init, NEW e \in Entities PROVE score[e] = SumFunction(votes[e])
    BY DEF ScoreIsSum
  <2>1. votes[e] = [u \in Users |-> 0] /\ score[e] = 0
    BY DEF Init, NoVote
  <2> QED
    BY <2>1, SumOfZeros, VoteBufferAssumption DEF VoteBufferAssumption
<1>2. LosslessHolds /\ ScoreIsSum /\ [Next]_vars => ScoreIsSum'
  <2> SUFFICES ASSUME LosslessHolds, ScoreIsSum, [Next]_vars, RedisKeeps' PROVE ScoreIsSum'
    BY DEF ScoreIsSum
  <2>1. RedisKeeps
    BY FaultsFixed DEF RedisKeeps
  <2> QED
    BY <2>1, SumKept DEF LosslessHolds, LosslessInv
<1> QED
  BY <1>1, <1>2, LosslessSafe, PTL DEF Spec

-----------------------------------------------------------------------------
(* With failing transactions as the only fault, nothing unsaved escapes the *)
(* dirty set.                                                               *)

LEMMA CutStep ==
    ASSUME RedisKeeps, TypeOK, Stages, CutHeld, CutApart, [Next]_vars
    PROVE  CutHeld' /\ CutApart'
<1> USE DEF TypeOK, CutHeld, CutApart, Alive, InFlight, redisVars, dbVars, flushVars, serverVars
<1>1. ASSUME NEW e \in Entities, NEW u \in Users, NEW v \in Vote, CastVote(e, u, v)
      PROVE  CutHeld' /\ CutApart'
  BY <1>1 DEF CastVote
<1>2. CASE Tick \/ FinalFlush \/ GrabFails
  BY <1>2 DEF Tick, FinalFlush, GrabFails, EndOfType, Stages
<1>3. CASE Grab
  BY <1>3 DEF Grab, EndOfType
<1>4. CASE ClearDirty \/ ReadFails
  BY <1>4 DEF ClearDirty, ReadFails
<1>5. CASE Remark
  <2>1. /\ UNCHANGED <<final, cancelled, cut>>
        /\ dirty \subseteq dirty'
        /\ dirty' = dirty \/ (Alive /\ dirty' = dirty \cup redo)
        /\ batch' = batch \ redo
        /\ pc = "remark" /\ pc' # "ack"
    BY <1>5 DEF Remark, Leave, EndOfType
  <2> QED
    BY <2>1
<1>6. ASSUME NEW e \in Entities, ReadVotes(e) \/ ReadScore(e) \/ ReadDeleted(e)
      PROVE  CutHeld' /\ CutApart'
  BY <1>6 DEF ReadVotes, ReadScore, ReadDeleted
<1>7. ASSUME NEW e \in Entities, WriteCommits(e) \/ WriteFails(e)
      PROVE  CutHeld' /\ CutApart'
  BY <1>7 DEF WriteCommits, WriteFails
<1>8. ASSUME NEW e \in Entities, Ack(e)
      PROVE  CutHeld' /\ CutApart'
  <2>1. /\ UNCHANGED <<dirty, final, cancelled, cut>>
        /\ batch' = batch \ {e}
        /\ pc = "ack" /\ pc' # "ack"
    BY <1>8 DEF Ack, Leave, EndOfType
  <2>2. cur = {e}
    BY <1>8 DEF Ack, Stages
  <2> QED
    BY <2>1, <2>2
<1>9. CASE StopAccepting \/ CancelWorker \/ UNCHANGED vars
  BY <1>9 DEF StopAccepting, CancelWorker, vars
<1>10. CASE Restart
  BY <1>10 DEF Restart
<1> QED
  BY <1>1, <1>2, <1>3, <1>4, <1>5, <1>6, <1>7, <1>8, <1>9, <1>10
     DEF Next, FlushStep, RedisLoss, RedisKeeps

LEMMA CleanStep ==
    ASSUME OnlySavesFail, LosslessInv, CutHeld, CleanAgrees, [Next]_vars,
           FlushRepairs'
    PROVE  CleanAgrees'
<1> USE DEF CleanAgrees, Pending, InFlight, InSync, LosslessInv, TypeOK
<1> USE DEF redisVars, dbVars, flushVars, serverVars
<1>1. /\ "redis" \notin faults /\ RedisKeeps /\ "crash" \notin faults
      /\ RedisMayFail => InFlight \subseteq dirty \cup cut
      /\ RedisKeeps'
  BY FaultsFixed DEF CutHeld, RedisMayFail, OnlySavesFail, RedisKeeps
<1>2. ASSUME NEW e \in Entities, NEW u \in Users, NEW v \in Vote, CastVote(e, u, v)
      PROVE  CleanAgrees'
  <2>1. /\ dirty \subseteq dirty'
        /\ \A f \in Entities \ dirty' : votes'[f] = votes[f] /\ score'[f] = score[f]
    BY <1>2, CastMarks
  <2>2. UNCHANGED <<dbVotes, dbScore, pc, batch, cur>> /\ cut \subseteq cut' \cup dirty'
    BY <1>2 DEF CastVote
  <2> QED
    BY <2>1, <2>2
<1>3. CASE Tick \/ FinalFlush \/ Grab \/ GrabFails
  BY <1>3 DEF Tick, FinalFlush, Grab, GrabFails, EndOfType, Stages
<1>4. CASE ClearDirty \/ ReadFails
  BY <1>4 DEF ClearDirty, ReadFails
<1>5. CASE Remark
  <2>1. /\ UNCHANGED <<votes, score, dbVotes, dbScore, cut>>
        /\ pc = "remark"
        /\ dirty' = dirty \cup redo \/ (RedisMayFail /\ dirty' = dirty)
        /\ batch' = batch \ redo
        /\ pc' = "write" \/ (batch' = {} /\ pc' \in {"grab", "idle", "stopped"})
    BY <1>5 DEF Remark, Leave, EndOfType
  <2> QED
    BY <1>1, <2>1
<1>6. ASSUME NEW e \in Entities, ReadVotes(e) \/ ReadScore(e) \/ ReadDeleted(e)
      PROVE  CleanAgrees'
  BY <1>6 DEF ReadVotes, ReadScore, ReadDeleted
<1>7. ASSUME NEW e \in Entities, WriteEntity(e)
      PROVE  \A f \in Entities \ {e} : dbVotes'[f] = dbVotes[f] /\ dbScore'[f] = dbScore[f]
  BY <1>7 DEF WriteEntity
<1>8. ASSUME NEW e \in Entities, WriteCommits(e)
      PROVE  CleanAgrees'
  <2>1. e \in Gone \/ e \in dirty \/ InSync(e)'
    BY <1>1, <1>8 DEF WriteCommits, FlushRepairs
  <2>2. /\ UNCHANGED <<votes, score, dirty, batch, cut>>
        /\ pc = "write" /\ pc' = "ack" /\ cur' = {e}
    BY <1>8 DEF WriteCommits
  <2>3. \A f \in Entities \ {e} : dbVotes'[f] = dbVotes[f] /\ dbScore'[f] = dbScore[f]
    BY <1>7, <1>8 DEF WriteCommits
  <2> QED
    BY <2>1, <2>2, <2>3
<1>9. ASSUME NEW e \in Entities, WriteFails(e)
      PROVE  CleanAgrees'
  <2>1. /\ UNCHANGED <<votes, score, dirty, batch, cut>>
        /\ pc = "write" /\ pc' = "remark" /\ e \in batch
    BY <1>9 DEF WriteFails
  <2>2. \A f \in Entities \ {e} : dbVotes'[f] = dbVotes[f] /\ dbScore'[f] = dbScore[f]
    BY <1>7, <1>9 DEF WriteFails
  <2> QED
    BY <2>1, <2>2
<1>10. ASSUME NEW e \in Entities, Ack(e)
       PROVE  CleanAgrees'
  <2>1. /\ UNCHANGED <<votes, score, dirty, dbVotes, dbScore, cut>>
        /\ pc = "ack"
        /\ batch' = batch \ {e}
        /\ pc' = "write" \/ (batch' = {} /\ pc' \in {"grab", "idle", "stopped"})
    BY <1>10 DEF Ack, Leave, EndOfType
  <2>2. cur = {e}
    BY <1>10 DEF Ack, Stages
  <2> QED
    BY <2>1, <2>2
<1>11. CASE Restart
  <2>1. UNCHANGED <<redisVars, dbVars>>
    BY <1>11, RestartKeepsRedis
  <2>2. batch = {} /\ batch' = {} /\ cut' = cut /\ faults' = faults
    BY <1>1, <1>11 DEF Restart, Stages
  <2> QED
    BY <2>1, <2>2
<1>12. CASE StopAccepting \/ CancelWorker \/ UNCHANGED vars
  BY <1>12 DEF StopAccepting, CancelWorker, vars
<1> QED
  BY <1>1, <1>2, <1>3, <1>4, <1>5, <1>6, <1>8, <1>9, <1>10, <1>11, <1>12
     DEF Next, FlushStep, RedisLoss, RedisKeeps

SyncHolds == OnlySavesFail => SyncInv

LEMMA SyncSafe == Spec => []SyncHolds
<1>1. OnlySavesFail => RedisKeeps
  BY DEF OnlySavesFail, RedisKeeps
<1>2. Init => SyncHolds
  BY LosslessInit DEF SyncHolds, SyncInv, Init, CutHeld, CutApart, Alive, CleanAgrees, InSync
<1>3. SyncHolds /\ LosslessHolds' /\ [Next]_vars => SyncHolds'
  <2> SUFFICES ASSUME OnlySavesFail, SyncInv, LosslessInv', [Next]_vars
               PROVE  SyncInv'
    BY <1>1, FaultsFixed DEF SyncHolds, LosslessHolds, OnlySavesFail, RedisKeeps
  <2> QED
    BY <1>1, CutStep, CleanStep DEF SyncInv, LosslessInv
<1> QED
  BY <1>2, <1>3, LosslessSafe, PTL DEF Spec

\* While failing transactions are the only fault, an entity that waits for no
\* flush has its votes and its score in Postgres, however votes interleave
\* with the commands of a flush and however many transactions fail, unless the
\* shutdown signal cut it off in the middle of one (flush.go:128-130, 185).
THEOREM CleanAgreesSafe == Spec => []CleanAgrees
<1>1. SyncHolds => CleanAgrees
  BY DEF SyncHolds, SyncInv, CleanAgrees
<1> QED
  BY <1>1, SyncSafe, PTL

-----------------------------------------------------------------------------
(* With Redis losing its data whenever it likes, and failing transactions, *)
(* but a worker that lives: what is left to be said is about the votes     *)
(* that Redis has.                                                         *)

\* What was read of an entity that is not dirty again has the votes Redis has,
\* and takes none of them away.
CachedFresh ==
    \A e \in Entities \ dirty :
        /\ VotesRead(e) => \A u \in Users : votes[e][u] # 0 => snap[e].votes[u] = votes[e][u]
        /\ DeletedRead(e) => \A u \in snap[e].deleted : votes[e][u] = 0

\* After the signal, a flush holds no more than what was cut off, what is marked,
\* and what has lost its votes.
CachedCut == ~Alive => \A e \in InFlight \ (dirty \cup cut) : votes[e] = NoVote

CachedInv == CachedCut /\ DeletedUnvoted /\ CachedFresh /\ CachedVotesSaved

LEMMA CachedCutStep ==
    ASSUME TypeOK, Stages, CachedCut, [Next]_vars
    PROVE  CachedCut'
<1> USE DEF TypeOK, CachedCut, Alive, InFlight, redisVars, dbVars, flushVars, serverVars
<1>1. ASSUME NEW e \in Entities, NEW u \in Users, NEW v \in Vote, CastVote(e, u, v)
      PROVE  CachedCut'
  <2>1. /\ dirty \subseteq dirty'
        /\ \A f \in Entities \ dirty' : votes'[f] = votes[f]
    BY <1>1, CastMarks
  <2>2. UNCHANGED <<pc, final, cancelled, batch, cur>> /\ cut' = cut \ dirty'
    BY <1>1 DEF CastVote
  <2> QED
    BY <2>1, <2>2
<1>2. CASE Tick \/ FinalFlush \/ GrabFails
  BY <1>2 DEF Tick, FinalFlush, GrabFails, EndOfType, Stages
<1>3. CASE Grab
  BY <1>3 DEF Grab
<1>4. CASE ClearDirty \/ ReadFails
  BY <1>4 DEF ClearDirty, ReadFails
<1>5. CASE Remark
  <2>1. /\ UNCHANGED <<votes, final, cancelled, cut>>
        /\ dirty \subseteq dirty'
        /\ batch' = batch \ redo
        /\ pc = "remark" /\ pc' # "ack"
    BY <1>5 DEF Remark, Leave, EndOfType
  <2> QED
    BY <2>1
<1>6. ASSUME NEW e \in Entities, ReadVotes(e) \/ ReadScore(e) \/ ReadDeleted(e)
      PROVE  CachedCut'
  BY <1>6 DEF ReadVotes, ReadScore, ReadDeleted
<1>7. ASSUME NEW e \in Entities, WriteCommits(e) \/ WriteFails(e)
      PROVE  CachedCut'
  BY <1>7 DEF WriteCommits, WriteFails
<1>8. ASSUME NEW e \in Entities, Ack(e)
      PROVE  CachedCut'
  <2>1. /\ UNCHANGED <<votes, dirty, final, cancelled, cut>>
        /\ batch' = batch \ {e}
        /\ pc = "ack" /\ pc' # "ack"
    BY <1>8 DEF Ack, Leave, EndOfType
  <2>2. cur = {e}
    BY <1>8 DEF Ack, Stages
  <2> QED
    BY <2>1, <2>2
<1>9. CASE StopAccepting \/ CancelWorker \/ UNCHANGED vars
  BY <1>9 DEF StopAccepting, CancelWorker, vars
<1>10. CASE Restart
  BY <1>10 DEF Restart
<1>11. CASE RedisLoss
  BY <1>11 DEF RedisLoss
<1> QED
  BY <1>1, <1>2, <1>3, <1>4, <1>5, <1>6, <1>7, <1>8, <1>9, <1>10, <1>11 DEF Next, FlushStep

LEMMA CachedStep ==
    ASSUME WorkerLives, TypeOK, Stages, CachedInv, [Next]_vars
    PROVE  DeletedUnvoted' /\ CachedFresh' /\ CachedVotesSaved'
<1> DEFINE Goal == DeletedUnvoted' /\ CachedFresh' /\ CachedVotesSaved'
<1> USE DEF TypeOK, CachedInv, redisVars, dbVars, flushVars, serverVars
<1> USE DEF CachedFresh, DeletedRead, VotesRead, Reading, DeletedUnvoted, CachedVotesSaved, Pending, InFlight
<1>1. /\ "crash" \notin faults
      /\ RedisMayFail => \A e \in InFlight \ (dirty \cup cut), u \in Users : votes[e][u] = 0
  BY DEF WorkerLives, CachedCut, RedisMayFail, NoVote
<1>2. ASSUME NEW e \in Entities, NEW u \in Users, NEW v \in Vote, CastVote(e, u, v)
      PROVE  Goal
  <2>1. /\ dirty \subseteq dirty'
        /\ \A f \in Entities \ dirty' : votes'[f] = votes[f] /\ score'[f] = score[f]
    BY <1>2, CastMarks
  <2>2. UNCHANGED <<dbVotes, pc, batch, unread, cur, redo, snap>> /\ cut' = cut \ dirty'
    BY <1>2 DEF CastVote
  <2>3. DeletedUnvoted'
    BY <1>2 DEF CastVote
  <2>4. CachedFresh'
    BY <2>1, <2>2
  <2>5. CachedVotesSaved'
    BY <2>1, <2>2
  <2> QED
    BY <2>3, <2>4, <2>5
<1>3. CASE Tick \/ FinalFlush \/ Grab \/ GrabFails
  <2>1. CASE Tick \/ FinalFlush
    BY <1>3, <2>1 DEF Tick, FinalFlush, Stages
  <2>2. CASE GrabFails
    BY <2>2 DEF GrabFails, EndOfType, Stages
  <2>3. CASE Grab
    <3>1. UNCHANGED <<redisVars, dbVars, cur, unread, redo, snap, cut, faults>>
      BY <2>3 DEF Grab
    <3>2. pc = "grab" /\ batch = {} /\ cur = {} /\ batch' \subseteq dirty
          /\ pc' \in {"clear", "grab", "idle", "stopped"}
      BY <2>3 DEF Grab, EndOfType, Stages
    <3> QED
      BY <3>1, <3>2
  <2> QED
    BY <1>3, <2>1, <2>2, <2>3
<1>4. CASE ClearDirty
  BY <1>4 DEF ClearDirty, Stages
<1>5. CASE ReadFails
  BY <1>5 DEF ReadFails
<1>6. CASE Remark
  <2>1. /\ UNCHANGED <<votes, deleted, dbVotes, cur, unread, cut>>
        /\ dirty' = dirty \cup redo \/ (RedisMayFail /\ dirty' = dirty)
        /\ batch' = batch \ redo
        /\ redo' = {}
        /\ snap' = [e \in Entities |-> IF e \in redo THEN Blank ELSE snap[e]]
        /\ pc' = "write" \/ (batch' = {} /\ pc' \in {"grab", "idle", "stopped"})
        /\ pc = "remark"
    BY <1>6 DEF Remark, Leave, EndOfType
  <2> QED
    BY <1>1, <2>1
<1>7. ASSUME NEW e \in Entities, ReadVotes(e)
      PROVE  Goal
  BY <1>7 DEF ReadVotes, Stages
<1>8. ASSUME NEW e \in Entities, ReadScore(e)
      PROVE  Goal
  BY <1>8 DEF ReadScore, Stages
<1>9. ASSUME NEW e \in Entities, ReadDeleted(e)
      PROVE  Goal
  BY <1>9 DEF ReadDeleted, Stages
<1>10. ASSUME NEW e \in Entities, WriteCommits(e)
       PROVE  Goal
  <2>1. /\ UNCHANGED <<votes, deleted, dirty, batch, unread, redo, snap, cut>>
        /\ pc = "write" /\ pc' = "ack" /\ e \in batch /\ cur' = {e} /\ unread = {} /\ redo = {}
    BY <1>10 DEF WriteCommits, Stages
  <2>2. /\ \A f \in Entities \ {e} : dbVotes'[f] = dbVotes[f]
        /\ dbVotes'[e] = SavedVotes(e)
    BY <1>10 DEF WriteCommits, WriteEntity
  <2>3. VotesRead(e) /\ DeletedRead(e)
    BY <2>1
  <2>4. ASSUME e \notin dirty, NEW u \in Users, votes[e][u] # 0
        PROVE  dbVotes'[e][u] = votes[e][u]
    <3>1. snap[e].votes[u] = votes[e][u] /\ u \notin snap[e].deleted
      BY <2>3, <2>4
    <3> QED
      BY <2>2, <2>4, <3>1 DEF SavedVotes
  <2>5. CachedVotesSaved'
    <3> SUFFICES ASSUME WorkerLives', NEW f \in Entities \ (Gone \cup Pending' \cup cut),
                        NEW u \in Users, votes[f][u] # 0
                 PROVE  dbVotes'[f][u] = votes[f][u]
      BY <2>1
    <3>1. f \notin dirty /\ f \notin batch \ {e}
      BY <2>1
    <3>2. CASE f = e
      BY <2>4, <3>1, <3>2
    <3>3. CASE f # e
      <4>1. f \notin Pending
        BY <2>1, <3>1, <3>3
      <4> QED
        BY <2>2, <3>3, <4>1, FaultsFixed DEF WorkerLives
    <3> QED
      BY <3>2, <3>3
  <2>6. DeletedUnvoted'
    BY <2>1
  <2>7. CachedFresh'
    BY <2>1
  <2> QED
    BY <2>5, <2>6, <2>7
<1>11. ASSUME NEW e \in Entities, WriteFails(e)
       PROVE  Goal
  <2>1. /\ UNCHANGED <<votes, deleted, dirty, batch, unread, snap, cut>>
        /\ pc = "write" /\ pc' = "remark" /\ e \in batch /\ cur' = {} /\ redo' = {e}
    BY <1>11 DEF WriteFails
  <2>2. \A f \in Entities \ {e} : dbVotes'[f] = dbVotes[f]
    BY <1>11 DEF WriteFails, WriteEntity
  <2>3. CachedVotesSaved'
    <3>1. /\ batch \subseteq Pending'
          /\ Pending' = Pending
      BY <2>1
    <3> SUFFICES ASSUME WorkerLives', NEW f \in Entities \ (Gone \cup Pending' \cup cut),
                        NEW u \in Users, votes[f][u] # 0
                 PROVE  dbVotes'[f][u] = votes[f][u]
      BY <2>1
    <3>2. f # e /\ f \notin Pending
      BY <2>1, <3>1
    <3> QED
      BY <2>2, <3>2, FaultsFixed DEF WorkerLives
  <2>4. DeletedUnvoted'
    BY <2>1
  <2>5. CachedFresh'
    BY <2>1 DEF Stages
  <2> QED
    BY <2>3, <2>4, <2>5
<1>12. ASSUME NEW e \in Entities, Ack(e)
       PROVE  Goal
  <2>1. /\ UNCHANGED <<votes, dirty, dbVotes, unread, redo, cut>>
        /\ cur' = {}
        /\ batch' = batch \ {e}
        /\ snap' = [f \in Entities |-> IF f \in {e} THEN Blank ELSE snap[f]]
        /\ pc' = "write" \/ (batch' = {} /\ pc' \in {"grab", "idle", "stopped"})
        /\ pc = "ack"
    BY <1>12 DEF Ack, Leave, EndOfType
  <2>2. cur = {e}
    BY <1>12 DEF Ack, Stages
  <2>3. \A f \in Entities : deleted'[f] \subseteq deleted[f]
    BY <1>12 DEF Ack
  <2> QED
    BY <2>1, <2>2, <2>3
<1>13. CASE Restart
  <2>1. /\ UNCHANGED <<votes, deleted, dirty, dbVotes, cut, faults>>
        /\ pc = "stopped" /\ pc' = "idle" /\ batch' = {} /\ batch = {}
    BY <1>1, <1>13 DEF Restart, Stages
  <2> QED
    BY <2>1
<1>14. CASE RedisLoss
  BY <1>14 DEF RedisLoss, NoVote
<1>15. CASE StopAccepting \/ CancelWorker \/ UNCHANGED vars
  BY <1>15 DEF StopAccepting, CancelWorker, vars
<1> QED
  BY <1>2, <1>3, <1>4, <1>5, <1>6, <1>7, <1>8, <1>9, <1>10, <1>11, <1>12, <1>13, <1>14, <1>15
     DEF Next, FlushStep

\* Even when Redis loses its data, again and again, in the middle of a flush or
\* between two, every vote cast since then is in its row, or its entity waits
\* for a flush, or was cut off by the shutdown signal (flush.go:128-130).
THEOREM CachedVotesSavedSafe == Spec => []CachedVotesSaved
<1> DEFINE Holds == WorkerLives => CachedInv
<1>1. Init => Holds
  BY DEF Init, CachedInv, CachedCut, Alive, DeletedUnvoted, CachedFresh, CachedVotesSaved, VotesRead,
         DeletedRead, Reading, NoVote
<1>2. TypeOK /\ Stages /\ Holds /\ [Next]_vars => Holds'
  <2> SUFFICES ASSUME TypeOK, Stages, Holds, [Next]_vars, WorkerLives' PROVE CachedInv'
    OBVIOUS
  <2>1. WorkerLives /\ CachedInv
    BY FaultsFixed DEF WorkerLives
  <2>2. CachedCut'
    BY <2>1, CachedCutStep DEF CachedInv
  <2>3. DeletedUnvoted' /\ CachedFresh' /\ CachedVotesSaved'
    BY <2>1, CachedStep
  <2> QED
    BY <2>2, <2>3 DEF CachedInv
<1>3. Holds => CachedVotesSaved
  BY DEF CachedInv, CachedVotesSaved
<1> HIDE DEF Holds
<1> QED
  BY <1>1, <1>2, <1>3, AlwaysTyped, PTL DEF Spec

-----------------------------------------------------------------------------
(* The last flush.  Without faults, and wherever the signal came, it takes  *)
(* every type in turn, no vote is cast any more, and only entities that are *)
(* gone are marked again.                                                   *)

FinalInv ==
    /\ pc = "stopped" => final
    /\ final => cancelled /\ pc # "idle"
    /\ cancelled => ~accepting
    /\ final => redo \subseteq Gone
    /\ pc = "idle" => typ = 1
    /\ final => \A e \in dirty \ Gone :
                  /\ pc # "stopped"
                  /\ TypeOf[e] >= typ
                  /\ pc = "clear" /\ TypeOf[e] = typ => e \in batch
                  /\ pc \notin {"grab", "clear"} => TypeOf[e] > typ

\* A type that has nothing left to save is passed.
LEMMA PassType ==
    ASSUME TypeOK, EndOfType,
           final => \A e \in dirty' \ Gone : e \in Entities /\ TypeOf[e] > typ
    PROVE  /\ final => pc' # "idle"
           /\ pc' # "clear"
           /\ pc' = "idle" => typ' = 1
           /\ final => \A e \in dirty' \ Gone :
                         /\ pc' # "stopped"
                         /\ TypeOf[e] >= typ'
                         /\ pc' \notin {"grab", "clear"} => TypeOf[e] > typ'
<1>1. NTypes \in Nat /\ typ \in 1..NTypes /\ \A e \in Entities : TypeOf[e] \in 1..NTypes
  BY VoteBufferAssumption DEF TypeOK, VoteBufferAssumption
<1>2. CASE typ < NTypes /\ typ' = typ + 1 /\ pc' = "grab"
  BY <1>1, <1>2
<1>3. CASE typ = NTypes /\ typ' = 1 /\ pc' = IF final THEN "stopped" ELSE "idle"
  BY <1>1, <1>3
<1> QED
  BY <1>2, <1>3 DEF EndOfType

LEMMA FinalStep ==
    ASSUME faults = {}, TypeOK, TypeOK', Stages, FinalInv, [Next]_vars
    PROVE  FinalInv'
<1> USE DEF FinalInv, redisVars, dbVars, flushVars, serverVars
<1>1. /\ final => Alive /\ ~RedisMayFail
      /\ \A e \in dirty : e \in Entities /\ TypeOf[e] \in Int
      /\ typ \in Int
  BY VoteBufferAssumption DEF RedisMayFail, Alive, TypeOK, VoteBufferAssumption
<1>2. ASSUME NEW e \in Entities, NEW u \in Users, NEW v \in Vote, CastVote(e, u, v)
      PROVE  FinalInv'
  BY <1>2 DEF CastVote
<1>3. CASE Tick \/ FinalFlush \/ StopAccepting \/ CancelWorker \/ UNCHANGED vars
  <2>1. CASE Tick
    BY <2>1 DEF Tick, Stages
  <2>2. CASE FinalFlush
    <3>1. /\ cancelled /\ pc' = "grab" /\ typ = 1
          /\ redo = {}
          /\ UNCHANGED <<typ, dirty, cancelled, accepting, redo>>
      BY <2>2 DEF FinalFlush, Stages
    <3>2. \A e \in dirty \ Gone : TypeOf[e] >= 1
      BY VoteBufferAssumption DEF TypeOK, VoteBufferAssumption
    <3> QED
      BY <3>1, <3>2
  <2>3. CASE StopAccepting \/ CancelWorker \/ UNCHANGED vars
    BY <2>3 DEF StopAccepting, CancelWorker, vars
  <2> QED
    BY <1>3, <2>1, <2>2, <2>3
<1>4. CASE Grab
  <2>1. batch' = {e \in dirty : TypeOf[e] = typ} /\ UNCHANGED <<dirty, final, cancelled, accepting, redo>>
    BY <1>4 DEF Grab
  <2>2. CASE batch' # {} /\ pc' = "clear" /\ UNCHANGED typ
    BY <1>4, <2>1, <2>2 DEF Grab
  <2>3. CASE batch' = {} /\ EndOfType
    <3>1. final => \A e \in dirty' \ Gone : e \in Entities /\ TypeOf[e] > typ
      BY <1>1, <2>1, <2>3
    <3>2. pc' = "stopped" => final
      BY <2>3 DEF EndOfType
    <3> QED
      BY <1>4, <2>1, <2>3, <3>1, <3>2, PassType
  <2> QED
    BY <1>4, <2>2, <2>3 DEF Grab
<1>5. CASE GrabFails
  <2>1. ~final /\ EndOfType
    BY <1>1, <1>5 DEF GrabFails
  <2>2. pc' # "stopped"
    BY <2>1 DEF EndOfType
  <2> QED
    BY <1>5, <2>1, <2>2, PassType DEF GrabFails
<1>6. CASE ClearDirty
  BY <1>1, <1>6 DEF ClearDirty
<1>7. CASE ReadFails
  BY <1>1, <1>7 DEF ReadFails
<1>8. ASSUME NEW e \in Entities, ReadVotes(e) \/ ReadScore(e) \/ ReadDeleted(e) \/ WriteCommits(e)
      PROVE  FinalInv'
  BY <1>8 DEF ReadVotes, ReadScore, ReadDeleted, WriteCommits
<1>9. ASSUME NEW e \in Entities, WriteFails(e)
      PROVE  FinalInv'
  <2>1. final => e \in Gone
    BY <1>1, <1>9 DEF WriteFails, ForeignKeyHolds
  <2> QED
    BY <1>9, <2>1 DEF WriteFails
<1>10. ASSUME NEW S, Leave(S), pc \in {"remark", "ack"}, redo' = {},
              final => dirty' \subseteq dirty \cup Gone, UNCHANGED <<final, cancelled, accepting>>
       PROVE  FinalInv'
  <2>1. CASE pc' = "write" /\ UNCHANGED typ
    BY <1>10, <2>1
  <2>2. CASE EndOfType
    <3>1. final => \A e \in dirty' \ Gone : e \in Entities /\ TypeOf[e] > typ
      BY <1>1, <1>10, <2>2
    <3>2. final => pc' # "idle"
      BY <2>2, <3>1, PassType
    <3>3. pc' = "stopped" => final
      BY <2>2 DEF EndOfType
    <3> QED
      BY <1>10, <2>2, <3>1, <3>2, <3>3, PassType
  <2> QED
    BY <1>10, <2>1, <2>2 DEF Leave
<1>11. CASE Remark
  BY <1>10, <1>11 DEF Remark
<1>12. ASSUME NEW e \in Entities, Ack(e)
       PROVE  FinalInv'
  <2>1. redo = {}
    BY <1>12 DEF Ack, Stages
  <2> QED
    BY <1>10, <1>12, <2>1 DEF Ack
<1>13. CASE Restart
  BY <1>13 DEF Restart
<1> QED
  BY <1>2, <1>3, <1>4, <1>5, <1>6, <1>7, <1>8, <1>9, <1>11, <1>12, <1>13 DEF Next, FlushStep, RedisLoss

\* When nothing but the shutdown itself disturbs the worker, it stops with every
\* vote in Postgres but those of the entities the signal cut off, and the signal
\* may come at any moment, also between two commands of a flush: what that flush
\* still had marked the last one saves, which takes every type and which no vote
\* follows (flush.go:37-39, main.go:99-106).
THEOREM SavedAtExitSafe ==
    ASSUME FaultSets \subseteq {{}}
    PROVE  Spec => []SavedAtExit
<1> DEFINE Quiet == faults = {} /\ FinalInv
<1>1. Init => Quiet
  BY DEF Init, FinalInv
<1>2. Quiet /\ SyncHolds /\ SyncHolds' /\ [Next]_vars => Quiet'
  <2> SUFFICES ASSUME FinalInv, faults = {}, SyncHolds, SyncHolds', [Next]_vars
               PROVE  faults' = {} /\ FinalInv'
    OBVIOUS
  <2>1. faults' = {}
    BY FaultsFixed
  <2>2. SyncInv /\ SyncInv'
    BY <2>1 DEF SyncHolds, OnlySavesFail
  <2> QED
    BY <2>1, <2>2, FinalStep DEF SyncInv, LosslessInv
<1>3. Quiet /\ SyncHolds => SavedAtExit
  <2> SUFFICES ASSUME FinalInv, faults = {}, SyncHolds, pc = "stopped",
                      NEW e \in Entities \ (Gone \cup cut)
               PROVE  InSync(e)
    BY DEF SavedAtExit
  <2>1. OnlySavesFail /\ SyncInv
    BY DEF SyncHolds, OnlySavesFail
  <2>2. e \notin Pending
    BY <2>1 DEF SyncInv, LosslessInv, Stages, FinalInv, Pending, InFlight
  <2> QED
    BY <2>1, <2>2 DEF SyncInv, CleanAgrees
<1> HIDE DEF Quiet
<1> QED
  BY <1>1, <1>2, <1>3, SyncSafe, PTL DEF Spec

-----------------------------------------------------------------------------
(* Refinement. *)

LEMMA CastRefines ==
    ASSUME TypeOK, NEW e \in Entities, NEW u \in Users, NEW v \in Vote, CastVote(e, u, v)
    PROVE  Ledger!Cast(e, u, v) \/ UNCHANGED Ledger!ledgerVars
<1> USE DEF dbVars, flushVars
<1>1. votes[e][u] \in Int /\ v \in Int /\ score[e] \in Int
  BY VoteIsInt DEF TypeOK
<1>2. InFlight' = InFlight /\ UNCHANGED <<dbVotes, dbScore>>
  BY DEF CastVote, InFlight
<1>3. CASE votes[e][u] = v
  <2>1. v - votes[e][u] = 0
    BY <1>1, <1>3
  <2>2. votes' = votes
    BY <1>3 DEF CastVote, TypeOK
  <2>3. score' = score
    BY <1>1, <2>1 DEF CastVote, TypeOK
  <2>4. (Pending \cup cut)' = Pending \cup cut
    BY <1>2, <2>1 DEF CastVote, Pending
  <2> QED
    BY <1>2, <2>2, <2>3, <2>4 DEF Ledger!ledgerVars
<1>4. CASE votes[e][u] # v
  <2>1. v - votes[e][u] # 0
    BY <1>1, <1>4, DeltaZero
  <2>2. score[e] + (v - votes[e][u]) = score[e] + v - votes[e][u]
    BY <1>1
  <2>3. score' = [score EXCEPT ![e] = score[e] + v - votes[e][u]]
    BY <2>2 DEF CastVote
  <2>4. (Pending \cup cut)' = (Pending \cup cut) \cup {e}
    BY <1>2, <2>1 DEF CastVote, Pending
  <2> QED
    BY <1>2, <1>4, <2>3, <2>4 DEF CastVote, Ledger!Cast
<1> QED
  BY <1>3, <1>4

\* The foreign key keeps every vote of an entity that is gone out of Postgres,
\* and its score has no row to be written to.
GoneUnsaved == \A e \in Gone : dbVotes[e] = NoVote /\ dbScore[e] = 0

LEMMA GoneUnsavedSafe == Spec => []GoneUnsaved
<1>1. Init => GoneUnsaved
  BY VoteBufferAssumption DEF VoteBufferAssumption, Init, GoneUnsaved
<1>2. TypeOK /\ GoneUnsaved /\ [Next]_vars => GoneUnsaved'
  <2> SUFFICES ASSUME TypeOK, GoneUnsaved, [Next]_vars
               PROVE  GoneUnsaved'
    OBVIOUS
  <2>1. CASE UNCHANGED dbVars
    BY <2>1 DEF GoneUnsaved, dbVars
  <2>2. ASSUME NEW e \in Entities, WriteEntity(e), ForeignKeyHolds(e), NEW g \in Gone
        PROVE  dbVotes'[g] = NoVote /\ dbScore'[g] = 0
    <3>1. g \in Entities /\ dbVotes[g] = NoVote /\ dbScore[g] = 0
      BY VoteBufferAssumption DEF VoteBufferAssumption, GoneUnsaved
    <3>2. dbScore'[g] = 0
      BY <2>2, <3>1 DEF WriteEntity, TypeOK
    <3>3. CASE g # e
      BY <2>2, <3>1, <3>2, <3>3 DEF WriteEntity, TypeOK
    <3>4. CASE g = e
      <4>1. snap[e].votes = NoVote
        BY <2>2, <3>4 DEF ForeignKeyHolds
      <4>2. \A u \in Users : SavedVotes(e)[u] = 0
        BY <3>1, <3>4, <4>1 DEF SavedVotes, NoVote
      <4>3. SavedVotes(e) = NoVote
        BY <4>2 DEF SavedVotes, NoVote
      <4> QED
        BY <2>2, <3>1, <3>2, <3>4, <4>3 DEF WriteEntity, TypeOK
    <3> QED
      BY <3>3, <3>4
  <2>3. ASSUME NEW e \in Entities, WriteCommits(e) \/ WriteFails(e)
        PROVE  GoneUnsaved'
    <3>1. UNCHANGED dbVars \/ (WriteEntity(e) /\ ForeignKeyHolds(e))
      BY <2>3 DEF WriteCommits, WriteFails
    <3> QED
      BY <2>1, <2>2, <3>1 DEF GoneUnsaved
  <2> QED
    BY <2>1, <2>3
       DEF Next, FlushStep, vars, dbVars, CastVote, Tick, FinalFlush, Grab, GrabFails, ClearDirty,
           ReadFails, Remark, ReadVotes, ReadScore, ReadDeleted, Ack, StopAccepting, CancelWorker,
           Restart, RedisLoss
<1> QED
  BY <1>1, <1>2, TypeCorrect, PTL DEF Spec

\* The transaction of an entity no vote has marked again is a save, also when
\* the entity is gone: it then commits only if there is nothing to save.
LEMMA CommitSaves ==
    ASSUME SyncInv, SyncInv', ScoreIsSum, GoneUnsaved', RedisKeeps, RedisKeeps',
           NEW e \in Entities, WriteCommits(e), e \notin dirty
    PROVE  dbVotes'[e] = votes[e] /\ dbScore'[e] = score[e]
<1> USE DEF SyncInv, LosslessInv, TypeOK, redisVars
<1>1. CASE e \notin Gone
  BY <1>1 DEF WriteCommits, FlushRepairs, InSync
<1>2. CASE e \in Gone
  <2>1. VotesRead(e) /\ snap[e].votes = NoVote
    BY <1>2 DEF WriteCommits, ForeignKeyHolds, VotesRead, DeletedRead, Stages, Reading
  <2>2. votes[e] = NoVote
    BY <2>1 DEF Fresh
  <2>3. score[e] = 0
    BY <2>2, SumOfZeros, VoteBufferAssumption DEF VoteBufferAssumption, ScoreIsSum, NoVote
  <2> QED
    BY <1>2, <2>2, <2>3 DEF GoneUnsaved
<1> QED
  BY <1>1, <1>2

LEMMA WriteRefines ==
    ASSUME SyncInv, SyncInv', ScoreIsSum, GoneUnsaved', RedisKeeps, RedisKeeps',
           NEW e \in Entities, WriteCommits(e)
    PROVE  Ledger!Save(e) \/ Ledger!SaveOvertaken(e)
<1> USE DEF SyncInv, LosslessInv, TypeOK, dbVars, redisVars
<1>1. /\ UNCHANGED <<votes, score, dirty, batch, cut>>
      /\ pc = "write" /\ pc' = "ack" /\ cur' = {e} /\ e \in batch \ cut
      /\ WriteEntity(e)
  BY DEF WriteCommits, CutApart, serverVars
<1>2. Pending = dirty \cup batch /\ Pending' = dirty \cup (batch \ {e})
  BY <1>1 DEF Pending, InFlight
<1>3. CASE e \in dirty
  <2>1. (Pending \cup cut)' = Pending \cup cut
    BY <1>1, <1>2, <1>3
  <2> QED
    BY <1>1, <1>2, <1>3, <2>1 DEF Ledger!SaveOvertaken, WriteEntity
<1>4. CASE e \notin dirty
  <2>1. dbVotes'[e] = votes[e] /\ dbScore'[e] = score[e]
    BY <1>4, CommitSaves
  <2>2. dbVotes' = [dbVotes EXCEPT ![e] = votes[e]]
    BY <1>1, <2>1 DEF WriteEntity
  <2>3. dbScore' = [dbScore EXCEPT ![e] = score[e]]
    BY <1>1, <2>1 DEF WriteEntity
  <2>4. (Pending \cup cut)' = (Pending \cup cut) \ {e}
    BY <1>1, <1>2, <1>4
  <2> QED
    BY <1>1, <1>2, <2>2, <2>3, <2>4 DEF Ledger!Save
<1> QED
  BY <1>3, <1>4

LEMMA FailureRefines ==
    ASSUME TypeOK, NEW e \in Entities, WriteFails(e)
    PROVE  Ledger!SaveOvertaken(e) \/ UNCHANGED Ledger!ledgerVars
<1>1. /\ UNCHANGED <<votes, score, cut>>
      /\ e \in Pending /\ Pending' = Pending
  BY DEF WriteFails, Pending, InFlight, redisVars, serverVars
<1>2. UNCHANGED dbVars \/ WriteEntity(e)
  BY DEF WriteFails
<1> QED
  BY <1>1, <1>2 DEF WriteEntity, TypeOK, dbVars, Ledger!SaveOvertaken, Ledger!ledgerVars

\* While failing transactions are the only fault, the buffer implements the
\* ledger, also for entities that are gone: a vote counts once and at once, and
\* only a save that no vote overtook takes an entity off the pending ones
\* (vote.go:18-62, flush.go:119-202).
THEOREM BufferImplementsLedger == Spec => ImplementsLedger
<1>1. Init => (OnlySavesFail => Ledger!Init)
  BY DEF Init, Ledger!Init, Pending, InFlight, NoVote
<1>2. SyncHolds /\ SyncHolds' /\ ScoreIsSum /\ GoneUnsaved' /\ [Next]_vars
        => [OnlySavesFail => [Ledger!Next]_(Ledger!ledgerVars)]_vars
  <2> SUFFICES ASSUME OnlySavesFail, SyncInv, SyncInv', ScoreIsSum, GoneUnsaved', [Next]_vars
               PROVE  Ledger!Next \/ UNCHANGED Ledger!ledgerVars
    BY FaultsFixed DEF SyncHolds, OnlySavesFail
  <2>0. RedisKeeps /\ RedisKeeps' /\ "crash" \notin faults
    BY FaultsFixed DEF OnlySavesFail, RedisKeeps
  <2> USE DEF redisVars, dbVars, flushVars, serverVars
  <2>1. TypeOK /\ Stages /\ Seeded
    BY DEF SyncInv, LosslessInv
  <2>2. RedisMayFail => InFlight \subseteq dirty \cup cut
    BY DEF SyncInv, CutHeld, RedisMayFail, OnlySavesFail
  <2>3. ASSUME NEW e \in Entities, NEW u \in Users, NEW v \in Vote, CastVote(e, u, v)
        PROVE  Ledger!Next \/ UNCHANGED Ledger!ledgerVars
    <3>1. v \in Ledger!Vote
      BY DEF Vote, Ledger!Vote
    <3> QED
      BY <2>1, <2>3, <3>1, CastRefines DEF Ledger!Next
  <2>4. ASSUME NEW e \in Entities, WriteCommits(e)
        PROVE  Ledger!Next
    BY <2>0, <2>4, WriteRefines DEF Ledger!Next
  <2>5. ASSUME NEW e \in Entities, WriteFails(e)
        PROVE  Ledger!Next \/ UNCHANGED Ledger!ledgerVars
    BY <2>1, <2>5, FailureRefines DEF Ledger!Next
  <2>6. ASSUME UNCHANGED <<votes, score, dbVotes, dbScore>>, (Pending \cup cut)' = Pending \cup cut
        PROVE  UNCHANGED Ledger!ledgerVars
    BY <2>6 DEF Ledger!ledgerVars
  <2>7. CASE Tick \/ FinalFlush \/ Grab \/ GrabFails \/ ReadFails
    BY <2>1, <2>6, <2>7
       DEF Tick, FinalFlush, Grab, GrabFails, ReadFails, EndOfType, Stages, Pending, InFlight
  <2>8. CASE ClearDirty
    BY <2>6, <2>8 DEF ClearDirty, Pending, InFlight
  <2>9. CASE Remark
    <3>1. /\ UNCHANGED <<votes, score, dbVotes, dbScore, cut>>
          /\ pc = "remark"
          /\ dirty' = dirty \cup redo \/ (RedisMayFail /\ dirty' = dirty)
          /\ batch' = batch \ redo
          /\ pc' = "write" \/ (batch' = {} /\ pc' \in {"grab", "idle", "stopped"})
      BY <2>9 DEF Remark, Leave, EndOfType
    <3>2. redo \subseteq batch
      BY <2>1 DEF TypeOK
    <3>3. InFlight = batch /\ Pending = dirty \cup batch /\ Pending' = dirty' \cup batch'
      BY <3>1 DEF Pending, InFlight
    <3>4. (Pending \cup cut)' = Pending \cup cut
      BY <2>2, <3>1, <3>2, <3>3
    <3> QED
      BY <2>6, <3>1, <3>4
  <2>10. ASSUME NEW e \in Entities, ReadVotes(e) \/ ReadScore(e) \/ ReadDeleted(e)
         PROVE  UNCHANGED Ledger!ledgerVars
    BY <2>6, <2>10 DEF ReadVotes, ReadScore, ReadDeleted, Pending, InFlight
  <2>11. ASSUME NEW e \in Entities, Ack(e)
         PROVE  UNCHANGED Ledger!ledgerVars
    <3>1. /\ UNCHANGED <<votes, score, dirty, dbVotes, dbScore, cut>>
          /\ pc = "ack"
          /\ batch' = batch \ {e}
          /\ pc' = "write" \/ (batch' = {} /\ pc' \in {"grab", "idle", "stopped"})
      BY <2>11 DEF Ack, Leave, EndOfType
    <3>2. cur = {e}
      BY <2>1, <2>11 DEF Ack, Stages
    <3>3. Pending = dirty \cup (batch \ {e}) /\ Pending' = dirty' \cup batch'
      BY <3>1, <3>2 DEF Pending, InFlight
    <3> QED
      BY <2>6, <3>1, <3>3
  <2>12. CASE Restart
    <3>1. UNCHANGED <<redisVars, dbVars>>
      BY <2>1, <2>12, RestartKeepsRedis
    <3>2. pc = "stopped" /\ pc' = "idle" /\ batch' = {} /\ batch = {} /\ cut' = cut
      BY <2>0, <2>1, <2>12 DEF Restart, Stages
    <3> QED
      BY <2>6, <3>1, <3>2 DEF Pending, InFlight
  <2>13. CASE StopAccepting \/ CancelWorker \/ UNCHANGED vars
    BY <2>6, <2>13 DEF StopAccepting, CancelWorker, vars, Pending, InFlight
  <2> QED
    BY <2>0, <2>3, <2>4, <2>5, <2>7, <2>8, <2>9, <2>10, <2>11, <2>12, <2>13
       DEF Next, FlushStep, RedisLoss, RedisKeeps
<1> QED
  BY <1>1, <1>2, SyncSafe, ScoreIsSumSafe, GoneUnsavedSafe, PTL DEF Spec, ImplementsLedger
=============================================================================
