-------------------------- MODULE JobManagerProofs --------------------------
(***************************************************************************)
(* Proofs about JobManager, for any number of jobs, streams and items and  *)
(* any channel capacity.                                                   *)
(***************************************************************************)
EXTENDS JobManager, TLAPS

ActorPc   == {"off", "start", "loop", "item", "ended", "complete", "sleep", "over"}
ActorCast == {"none", "list", "send"}

\* A runner works on an item only while items are left, and has not begun
\* before its job is registered.
RunnerInv ==
    \A j \in Jobs : /\ pc[<<"run", j>>] = "item" => progress[j] < Items
                    /\ pc[<<"run", j>>] = "off" => status[j] = "none" /\ j \notin listed

\* The conjuncts of TypeOK about jobs, and those about lists.
JobTypes ==
    /\ status \in [Jobs -> Status]
    /\ progress \in [Jobs -> 0..Items]
    /\ ctxDone \subseteq Jobs
    /\ listed \subseteq Jobs
    /\ pc \in [Actors -> ActorPc]
    /\ cast \in [Actors -> ActorCast]

ListTypes ==
    /\ left \in [Actors \cup Streams -> SUBSET Jobs]
    /\ view \in [Actors \cup Streams -> Lists]
    /\ subs \subseteq Streams
    /\ chan \in [Streams -> Seq(Lists)]
    /\ \A s \in Streams : Len(chan[s]) <= Cap
    /\ stream \in [Streams -> {"off", "list", "write", "wait"}]
    /\ seen \in [Streams -> Lists]

LEMMA TypesSplit == TypeOK <=> JobTypes /\ ListTypes
  BY DEF TypeOK, JobTypes, ListTypes, ActorPc, ActorCast

LEMMA ActorsOf ==
    ASSUME NEW j \in Jobs
    PROVE  <<"run", j>> \in Actors /\ <<"cancel", j>> \in Actors
  BY DEF Actors

LEMMA JobOfActor == \A a \in Actors : a[2] \in Jobs
  BY DEF Actors

\* The runner of a job and its canceller, and the runners of two jobs, differ.
LEMMA ActorsDiffer ==
    \A i, j \in Jobs : /\ <<"run", i>> # <<"cancel", j>>
                       /\ <<"run", i>> = <<"run", j>> => i = j
  OBVIOUS

LEMMA EmptyIsList == EmptyList \in Lists
<1>1. EmptyList \in [{} -> Snapshot]
  BY DEF EmptyList
<1> QED
  BY <1>1 DEF Lists

LEMMA ListGrows ==
    ASSUME NEW l \in Lists, NEW j \in Jobs, NEW v \in Snapshot
    PROVE  [k \in DOMAIN l \cup {j} |-> IF k = j THEN v ELSE l[k]] \in Lists
<1>1. PICK D \in SUBSET Jobs : l \in [D -> Snapshot]
  BY DEF Lists
<1>2. D \cup {j} \in SUBSET Jobs
  OBVIOUS
<1>3. [k \in DOMAIN l \cup {j} |-> IF k = j THEN v ELSE l[k]] \in [D \cup {j} -> Snapshot]
  BY <1>1
<1> QED
  BY <1>2, <1>3 DEF Lists

-----------------------------------------------------------------------------
LEMMA InitTypes == ASSUME Init PROVE TypeOK /\ RunnerInv
<1> USE JobManagerAssumption DEF JobManagerAssumption
<1>1. JobTypes
  BY DEF Init, JobTypes, Status, ActorPc, ActorCast
<1>2. ListTypes
  BY EmptyIsList DEF Init, ListTypes
<1>3. RunnerInv
  BY ActorsOf DEF Init, RunnerInv
<1> QED
  BY <1>1, <1>2, <1>3, TypesSplit

\* Steps that change a job, a runner or a canceller.
JobStep ==
    \/ \E j \in Jobs : Register(j) \/ Runner(j) \/ Cancel(j)
    \/ \E a \in Actors : Cleanup(a)

LEMMA JobStepKeepsLists ==
    ASSUME JobStep PROVE UNCHANGED <<listVars, streamVars>>
  BY DEF JobStep, Register, Runner, Start, NextItem, NoMoreItems, SetProgress, Fail,
         LastCheck, Complete, Cancel, Cleanup

LEMMA JobStepTypes ==
    ASSUME JobTypes, RunnerInv, JobStep
    PROVE  JobTypes' /\ RunnerInv'
<1> USE JobManagerAssumption DEF JobManagerAssumption, JobTypes, RunnerInv, Status, ActorPc,
        ActorCast, At, Go, ChangeAndBroadcast, Terminal
<1>1. ASSUME NEW j \in Jobs, Register(j) PROVE JobTypes' /\ RunnerInv'
  BY <1>1, ActorsOf, ActorsDiffer DEF Register
<1>2. ASSUME NEW j \in Jobs, Start(j) PROVE JobTypes' /\ RunnerInv'
  BY <1>2, ActorsOf, ActorsDiffer DEF Start
<1>3. ASSUME NEW j \in Jobs, NextItem(j) PROVE JobTypes' /\ RunnerInv'
  BY <1>3, ActorsOf, ActorsDiffer DEF NextItem, jobVars
<1>4. ASSUME NEW j \in Jobs, NoMoreItems(j) PROVE JobTypes' /\ RunnerInv'
  BY <1>4, ActorsOf, ActorsDiffer DEF NoMoreItems, jobVars
<1>5. ASSUME NEW j \in Jobs, SetProgress(j) PROVE JobTypes' /\ RunnerInv'
  <2>1. progress[j] \in 0..Items /\ progress[j] < Items
    BY <1>5, ActorsOf DEF SetProgress
  <2>2. progress[j] + 1 \in 0..Items
    BY <2>1
  <2>3. progress' \in [Jobs -> 0..Items]
    BY <1>5, <2>2 DEF SetProgress
  <2>4. pc' = [pc EXCEPT ![<<"run", j>>] = "loop"] /\ UNCHANGED <<status, listed>>
    BY <1>5 DEF SetProgress
  <2>5. JobTypes'
    BY <1>5, <2>3, <2>4, ActorsOf DEF SetProgress
  <2>6. ASSUME NEW i \in Jobs PROVE RunnerInv!(i)'
    <3>1. CASE i = j
      BY <2>4, <3>1, ActorsOf
    <3>2. CASE i # j
      <4>1. pc'[<<"run", i>>] = pc[<<"run", i>>]
        BY <2>4, <3>2, ActorsOf, ActorsDiffer
      <4>2. progress'[i] = progress[i]
        BY <1>5, <3>2 DEF SetProgress
      <4> QED
        BY <2>4, <4>1, <4>2
    <3> QED
      BY <3>1, <3>2
  <2> QED
    BY <2>5, <2>6
<1>6. ASSUME NEW j \in Jobs, Fail(j) PROVE JobTypes' /\ RunnerInv'
  BY <1>6, ActorsOf, ActorsDiffer DEF Fail
<1>7. ASSUME NEW j \in Jobs, LastCheck(j) PROVE JobTypes' /\ RunnerInv'
  BY <1>7, ActorsOf, ActorsDiffer DEF LastCheck, jobVars
<1>8. ASSUME NEW j \in Jobs, Complete(j) PROVE JobTypes' /\ RunnerInv'
  BY <1>8, ActorsOf, ActorsDiffer DEF Complete
<1>9. ASSUME NEW j \in Jobs, Cancel(j) PROVE JobTypes' /\ RunnerInv'
  BY <1>9, ActorsOf, ActorsDiffer DEF Cancel
<1>10. ASSUME NEW a \in Actors, Cleanup(a) PROVE JobTypes' /\ RunnerInv'
  BY <1>10, ActorsOf DEF Cleanup
<1> QED
  BY <1>1, <1>2, <1>3, <1>4, <1>5, <1>6, <1>7, <1>8, <1>9, <1>10 DEF JobStep, Runner

-----------------------------------------------------------------------------
\* Steps that only list, send, receive or write.
ListStep ==
    \/ \E a \in Actors : BroadcastLists(a) \/ BroadcastSends(a)
    \/ \E s \in Streams : Subscribe(s) \/ StreamStep(s)
    \/ \E x \in Actors \cup Streams : ReadStep(x)

LEMMA NextIsJobOrListStep == Next => JobStep \/ ListStep
  BY DEF Next, JobStep, ListStep, ActorStep

LEMMA ListStepKeepsJobs ==
    ASSUME ListStep PROVE UNCHANGED <<jobVars, pc>>
  BY DEF ListStep, StreamStep, ReadStep, BroadcastLists, BroadcastSends, Subscribe, StreamLists,
         StreamWrites, UserReceives, AdminReceives, ReadJob, actorVars

LEMMA ListStepTypes ==
    ASSUME JobTypes, ListTypes, ListStep
    PROVE  JobTypes' /\ ListTypes'
<1> USE JobManagerAssumption DEF JobManagerAssumption, JobTypes, ListTypes, ActorCast
<1>1. UNCHANGED <<jobVars, pc>>
  BY ListStepKeepsJobs
<1>2. \A x \in Actors \cup Streams : Scope(x) \subseteq Jobs
  BY DEF Scope
<1>3. ASSUME NEW a \in Actors, BroadcastLists(a) PROVE JobTypes' /\ ListTypes'
  BY <1>1, <1>2, <1>3, EmptyIsList DEF BroadcastLists, BeginList, streamVars, jobVars
<1>4. ASSUME NEW a \in Actors, BroadcastSends(a) PROVE JobTypes' /\ ListTypes'
  <2>1. chan' \in [Streams -> Seq(Lists)] /\ \A s \in Streams : Len(chan'[s]) <= Cap
    <3>1. ASSUME NEW s \in Streams
          PROVE  /\ Append(chan[s], view[a]) \in Seq(Lists)
                 /\ Len(Append(chan[s], view[a])) = Len(chan[s]) + 1
      OBVIOUS
    <3>2. ASSUME NEW s \in Streams
          PROVE  chan'[s] \in Seq(Lists) /\ Len(chan'[s]) <= Cap
      <4>1. chan'[s] = IF s \in subs /\ Len(chan[s]) < Cap
                       THEN Append(chan[s], view[a]) ELSE chan[s]
        BY <1>4 DEF BroadcastSends
      <4>2. Len(chan[s]) \in Nat
        OBVIOUS
      <4> QED
        BY <3>1, <4>1, <4>2
    <3> QED
      BY <1>4, <3>2 DEF BroadcastSends
  <2> QED
    BY <1>1, <1>4, <2>1, EmptyIsList DEF BroadcastSends, jobVars
<1>5. ASSUME NEW s \in Streams, Subscribe(s) PROVE JobTypes' /\ ListTypes'
  BY <1>1, <1>5 DEF Subscribe, jobVars, actorVars, listVars
<1>6. ASSUME NEW s \in Streams, StreamLists(s) PROVE JobTypes' /\ ListTypes'
  BY <1>1, <1>2, <1>6, EmptyIsList DEF StreamLists, BeginList, jobVars, actorVars
<1>7. ASSUME NEW s \in Streams, StreamWrites(s) PROVE JobTypes' /\ ListTypes'
  BY <1>1, <1>7, EmptyIsList DEF StreamWrites, jobVars, actorVars
<1>8. ASSUME NEW s \in Streams, chan[s] # <<>>
      PROVE  Tail(chan[s]) \in Seq(Lists) /\ Len(Tail(chan[s])) <= Cap /\ Head(chan[s]) \in Lists
  BY <1>8
<1>9. ASSUME NEW s \in Streams, UserReceives(s) PROVE JobTypes' /\ ListTypes'
  BY <1>1, <1>8, <1>9 DEF UserReceives, jobVars, actorVars, listVars
<1>10. ASSUME NEW s \in Streams, AdminReceives(s) PROVE JobTypes' /\ ListTypes'
  BY <1>1, <1>8, <1>10 DEF AdminReceives, jobVars, actorVars, listVars
<1>11. ASSUME NEW x \in Actors \cup Streams, NEW j \in Jobs, ReadJob(x, j)
       PROVE  JobTypes' /\ ListTypes'
  <2>1. SnapshotOf(j) \in Snapshot
    BY DEF SnapshotOf, Snapshot
  <2>2. view[x] \in Lists
    OBVIOUS
  <2> DEFINE v == SnapshotOf(j)
             l == view[x]
  <2>3. [k \in DOMAIN l \cup {j} |-> IF k = j THEN v ELSE l[k]] \in Lists
    <3> HIDE DEF v, l, JobTypes, ListTypes
    <3>1. v \in Snapshot /\ l \in Lists
      BY <2>1, <2>2 DEF v, l
    <3> QED
      BY <3>1, ListGrows
  <2> QED
    BY <1>1, <1>11, <2>3 DEF ReadJob, jobVars, actorVars, streamVars
<1> QED
  BY <1>3, <1>4, <1>5, <1>6, <1>7, <1>9, <1>10, <1>11 DEF ListStep, StreamStep, ReadStep

LEMMA NextTypes ==
    ASSUME TypeOK, RunnerInv, [Next]_vars
    PROVE  TypeOK' /\ RunnerInv'
<1> USE TypesSplit
<1>1. CASE JobStep
  <2>1. ListTypes'
    BY <1>1, JobStepKeepsLists DEF ListTypes, listVars, streamVars
  <2>2. JobTypes' /\ RunnerInv'
    BY <1>1, JobStepTypes
  <2> QED
    BY <2>1, <2>2 DEF TypeOK, JobTypes, ListTypes, ActorPc, ActorCast
<1>2. CASE ListStep
  <2>1. JobTypes' /\ ListTypes'
    BY <1>2, ListStepTypes
  <2>2. RunnerInv'
    BY <1>2, ListStepKeepsJobs DEF RunnerInv, jobVars
  <2> QED
    BY <2>1, <2>2 DEF TypeOK, JobTypes, ListTypes, ActorPc, ActorCast
<1>3. CASE UNCHANGED vars
  BY <1>3 DEF TypeOK, RunnerInv, vars, jobVars, actorVars, listVars, streamVars
<1> QED
  BY <1>1, <1>2, <1>3, NextIsJobOrListStep

\* Every variable keeps its type; a channel never holds more than Cap lists.
THEOREM TypeCorrect == Spec => []TypeOK
<1>1. Init => TypeOK /\ RunnerInv
  BY InitTypes
<1>2. TypeOK /\ RunnerInv /\ [Next]_vars => TypeOK' /\ RunnerInv'
  BY NextTypes
<1> QED
  BY <1>1, <1>2, PTL DEF Spec

-----------------------------------------------------------------------------
(* What a user is shown.  A change of the registry is followed by its      *)
(* broadcast, a broadcast leaves a message in every subscribed channel,    *)
(* and a message makes the stream list again.  So while no broadcast is    *)
(* under way and no message waits, whatever the stream has read, or has    *)
(* written, is still true.                                                 *)

Calm(s) == chan[s] = <<>> /\ \A a \in Actors : cast[a] = "none"

StreamInv(s) ==
    /\ s \notin subs => stream[s] = "off"
    /\ Calm(s) /\ stream[s] = "write" =>
          /\ left[s] \subseteq Scope(s)
          /\ view[s] = [j \in Scope(s) \ left[s] |-> SnapshotOf(j)]
    /\ Calm(s) /\ stream[s] = "wait" => seen[s] = CurrentList(s)

UserInv == \A s \in UserStreams : StreamInv(s)

LEMMA InitUserInv == Init => UserInv
  BY DEF Init, UserInv, StreamInv, Streams

\* Whatever changes the registry sets its actor broadcasting.
LEMMA ChangesAreBroadcast ==
    ASSUME JobTypes, JobStep
    PROVE  UNCHANGED <<jobVars, cast>> \/ \E a \in Actors : cast'[a] # "none"
<1> USE DEF JobTypes
<1>1. ASSUME NEW a \in Actors, NEW where, ChangeAndBroadcast(a, where)
      PROVE  cast'[a] # "none"
  BY <1>1 DEF ChangeAndBroadcast
<1>2. ASSUME NEW j \in Jobs, Register(j) \/ Start(j) \/ SetProgress(j) \/ Fail(j)
                             \/ Complete(j) \/ Cancel(j)
      PROVE  \E a \in Actors : cast'[a] # "none"
  BY <1>1, <1>2, ActorsOf DEF Register, Start, SetProgress, Fail, Complete, Cancel
<1>3. ASSUME NEW j \in Jobs, NextItem(j) \/ NoMoreItems(j) \/ LastCheck(j)
      PROVE  UNCHANGED <<jobVars, cast>>
  BY <1>3 DEF NextItem, NoMoreItems, LastCheck
<1>4. ASSUME NEW a \in Actors, Cleanup(a) PROVE cast'[a] # "none"
  BY <1>1, <1>4 DEF Cleanup
<1> QED
  BY <1>2, <1>3, <1>4 DEF JobStep, Runner

LEMMA StutterUserInv ==
    ASSUME UserInv, UNCHANGED <<jobVars, cast, listVars, streamVars>> PROVE UserInv'
<1> SUFFICES ASSUME NEW s \in UserStreams PROVE StreamInv(s)'
  BY DEF UserInv
<1>1. StreamInv(s)
  BY DEF UserInv
<1>2. Scope(s)' = Scope(s) /\ \A j : SnapshotOf(j)' = SnapshotOf(j)
  BY DEF Scope, SnapshotOf, jobVars
<1>3. CurrentList(s)' = CurrentList(s)
  BY <1>2 DEF CurrentList
<1>4. [j \in Scope(s) \ left[s] |-> SnapshotOf(j)]' = [j \in Scope(s) \ left[s] |-> SnapshotOf(j)]
  BY <1>2 DEF listVars
<1>5. Calm(s)' = Calm(s)
  BY DEF Calm, streamVars
<1> QED
  BY <1>1, <1>2, <1>3, <1>4, <1>5 DEF StreamInv, listVars, streamVars

LEMMA JobStepUserInv ==
    ASSUME JobTypes, UserInv, JobStep PROVE UserInv'
<1>1. UNCHANGED <<listVars, streamVars>>
  BY JobStepKeepsLists
<1>2. CASE UNCHANGED <<jobVars, cast>>
  BY <1>1, <1>2, StutterUserInv
<1>3. CASE \E a \in Actors : cast'[a] # "none"
  BY <1>1, <1>3 DEF UserInv, StreamInv, Calm, streamVars
<1> QED
  BY <1>2, <1>3, ChangesAreBroadcast

LEMMA ListStepUserInv ==
    ASSUME JobTypes, ListTypes, UserInv, ListStep PROVE UserInv'
<1> USE JobManagerAssumption DEF JobManagerAssumption
<1>1. UNCHANGED <<jobVars, pc>>
  BY ListStepKeepsJobs
<1>2. \A s \in Streams : Scope(s)' = Scope(s) /\ CurrentList(s)' = CurrentList(s)
  BY <1>1 DEF Scope, CurrentList, SnapshotOf, jobVars
<1>3. \A j \in Jobs : SnapshotOf(j)' = SnapshotOf(j)
  BY <1>1 DEF SnapshotOf, jobVars
<1> SUFFICES ASSUME NEW s \in UserStreams PROVE StreamInv(s)'
  BY DEF UserInv
<1>4. s \in Streams /\ s \notin Actors /\ StreamInv(s)
  BY DEF Streams, UserInv
<1>5. Scope(s) \subseteq Jobs
  BY DEF Scope, JobTypes
\* A step that leaves the stream alone and calms nothing.
<1>6. ASSUME Calm(s)' => Calm(s), UNCHANGED <<subs, stream[s], left[s], view[s], seen[s]>>
      PROVE  StreamInv(s)'
  <2>1. [j \in Scope(s) \ left[s] |-> SnapshotOf(j)]'
          = [j \in Scope(s) \ left[s] |-> SnapshotOf(j)]
    BY <1>2, <1>3, <1>4, <1>5, <1>6
  <2> QED
    BY <1>2, <1>4, <1>6, <2>1 DEF StreamInv
<1>7. ASSUME NEW a \in Actors, BroadcastLists(a) PROVE StreamInv(s)'
  BY <1>4, <1>6, <1>7 DEF BroadcastLists, BeginList, Calm, ListTypes, JobTypes, streamVars
<1>8. ASSUME NEW a \in Actors, BroadcastSends(a) PROVE StreamInv(s)'
  <2>1. CASE s \notin subs
    BY <1>4, <1>8, <2>1 DEF BroadcastSends, StreamInv
  <2>2. CASE s \in subs
    <3>1. chan'[s] = IF Len(chan[s]) < Cap THEN Append(chan[s], view[a]) ELSE chan[s]
      BY <1>4, <1>8, <2>2 DEF BroadcastSends
    <3>2. chan'[s] # <<>>
      <4>1. chan[s] \in Seq(Lists) /\ view[a] \in Lists
        BY <1>4 DEF ListTypes
      <4>2. Append(chan[s], view[a]) # <<>>
        BY <4>1
      <4>3. Len(chan[s]) >= Cap => chan[s] # <<>>
        BY <4>1
      <4> QED
        BY <3>1, <4>1, <4>2, <4>3
    <3> QED
      BY <1>4, <1>8, <2>2, <3>2 DEF BroadcastSends, StreamInv, Calm
  <2> QED
    BY <2>1, <2>2
<1>9. ASSUME NEW t \in Streams, Subscribe(t) PROVE StreamInv(s)'
  <2>1. CASE t = s
    BY <1>4, <1>9, <2>1 DEF Subscribe, StreamInv, ListTypes
  <2>2. CASE t # s
    BY <1>2, <1>3, <1>4, <1>9, <2>2
       DEF Subscribe, StreamInv, Calm, ListTypes, listVars, actorVars, Scope, jobVars, SnapshotOf
  <2> QED
    BY <2>1, <2>2
<1>10. ASSUME NEW t \in Streams, StreamLists(t) PROVE StreamInv(s)'
  <2>1. CASE t = s
    <3>1. left'[s] = Scope(s) /\ view'[s] = EmptyList
      BY <1>4, <1>10, <2>1 DEF StreamLists, BeginList, ListTypes
    <3>2. Scope(s)' \ left'[s] = {}
      BY <1>2, <1>4, <3>1
    <3>3. view'[s] = [j \in Scope(s) \ left[s] |-> SnapshotOf(j)]'
      BY <3>1, <3>2 DEF EmptyList
    <3>4. stream'[s] = "write" /\ subs' = subs
      BY <1>4, <1>10, <2>1 DEF StreamLists, ListTypes
    <3>5. s \in subs
      BY <1>4, <1>10, <2>1 DEF StreamLists, StreamInv
    <3> QED
      BY <1>2, <1>4, <3>1, <3>3, <3>4, <3>5 DEF StreamInv
  <2>2. CASE t # s
    BY <1>4, <1>6, <1>10, <2>2 DEF StreamLists, BeginList, Calm, ListTypes, actorVars
  <2> QED
    BY <2>1, <2>2
<1>11. ASSUME NEW t \in Streams, StreamWrites(t) PROVE StreamInv(s)'
  <2>1. CASE t = s
    <3>1. seen'[s] = view[s] /\ stream'[s] = "wait" /\ left[s] = {} /\ subs' = subs
      BY <1>4, <1>11, <2>1 DEF StreamWrites, ListTypes
    <3>2. Calm(s)' = Calm(s)
      BY <1>11 DEF StreamWrites, Calm, actorVars
    <3>3. Calm(s) => seen'[s] = CurrentList(s)
      BY <1>4, <1>11, <2>1, <3>1 DEF StreamWrites, StreamInv, CurrentList
    <3>4. s \in subs
      BY <1>4, <1>11, <2>1 DEF StreamWrites, StreamInv
    <3> QED
      BY <1>2, <1>4, <3>1, <3>2, <3>3, <3>4 DEF StreamInv
  <2>2. CASE t # s
    BY <1>4, <1>6, <1>11, <2>2 DEF StreamWrites, Calm, ListTypes, actorVars
  <2> QED
    BY <2>1, <2>2
<1>12. ASSUME NEW t \in Streams, UserReceives(t) PROVE StreamInv(s)'
  <2>1. CASE t = s
    BY <1>4, <1>12, <2>1 DEF UserReceives, StreamInv, ListTypes
  <2>2. CASE t # s
    BY <1>4, <1>6, <1>12, <2>2 DEF UserReceives, Calm, ListTypes, actorVars, listVars
  <2> QED
    BY <2>1, <2>2
<1>13. ASSUME NEW t \in Streams, AdminReceives(t) PROVE StreamInv(s)'
  <2>1. t # s
    BY <1>13 DEF AdminReceives
  <2> QED
    BY <1>4, <1>6, <1>13, <2>1 DEF AdminReceives, Calm, ListTypes, actorVars, listVars
<1>14. ASSUME NEW x \in Actors \cup Streams, NEW j \in Jobs, ReadJob(x, j)
       PROVE  StreamInv(s)'
  <2>1. CASE x = s
    <3>1. /\ j \in left[s]
          /\ left'[s] = left[s] \ {j}
          /\ view'[s] = [k \in DOMAIN view[s] \cup {j} |->
                            IF k = j THEN SnapshotOf(j) ELSE view[s][k]]
          /\ UNCHANGED <<subs, chan, stream, seen, cast>>
      BY <1>4, <1>14, <2>1 DEF ReadJob, ListTypes, streamVars, actorVars
    <3>2. ASSUME Calm(s), stream[s] = "write"
          PROVE  /\ left'[s] \subseteq Scope(s)
                 /\ view'[s] = [k \in Scope(s) \ left'[s] |-> SnapshotOf(k)]
      <4>1. /\ left[s] \subseteq Scope(s)
            /\ view[s] = [k \in Scope(s) \ left[s] |-> SnapshotOf(k)]
        BY <1>4, <3>2 DEF StreamInv
      <4>2. DOMAIN view[s] \cup {j} = Scope(s) \ left'[s]
        BY <3>1, <4>1
      <4>3. \A k \in Scope(s) \ left[s] : view[s][k] = SnapshotOf(k)
        BY <4>1
      <4> QED
        BY <3>1, <4>1, <4>2, <4>3
    <3>3. [k \in Scope(s) \ left[s] |-> SnapshotOf(k)]' = [k \in Scope(s) \ left'[s] |-> SnapshotOf(k)]
      BY <1>2, <1>3, <1>4, <1>5
    <3> QED
      BY <1>2, <1>4, <3>1, <3>2, <3>3 DEF StreamInv, Calm
  <2>2. CASE x # s
    BY <1>4, <1>6, <1>14, <2>2 DEF ReadJob, Calm, ListTypes, actorVars, streamVars
  <2> QED
    BY <2>1, <2>2
<1> QED
  BY <1>7, <1>8, <1>9, <1>10, <1>11, <1>12, <1>13, <1>14 DEF ListStep, StreamStep, ReadStep

\* jobs_handlers.go:94-112: a user stream that has nothing left to receive,
\* while nobody broadcasts, has shown its client the registry as it is.
THEOREM UserStreamSafe == Spec => []UserStreamCurrent
<1>1. Init => UserInv
  BY InitUserInv
<1>2. TypeOK /\ UserInv /\ [Next]_vars => UserInv'
  <2> SUFFICES ASSUME TypeOK, UserInv, [Next]_vars PROVE UserInv'
    OBVIOUS
  <2>1. JobTypes /\ ListTypes
    BY TypesSplit
  <2>2. CASE UNCHANGED vars
    BY <2>2, StutterUserInv DEF vars, actorVars
  <2> QED
    BY <2>1, <2>2, JobStepUserInv, ListStepUserInv, NextIsJobOrListStep
<1>3. UserInv => UserStreamCurrent
  BY DEF UserInv, StreamInv, UserStreamCurrent, Settled, Calm
<1> QED
  BY <1>1, <1>2, <1>3, TypeCorrect, PTL DEF Spec

-----------------------------------------------------------------------------
\* jobs.go:176-182, 379-383: a job that has ended, by whatever hand, never
\* becomes pending or running again.
THEOREM EndedStaysEndedSafe == Spec => EndedStaysEnded
<1>1. Init => TypeOK /\ RunnerInv
  BY InitTypes
<1>2. TypeOK /\ RunnerInv /\ [Next]_vars => TypeOK' /\ RunnerInv'
  BY NextTypes
<1> DEFINE Ended == \A j \in Jobs : status[j] \in Terminal => status'[j] \in Terminal
<1>3. TypeOK /\ RunnerInv /\ [Next]_vars => [Ended]_vars
  <2> SUFFICES ASSUME TypeOK, RunnerInv, Next PROVE Ended
    OBVIOUS
  <2>1. status \in [Jobs -> Status]
    BY DEF TypeOK
  <2>2. CASE ListStep
    BY <2>2, ListStepKeepsJobs DEF jobVars
  <2>3. ASSUME NEW j \in Jobs, Register(j) PROVE Ended
    BY <2>1, <2>3 DEF Register, At, RunnerInv, Terminal
  <2>4. ASSUME NEW j \in Jobs, Start(j) PROVE Ended
    BY <2>1, <2>4 DEF Start, Terminal
  <2>5. ASSUME NEW j \in Jobs, Fail(j) \/ Complete(j) \/ Cancel(j) PROVE Ended
    BY <2>1, <2>5 DEF Fail, Complete, Cancel, Terminal
  <2>6. ASSUME NEW j \in Jobs, NextItem(j) \/ NoMoreItems(j) \/ SetProgress(j) \/ LastCheck(j)
        PROVE  Ended
    BY <2>6 DEF NextItem, NoMoreItems, SetProgress, LastCheck, jobVars
  <2>7. ASSUME NEW a \in Actors, Cleanup(a) PROVE Ended
    BY <2>7 DEF Cleanup
  <2> QED
    BY <2>2, <2>3, <2>4, <2>5, <2>6, <2>7, NextIsJobOrListStep DEF JobStep, Runner
<1> QED
  BY <1>1, <1>2, <1>3, PTL DEF Spec, EndedStaysEnded
-----------------------------------------------------------------------------
(* Lists are never ahead.  The registry only moves forward: work is not    *)
(* taken back and an end is final.  So a list that was true of each of its *)
(* jobs when that job was read stays behind the registry, wherever it is   *)
(* kept: while it is read, in a channel, or on the client's screen.        *)

\* How far a job with this status has come.
Level(st) == IF st = "none" THEN 0 ELSE IF st = "pending" THEN 1
             ELSE IF st = "running" THEN 2 ELSE 3

Behind(l) ==
    \A j \in DOMAIN l : /\ l[j].status # "none"
                        /\ l[j].progress <= progress[j]
                        /\ Level(l[j].status) <= Level(status[j])

\* The same of the registry after a step.
StillBehind(l) ==
    \A j \in DOMAIN l : /\ l[j].status # "none"
                        /\ l[j].progress <= progress'[j]
                        /\ Level(l[j].status) <= Level(status'[j])

BehindInv ==
    /\ \A x \in Actors \cup Streams : Behind(view[x])
    /\ \A s \in Streams : /\ Behind(seen[s])
                          /\ \A i \in 1..Len(chan[s]) : Behind(chan[s][i])

\* What is listed, or about to be read, has been registered; a runner has left
\* "pending" behind before it works.
BegunInv ==
    /\ \A j \in listed : status[j] # "none"
    /\ \A x \in Actors \cup Streams : \A j \in left[x] : status[j] # "none"
    /\ \A j \in Jobs :
          /\ pc[<<"run", j>>] # "off" => status[j] # "none"
          /\ pc[<<"run", j>>] \in {"loop", "item", "ended", "complete"} => status[j] # "pending"

Forward ==
    \A j \in Jobs : progress[j] <= progress'[j] /\ Level(status[j]) <= Level(status'[j])

LEMMA JobsMoveForward ==
    ASSUME JobTypes, RunnerInv, [Next]_vars PROVE Forward
<1> USE DEF JobTypes, Level
<1>1. \A j \in Jobs : progress[j] <= progress[j]
  BY JobManagerAssumption DEF JobManagerAssumption
<1>2. ASSUME UNCHANGED jobVars PROVE Forward
  BY <1>1, <1>2 DEF Forward, jobVars
<1>3. ASSUME NEW j \in Jobs, Register(j) PROVE Forward
  BY <1>1, <1>3 DEF Register, At, RunnerInv, Forward
<1>4. ASSUME NEW j \in Jobs, Start(j) PROVE Forward
  BY <1>1, <1>4 DEF Start, Forward
<1>5. ASSUME NEW j \in Jobs, Fail(j) \/ Complete(j) \/ Cancel(j) PROVE Forward
  BY <1>1, <1>5 DEF Fail, Complete, Cancel, Forward
<1>6. ASSUME NEW j \in Jobs, SetProgress(j) PROVE Forward
  <2>1. progress[j] \in Nat /\ progress' = [progress EXCEPT ![j] = progress[j] + 1]
        /\ status' = status
    BY <1>6, JobManagerAssumption DEF SetProgress, JobManagerAssumption
  <2>2. progress[j] <= progress[j] + 1
    BY <2>1
  <2> QED
    BY <1>1, <2>1, <2>2 DEF Forward
<1>7. ASSUME NEW j \in Jobs, NextItem(j) \/ NoMoreItems(j) \/ LastCheck(j) PROVE Forward
  BY <1>2, <1>7 DEF NextItem, NoMoreItems, LastCheck
<1>8. ASSUME NEW a \in Actors, Cleanup(a) PROVE Forward
  BY <1>1, <1>8 DEF Cleanup, Forward
<1>9. CASE JobStep
  BY <1>3, <1>4, <1>5, <1>6, <1>7, <1>8, <1>9 DEF JobStep, Runner
<1>10. CASE ListStep
  BY <1>2, <1>10, ListStepKeepsJobs
<1>11. CASE UNCHANGED vars
  BY <1>2, <1>11 DEF vars
<1> QED
  BY <1>9, <1>10, <1>11, NextIsJobOrListStep

\* A list stays behind a registry that moves forward.
LEMMA BehindStays ==
    ASSUME JobTypes, JobTypes', Forward, NEW l \in Lists, Behind(l)
    PROVE  StillBehind(l)
<1> USE JobManagerAssumption DEF JobManagerAssumption, JobTypes
<1>1. PICK D \in SUBSET Jobs : l \in [D -> Snapshot]
  BY DEF Lists
<1> SUFFICES ASSUME NEW j \in DOMAIN l
             PROVE  /\ l[j].status # "none"
                    /\ l[j].progress <= progress'[j]
                    /\ Level(l[j].status) <= Level(status'[j])
  BY DEF StillBehind
<1>2. j \in Jobs /\ l[j].progress \in 0..Items
  BY <1>1 DEF Snapshot
<1>3. /\ l[j].status # "none"
      /\ l[j].progress <= progress[j]
      /\ Level(l[j].status) <= Level(status[j])
  BY DEF Behind
<1>4. progress[j] <= progress'[j] /\ Level(status[j]) <= Level(status'[j])
  BY <1>2 DEF Forward
<1>5. progress[j] \in Nat /\ progress'[j] \in Nat /\ l[j].progress \in Nat
  BY <1>2
<1>6. Level(l[j].status) <= Level(status'[j])
  BY <1>3, <1>4 DEF Level
<1> QED
  BY <1>3, <1>4, <1>5, <1>6

LEMMA BegunInit == Init => BegunInv
  BY ActorsOf DEF Init, BegunInv

LEMMA BegunStep ==
    ASSUME JobTypes, ListTypes, RunnerInv, BegunInv, [Next]_vars
    PROVE  BegunInv'
<1> USE DEF JobTypes, BegunInv, At, Go, ChangeAndBroadcast
<1>1. ASSUME UNCHANGED <<jobVars, pc>>, UNCHANGED left PROVE BegunInv'
  BY <1>1 DEF jobVars
<1>2. ASSUME NEW j \in Jobs, Register(j) PROVE BegunInv'
  BY <1>2, ActorsOf, ActorsDiffer DEF Register, listVars
<1>3. ASSUME NEW j \in Jobs, Start(j) PROVE BegunInv'
  BY <1>3, ActorsOf, ActorsDiffer DEF Start, listVars
<1>4. ASSUME NEW j \in Jobs, NextItem(j) \/ NoMoreItems(j) PROVE BegunInv'
  BY <1>4, ActorsOf, ActorsDiffer DEF NextItem, NoMoreItems, listVars, jobVars
<1>5. ASSUME NEW j \in Jobs, SetProgress(j) \/ LastCheck(j) PROVE BegunInv'
  BY <1>5, ActorsOf, ActorsDiffer DEF SetProgress, LastCheck, listVars, jobVars
<1>6. ASSUME NEW j \in Jobs, Fail(j) \/ Complete(j) PROVE BegunInv'
  <2>1. PICK st \in {"failed", "done"} : status' = [status EXCEPT ![j] = st]
    BY <1>6 DEF Fail, Complete
  <2>2. UNCHANGED <<left, listed>> /\ pc' = [pc EXCEPT ![<<"run", j>>] = "sleep"]
        /\ pc[<<"run", j>>] # "off"
    BY <1>6 DEF Fail, Complete, listVars
  <2>3. \A i \in Jobs : status[i] # "none" => status'[i] # "none"
    BY <2>1
  <2>4. status'[j] # "none"
    BY <2>1
  <2>5. ASSUME NEW i \in Jobs, i # j
        PROVE  pc'[<<"run", i>>] = pc[<<"run", i>>] /\ status'[i] = status[i]
    BY <2>1, <2>2, <2>5, ActorsOf, ActorsDiffer
  <2>6. pc'[<<"run", j>>] = "sleep"
    BY <2>2, ActorsOf
  <2> QED
    BY <2>2, <2>3, <2>4, <2>5, <2>6 DEF ListTypes
<1>7. ASSUME NEW j \in Jobs, Cancel(j) PROVE BegunInv'
  BY <1>7, ActorsOf, ActorsDiffer DEF Cancel, listVars
<1>8. ASSUME NEW a \in Actors, Cleanup(a) PROVE BegunInv'
  <2>1. /\ UNCHANGED <<status, left>> /\ listed' \subseteq listed
        /\ pc' = [pc EXCEPT ![a] = "over"] /\ pc[a] = "sleep"
    BY <1>8 DEF Cleanup, listVars
  <2> QED
    BY <2>1, ActorsOf
<1>9. ASSUME NEW x \in Actors \cup Streams, BeginList(x), UNCHANGED <<jobVars, pc>>
      PROVE  BegunInv'
  BY <1>9 DEF BeginList, Scope, jobVars, ListTypes
<1>10. CASE ListStep
  <2>1. UNCHANGED <<jobVars, pc>>
    BY <1>10, ListStepKeepsJobs
  <2>2. ASSUME NEW x \in Actors \cup Streams, ReadStep(x) PROVE BegunInv'
    BY <2>1, <2>2 DEF ReadStep, ReadJob, jobVars, ListTypes
  <2> QED
    BY <1>1, <1>9, <1>10, <2>1, <2>2
       DEF ListStep, StreamStep, BroadcastLists, BroadcastSends, Subscribe, StreamLists,
           StreamWrites, UserReceives, AdminReceives, listVars
<1>11. CASE JobStep
  BY <1>2, <1>3, <1>4, <1>5, <1>6, <1>7, <1>8, <1>11 DEF JobStep, Runner
<1>12. CASE UNCHANGED vars
  BY <1>1, <1>12 DEF vars, actorVars, listVars
<1> QED
  BY <1>10, <1>11, <1>12, NextIsJobOrListStep

LEMMA EmptyIsBehind == Behind(EmptyList) /\ StillBehind(EmptyList)
  BY DEF Behind, StillBehind, EmptyList

LEMMA InitBehind == Init => BehindInv
  BY EmptyIsBehind DEF Init, BehindInv

LEMMA NextBehind ==
    ASSUME TypeOK, TypeOK', RunnerInv, BegunInv, BehindInv, [Next]_vars PROVE BehindInv'
<1> USE JobManagerAssumption DEF JobManagerAssumption
<1>1. JobTypes /\ ListTypes /\ JobTypes' /\ ListTypes'
  BY TypesSplit DEF TypeOK, JobTypes, ListTypes, ActorPc, ActorCast
<1>2. Forward
  BY <1>1, JobsMoveForward
<1>3. ASSUME NEW l \in Lists, Behind(l) PROVE StillBehind(l)
  BY <1>1, <1>2, <1>3, BehindStays
\* What was kept before the step is still behind.
<1>4. \A x \in Actors \cup Streams : view[x] \in Lists /\ Behind(view[x])
  BY <1>1 DEF BehindInv, ListTypes
<1>5. \A s \in Streams : seen[s] \in Lists /\ Behind(seen[s])
  BY <1>1 DEF BehindInv, ListTypes
<1>6. \A s \in Streams : \A i \in 1..Len(chan[s]) : chan[s][i] \in Lists /\ Behind(chan[s][i])
  BY <1>1 DEF BehindInv, ListTypes
<1>7. \A l \in Lists : Behind(l) => StillBehind(l)
  BY <1>3
<1>8. StillBehind(EmptyList)
  BY EmptyIsBehind
<1> DEFINE Views == \A x \in Actors \cup Streams : StillBehind(view'[x])
           Shown == \A s \in Streams : StillBehind(seen'[s])
           Sent  == \A s \in Streams : \A i \in 1..Len(chan'[s]) : StillBehind(chan'[s][i])
<1>9. SUFFICES Views /\ Shown /\ Sent
  BY DEF BehindInv, Behind, StillBehind
<1>10. ASSUME view' = view PROVE Views
  BY <1>4, <1>7, <1>10
<1>11. ASSUME seen' = seen PROVE Shown
  BY <1>5, <1>7, <1>11
<1>12. ASSUME chan' = chan PROVE Sent
  BY <1>6, <1>7, <1>12
\* A list that is begun, or has been handed on, is empty.
<1>13. ASSUME NEW x \in Actors \cup Streams, view' = [view EXCEPT ![x] = EmptyList]
       PROVE  Views
  BY <1>1, <1>4, <1>7, <1>8, <1>13 DEF ListTypes
\* A list or the part of it that a stream receives.
<1>14. ASSUME NEW s \in Streams, chan[s] # <<>>, chan' = [chan EXCEPT ![s] = Tail(chan[s])]
       PROVE  Sent /\ Head(chan[s]) \in Lists /\ Behind(Head(chan[s]))
  <2>1. chan \in [Streams -> Seq(Lists)]
    BY <1>1 DEF ListTypes
  <2>2. /\ Len(chan[s]) \in Nat /\ Len(chan[s]) >= 1
        /\ Head(chan[s]) = chan[s][1]
        /\ Len(Tail(chan[s])) = Len(chan[s]) - 1
        /\ \A i \in 1..Len(Tail(chan[s])) : Tail(chan[s])[i] = chan[s][i + 1]
    BY <1>14, <2>1
  <2>3. Head(chan[s]) \in Lists /\ Behind(Head(chan[s]))
    <3>1. 1 \in 1..Len(chan[s])
      BY <2>2
    <3> QED
      BY <1>6, <2>2, <3>1
  <2>4. ASSUME NEW t \in Streams, NEW i \in 1..Len(chan'[t])
        PROVE  chan'[t][i] \in Lists /\ Behind(chan'[t][i])
    <3>1. CASE t = s
      <4>1. chan'[t] = Tail(chan[s])
        BY <1>14, <2>1, <3>1
      <4>2. i \in 1..(Len(chan[s]) - 1)
        BY <2>2, <4>1
      <4>3. i + 1 \in 1..Len(chan[s])
        BY <2>2, <4>2
      <4>4. chan'[t][i] = chan[s][i + 1]
        BY <2>2, <4>1
      <4> QED
        BY <1>6, <4>3, <4>4
    <3>2. CASE t # s
      <4>1. chan'[t] = chan[t]
        BY <1>14, <2>1, <3>2
      <4> QED
        BY <1>6, <4>1
    <3> QED
      BY <3>1, <3>2
  <2>5. Sent
    BY <1>7, <2>4
  <2> QED
    BY <2>3, <2>5
<1>15. CASE JobStep
  BY <1>10, <1>11, <1>12, <1>15, JobStepKeepsLists DEF listVars, streamVars
<1>16. ASSUME NEW a \in Actors, BroadcastLists(a) PROVE Views /\ Shown /\ Sent
  BY <1>11, <1>12, <1>13, <1>16 DEF BroadcastLists, BeginList, streamVars
<1>17. ASSUME NEW a \in Actors, BroadcastSends(a) PROVE Views /\ Shown /\ Sent
  <2>1. chan \in [Streams -> Seq(Lists)] /\ view[a] \in Lists /\ Behind(view[a])
    BY <1>1, <1>4 DEF ListTypes
  <2>2. ASSUME NEW s \in Streams, NEW i \in 1..Len(chan'[s])
        PROVE  chan'[s][i] \in Lists /\ Behind(chan'[s][i])
    <3>1. chan'[s] = IF s \in subs /\ Len(chan[s]) < Cap
                     THEN Append(chan[s], view[a]) ELSE chan[s]
      BY <1>17 DEF BroadcastSends
    <3>2. CASE chan'[s] = chan[s]
      BY <1>6, <3>2
    <3>3. CASE chan'[s] = Append(chan[s], view[a])
      <4>1. /\ Len(chan[s]) \in Nat /\ Len(chan'[s]) = Len(chan[s]) + 1
            /\ \A n \in 1..Len(chan[s]) : chan'[s][n] = chan[s][n]
            /\ chan'[s][Len(chan[s]) + 1] = view[a]
        BY <2>1, <3>3
      <4>2. i \in 1..Len(chan[s]) \/ i = Len(chan[s]) + 1
        BY <4>1
      <4> QED
        BY <1>6, <2>1, <4>1, <4>2
    <3> QED
      BY <3>1, <3>2, <3>3
  <2>3. Sent
    BY <1>7, <2>2
  <2>4. Views /\ Shown
    BY <1>11, <1>13, <1>17 DEF BroadcastSends
  <2> QED
    BY <2>3, <2>4
<1>18. ASSUME NEW s \in Streams, Subscribe(s) PROVE Views /\ Shown /\ Sent
  BY <1>10, <1>11, <1>12, <1>18 DEF Subscribe, listVars
<1>19. ASSUME NEW s \in Streams, StreamLists(s) PROVE Views /\ Shown /\ Sent
  BY <1>11, <1>12, <1>13, <1>19 DEF StreamLists, BeginList
<1>20. ASSUME NEW s \in Streams, NEW l \in Lists, Behind(l), seen' = [seen EXCEPT ![s] = l]
       PROVE  Shown
  BY <1>1, <1>5, <1>7, <1>20 DEF ListTypes
<1>21. ASSUME NEW s \in Streams, StreamWrites(s) PROVE Views /\ Shown /\ Sent
  <2>1. Views /\ Sent
    BY <1>12, <1>13, <1>21 DEF StreamWrites
  <2>2. view[s] \in Lists /\ Behind(view[s]) /\ seen' = [seen EXCEPT ![s] = view[s]]
    BY <1>4, <1>21 DEF StreamWrites
  <2> QED
    BY <1>20, <2>1, <2>2
<1>22. ASSUME NEW s \in Streams, UserReceives(s) PROVE Views /\ Shown /\ Sent
  BY <1>10, <1>11, <1>14, <1>22 DEF UserReceives, listVars
<1>23. ASSUME NEW s \in Streams, AdminReceives(s) PROVE Views /\ Shown /\ Sent
  <2>1. Sent /\ Head(chan[s]) \in Lists /\ Behind(Head(chan[s]))
    BY <1>14, <1>23 DEF AdminReceives
  <2>2. Views /\ seen' = [seen EXCEPT ![s] = Head(chan[s])]
    BY <1>10, <1>23 DEF AdminReceives, listVars
  <2> QED
    BY <1>20, <2>1, <2>2
<1>24. ASSUME NEW x \in Actors \cup Streams, NEW j \in Jobs, ReadJob(x, j)
       PROVE  Views /\ Shown /\ Sent
  <2>1. Shown /\ Sent
    BY <1>11, <1>12, <1>24 DEF ReadJob, streamVars
  <2>2. /\ view' = [view EXCEPT ![x] = [k \in DOMAIN view[x] \cup {j} |->
                                           IF k = j THEN SnapshotOf(j) ELSE view[x][k]]]
        /\ UNCHANGED <<status, progress>>
    BY <1>24 DEF ReadJob, jobVars
  <2>3. StillBehind(view'[x])
    <3>1. view'[x] = [k \in DOMAIN view[x] \cup {j} |->
                         IF k = j THEN SnapshotOf(j) ELSE view[x][k]]
      BY <1>1, <2>2 DEF ListTypes
    <3> SUFFICES ASSUME NEW k \in DOMAIN view'[x]
                 PROVE  /\ view'[x][k].status # "none"
                        /\ view'[x][k].progress <= progress'[k]
                        /\ Level(view'[x][k].status) <= Level(status'[k])
      BY DEF StillBehind
    <3>2. CASE k = j
      <4>1. view'[x][k] = [status |-> status[j], progress |-> progress[j]]
        BY <3>1, <3>2 DEF SnapshotOf
      <4>2. progress[j] <= progress[j] /\ Level(status[j]) <= Level(status[j])
        BY <1>1 DEF JobTypes, Level
      <4>3. status[j] # "none"
        BY <1>24 DEF ReadJob, BegunInv
      <4> QED
        BY <2>2, <3>2, <4>1, <4>2, <4>3
    <3>3. CASE k # j
      <4>1. k \in DOMAIN view[x] /\ view'[x][k] = view[x][k]
        BY <3>1, <3>3
      <4> QED
        BY <1>4, <2>2, <4>1 DEF Behind
    <3> QED
      BY <3>2, <3>3
  <2>4. ASSUME NEW y \in Actors \cup Streams, y # x PROVE StillBehind(view'[y])
    <3>1. view'[y] = view[y]
      BY <1>1, <2>2, <2>4 DEF ListTypes
    <3> QED
      BY <1>4, <1>7, <3>1
  <2>5. Views
    BY <2>3, <2>4
  <2> QED
    BY <2>1, <2>5
<1>25. CASE UNCHANGED vars
  BY <1>10, <1>11, <1>12, <1>25 DEF vars, listVars, streamVars
<1>26. CASE ListStep
  <2> HIDE DEF Views, Shown, Sent
  <2> QED
    BY <1>16, <1>17, <1>18, <1>19, <1>21, <1>22, <1>23, <1>24, <1>26
       DEF ListStep, StreamStep, ReadStep
<1> QED
  BY <1>15, <1>25, <1>26, NextIsJobOrListStep

LEMMA BehindSafe == Spec => [](TypeOK /\ RunnerInv /\ BegunInv /\ BehindInv)
<1>1. Init => TypeOK /\ RunnerInv /\ BegunInv /\ BehindInv
  BY InitTypes, BegunInit, InitBehind
<1>2. TypeOK /\ RunnerInv /\ BegunInv /\ BehindInv /\ [Next]_vars
        => (TypeOK /\ RunnerInv /\ BegunInv /\ BehindInv)'
  BY NextTypes, BegunStep, NextBehind, TypesSplit DEF TypeOK, JobTypes, ListTypes, ActorPc, ActorCast
<1> QED
  BY <1>1, <1>2, PTL DEF Spec

\* jobs.go:457-467: whatever overtakes what, no client sees work or an end
\* that the registry does not have.
THEOREM StreamsNeverAheadSafe == Spec => []StreamsNeverAhead
<1>1. TypeOK /\ BehindInv => StreamsNeverAhead
  <2> SUFFICES ASSUME TypeOK, BehindInv, NEW s \in Streams, NEW j \in DOMAIN seen[s]
               PROVE  /\ seen[s][j].progress <= progress[j]
                      /\ seen[s][j].status \in Terminal => status[j] \in Terminal
    BY DEF StreamsNeverAhead
  <2>1. PICK D \in SUBSET Jobs : seen[s] \in [D -> Snapshot]
    BY DEF TypeOK, Lists
  <2>2. j \in Jobs /\ status[j] \in Status
    BY <2>1 DEF TypeOK
  <2>3. /\ seen[s][j].progress <= progress[j]
        /\ Level(seen[s][j].status) <= Level(status[j])
    BY DEF BehindInv, Behind
  <2> QED
    BY <2>2, <2>3 DEF Level, Terminal, Status
<1> QED
  BY <1>1, BehindSafe, PTL

-----------------------------------------------------------------------------
(* Refinement.  What a user is shown besides stays within what he may see, *)
(* keeps every job that is still listed, and steps only forward: the list  *)
(* being made was begun after the one on the screen.                       *)

NotBefore(l, m) ==
    \A j \in DOMAIN l \cap DOMAIN m : /\ l[j].progress <= m[j].progress
                                     /\ Level(l[j].status) <= Level(m[j].status)

ShownForward(s) ==
    /\ left[s] \cup DOMAIN view[s] \cup DOMAIN seen[s] \subseteq Visible[s]
    /\ stream[s] = "write" => DOMAIN seen[s] \cap listed \subseteq left[s] \cup DOMAIN view[s]
    /\ NotBefore(seen[s], view[s])

ForwardInv == \A s \in UserStreams : ShownForward(s)

LEMMA EmptyDomain == DOMAIN EmptyList = {}
  BY DEF EmptyList

LEMMA ForwardInit == Init => ForwardInv
  BY EmptyDomain, JobManagerAssumption
     DEF Init, ForwardInv, ShownForward, NotBefore, JobManagerAssumption, Streams

\* A job that is added to the registry is on nobody's screen.
LEMMA ListedShrinks ==
    ASSUME TypeOK, RunnerInv, BehindInv, JobStep, NEW s \in Streams
    PROVE  DOMAIN seen[s] \cap listed' \subseteq DOMAIN seen[s] \cap listed
<1>1. CASE listed' \subseteq listed
  BY <1>1
<1>2. ASSUME NEW j \in Jobs, Register(j)
      PROVE  DOMAIN seen[s] \cap listed' \subseteq DOMAIN seen[s] \cap listed
  <2>1. status[j] = "none" /\ progress[j] \in Nat
    BY <1>2, JobManagerAssumption DEF Register, At, RunnerInv, TypeOK, JobManagerAssumption
  <2>2. j \notin DOMAIN seen[s]
    <3> SUFFICES ASSUME j \in DOMAIN seen[s] PROVE FALSE
      OBVIOUS
    <3>1. PICK D \in SUBSET Jobs : seen[s] \in [D -> Snapshot]
      BY DEF TypeOK, Lists
    <3>2. seen[s][j].status # "none" /\ Level(seen[s][j].status) <= Level(status[j])
      BY DEF BehindInv, Behind
    <3> QED
      BY <2>1, <3>1, <3>2 DEF Level
  <2> QED
    BY <1>2, <2>2 DEF Register
<1> QED
  BY <1>1, <1>2
     DEF JobStep, Runner, Start, NextItem, NoMoreItems, SetProgress, Fail, LastCheck, Complete,
         Cancel, Cleanup, jobVars

LEMMA ForwardStep ==
    ASSUME TypeOK, RunnerInv, BehindInv, ForwardInv, [Next]_vars
    PROVE  ForwardInv'
<1> USE DEF TypeOK
<1> SUFFICES ASSUME NEW s \in UserStreams PROVE ShownForward(s)'
  BY DEF ForwardInv
<1>0. ShownForward(s) /\ s \in Streams /\ s \in Actors \cup Streams /\ s \notin Actors
  BY JobManagerAssumption DEF ForwardInv, Streams, JobManagerAssumption
<1>1. ASSUME left'[s] = left[s], view'[s] = view[s], seen'[s] = seen[s],
             stream'[s] = "write" => stream[s] = "write",
             DOMAIN seen[s] \cap listed' \subseteq DOMAIN seen[s] \cap listed
      PROVE  ShownForward(s)'
  BY <1>0, <1>1 DEF ShownForward, NotBefore
<1>2. CASE JobStep
  BY <1>0, <1>1, <1>2, JobStepKeepsLists, ListedShrinks DEF listVars, streamVars
<1>3. CASE UNCHANGED vars
  BY <1>1, <1>3 DEF vars, jobVars, listVars, streamVars
<1>4. CASE StreamLists(s)
  <2>1. /\ left'[s] = listed \cap Visible[s] /\ view'[s] = EmptyList
        /\ UNCHANGED <<seen, listed>>
    BY <1>0, <1>4 DEF StreamLists, BeginList, Scope, jobVars
  <2> QED
    BY <1>0, <2>1, EmptyDomain DEF ShownForward, NotBefore
<1>5. CASE StreamWrites(s)
  <2>1. /\ UNCHANGED left /\ view'[s] = EmptyList /\ seen'[s] = view[s]
        /\ stream'[s] = "wait"
    BY <1>0, <1>5 DEF StreamWrites
  <2> QED
    BY <1>0, <2>1, EmptyDomain DEF ShownForward, NotBefore
<1>6. ASSUME NEW j \in Jobs, ReadJob(s, j) PROVE ShownForward(s)'
  <2>1. /\ j \in left[s] /\ left'[s] = left[s] \ {j}
        /\ view'[s] = [k \in DOMAIN view[s] \cup {j} |->
                          IF k = j THEN SnapshotOf(j) ELSE view[s][k]]
        /\ UNCHANGED <<listed, stream, seen>>
    BY <1>0, <1>6 DEF ReadJob, jobVars, streamVars
  <2>2. j \in DOMAIN seen[s] => /\ seen[s][j].progress <= progress[j]
                               /\ Level(seen[s][j].status) <= Level(status[j])
    BY <1>0 DEF BehindInv, Behind
  <2>3. ASSUME NEW k \in DOMAIN seen[s] \cap DOMAIN view'[s]
        PROVE  /\ seen[s][k].progress <= view'[s][k].progress
               /\ Level(seen[s][k].status) <= Level(view'[s][k].status)
    <3>1. CASE k = j
      BY <2>1, <2>2, <3>1 DEF SnapshotOf
    <3>2. CASE k # j
      BY <1>0, <2>1, <3>2 DEF ShownForward, NotBefore
    <3> QED
      BY <3>1, <3>2
  <2>4. DOMAIN view'[s] = DOMAIN view[s] \cup {j}
    BY <2>1
  <2> QED
    BY <1>0, <2>1, <2>3, <2>4 DEF ShownForward, NotBefore
<1>7. ASSUME NEW t \in Streams, t # s, StreamLists(t) \/ StreamWrites(t) PROVE ShownForward(s)'
  BY <1>0, <1>1, <1>7 DEF StreamLists, StreamWrites, BeginList, jobVars
<1>8. ASSUME NEW t \in Streams, Subscribe(t) \/ UserReceives(t) PROVE ShownForward(s)'
  BY <1>0, <1>1, <1>8 DEF Subscribe, UserReceives, jobVars, listVars
<1>9. ASSUME NEW t \in Streams, AdminReceives(t) PROVE ShownForward(s)'
  <2>1. t # s
    BY <1>9, JobManagerAssumption DEF AdminReceives, JobManagerAssumption
  <2> QED
    BY <1>0, <1>1, <1>9, <2>1 DEF AdminReceives, jobVars, listVars
<1>10. ASSUME NEW x \in Actors \cup Streams, x # s, NEW j \in Jobs, ReadJob(x, j)
       PROVE  ShownForward(s)'
  BY <1>0, <1>1, <1>10 DEF ReadJob, jobVars, streamVars
<1>11. ASSUME NEW a \in Actors, BroadcastLists(a) \/ BroadcastSends(a) PROVE ShownForward(s)'
  BY <1>0, <1>1, <1>11 DEF BroadcastLists, BroadcastSends, BeginList, jobVars, streamVars
<1>12. CASE ListStep
  BY <1>4, <1>5, <1>6, <1>7, <1>8, <1>9, <1>10, <1>11, <1>12 DEF ListStep, StreamStep, ReadStep
<1> QED
  BY <1>2, <1>3, <1>12, NextIsJobOrListStep

LEMMA LevelIsRank ==
    ASSUME NEW v \in Snapshot
    PROVE  /\ EntryOf(v) \in Board!Entry
           /\ EntryOf(v).work = v.progress
           /\ Board!Rank(EntryOf(v).phase) = Level(v.status)
           /\ EntryOf(v).phase = "none" <=> v.status = "none"
<1>1. v.status \in Status /\ v.progress \in 0..Items
  BY DEF Snapshot
<1>2. EntryOf(v).phase = IF v.status \in Terminal THEN "ended" ELSE v.status
  BY DEF EntryOf
<1> QED
  BY <1>1, <1>2 DEF EntryOf, Status, Terminal, Level, Board!Entry, Board!Phase, Board!Rank

LEMMA BoardLists ==
    ASSUME NEW l \in Lists
    PROVE  /\ EntriesOf(l) \in Board!Lists
           /\ DOMAIN EntriesOf(l) = DOMAIN l
           /\ \A j \in DOMAIN l : EntriesOf(l)[j] = EntryOf(l[j]) /\ l[j] \in Snapshot /\ j \in Jobs
<1>1. PICK D \in SUBSET Jobs : l \in [D -> Snapshot]
  BY DEF Lists
<1>2. \A j \in D : l[j] \in Snapshot /\ EntryOf(l[j]) \in Board!Entry
  BY <1>1, LevelIsRank
<1>3. EntriesOf(l) \in [D -> Board!Entry]
  BY <1>1, <1>2 DEF EntriesOf
<1> QED
  BY <1>1, <1>2, <1>3 DEF EntriesOf, Board!Lists

\* What a list that is behind the registry becomes on the board.
LEMMA BehindReached ==
    ASSUME TypeOK, NEW l \in Lists, Behind(l)
    PROVE  Board!Reached(EntriesOf(l))
<1> SUFFICES ASSUME NEW j \in DOMAIN l
             PROVE  /\ EntriesOf(l)[j].phase # "none"
                    /\ Board!NotAfter(EntriesOf(l)[j], EntryOf(SnapshotOf(j)))
  BY BoardLists DEF Board!Reached
<1>1. l[j] \in Snapshot /\ j \in Jobs /\ EntriesOf(l)[j] = EntryOf(l[j])
  BY BoardLists
<1>2. SnapshotOf(j) \in Snapshot /\ SnapshotOf(j).status = status[j]
      /\ SnapshotOf(j).progress = progress[j]
  BY <1>1 DEF SnapshotOf, Snapshot, TypeOK
<1>3. /\ l[j].status # "none"
      /\ l[j].progress <= progress[j]
      /\ Level(l[j].status) <= Level(status[j])
  BY DEF Behind
<1> QED
  BY <1>1, <1>2, <1>3, LevelIsRank DEF Board!NotAfter

LEMMA UserStepsForward ==
    ASSUME TypeOK, NEW s \in UserStreams, ShownForward(s), stream[s] = "write", left[s] = {}
    PROVE  Board!StepsForward(s, EntriesOf(view[s]))
<1>1. s \in Streams /\ view[s] \in Lists /\ seen[s] \in Lists
  BY DEF Streams, TypeOK
<1>2. /\ DOMAIN EntriesOf(view[s]) = DOMAIN view[s]
      /\ DOMAIN EntriesOf(seen[s]) = DOMAIN seen[s]
  BY <1>1, BoardLists
<1>3. ASSUME NEW j \in DOMAIN seen[s] \cap DOMAIN view[s]
      PROVE  Board!NotAfter(EntriesOf(seen[s])[j], EntriesOf(view[s])[j])
  <2>1. /\ seen[s][j].progress <= view[s][j].progress
        /\ Level(seen[s][j].status) <= Level(view[s][j].status)
    BY DEF ShownForward, NotBefore
  <2>2. /\ seen[s][j] \in Snapshot /\ EntriesOf(seen[s])[j] = EntryOf(seen[s][j])
        /\ view[s][j] \in Snapshot /\ EntriesOf(view[s])[j] = EntryOf(view[s][j])
    BY <1>1, BoardLists
  <2> QED
    BY <2>1, <2>2, LevelIsRank DEF Board!NotAfter
<1> QED
  BY <1>1, <1>2, <1>3 DEF Board!StepsForward, ShownForward

\* What changes on the board when a stream writes a list.
LEMMA ShowRefines ==
    ASSUME TypeOK, NEW s \in Streams, NEW l \in Lists, Behind(l),
           s \in UserStreams => Board!StepsForward(s, EntriesOf(l)),
           seen' = [seen EXCEPT ![s] = l], UNCHANGED jobVars
    PROVE  Board!Next
<1>1. EntriesOf(l) \in Board!Lists /\ Board!Reached(EntriesOf(l))
  BY BoardLists, BehindReached
<1> DEFINE shown == [t \in Streams |-> EntriesOf(seen[t])]
<1>2. [t \in Streams |-> EntriesOf(seen'[t])] = [shown EXCEPT ![s] = EntriesOf(l)]
  BY DEF TypeOK
<1>3. [j \in Jobs |-> EntryOf(SnapshotOf(j))]' = [j \in Jobs |-> EntryOf(SnapshotOf(j))]
  BY DEF jobVars, SnapshotOf
<1>4. shown' = [t \in Streams |-> EntriesOf(seen'[t])]
  BY DEF EntriesOf, EntryOf
<1>5. Board!Show(s, EntriesOf(l))
  BY <1>1, <1>2, <1>3, <1>4 DEF Board!Show, jobVars
<1> QED
  BY <1>1, <1>5 DEF Board!Next, Streams

\* A step that changes one job changes one entry of the board.
LEMMA EntryChanges ==
    ASSUME TypeOK, TypeOK', NEW j \in Jobs,
           \A i \in Jobs \ {j} : status'[i] = status[i] /\ progress'[i] = progress[i]
    PROVE  [i \in Jobs |-> EntryOf(SnapshotOf(i))]'
              = [[i \in Jobs |-> EntryOf(SnapshotOf(i))] EXCEPT ![j] =
                    EntryOf([status |-> status'[j], progress |-> progress'[j]])]
  BY DEF SnapshotOf, EntryOf

\* The steps of a job, of whoever cancels it and of their clean-up.
LEMMA JobStepRefines ==
    ASSUME TypeOK, TypeOK', RunnerInv, BegunInv, JobStep
    PROVE  Board!Next \/ UNCHANGED Board!boardVars
<1> DEFINE job   == [i \in Jobs |-> EntryOf(SnapshotOf(i))]
           shown == [s \in Streams |-> EntriesOf(seen[s])]
<1>1. shown' = shown
  BY JobStepKeepsLists DEF streamVars, EntriesOf, EntryOf
<1>2. \A i \in Jobs : /\ status[i] \in Status /\ progress[i] \in 0..Items
                     /\ job[i] = EntryOf([status |-> status[i], progress |-> progress[i]])
                     /\ job[i].work = progress[i]
                     /\ job[i].phase = IF status[i] \in Terminal THEN "ended" ELSE status[i]
  BY DEF TypeOK, SnapshotOf, EntryOf
<1>3. ASSUME NEW j \in Jobs,
             \A i \in Jobs \ {j} : status'[i] = status[i] /\ progress'[i] = progress[i]
      PROVE  job' = [job EXCEPT ![j] = EntryOf([status |-> status'[j], progress |-> progress'[j]])]
  BY <1>3, EntryChanges
<1>4. ASSUME UNCHANGED <<status, progress, listed>>
      PROVE  UNCHANGED Board!boardVars
  BY <1>1, <1>4 DEF Board!boardVars, SnapshotOf
<1> HIDE DEF shown
\* A job that ends, however it does.
<1>5. ASSUME NEW j \in Jobs, NEW st \in Terminal, status' = [status EXCEPT ![j] = st],
             UNCHANGED <<progress, listed>>, status[j] # "none"
      PROVE  Board!Next \/ UNCHANGED Board!boardVars
  <2>1. job' = [job EXCEPT ![j] = [phase |-> "ended", work |-> progress[j]]]
    <3>1. status'[j] = st /\ progress'[j] = progress[j]
      BY <1>5 DEF TypeOK
    <3>2. EntryOf([status |-> st, progress |-> progress[j]]) = [phase |-> "ended", work |-> progress[j]]
      BY DEF EntryOf
    <3>3. \A i \in Jobs \ {j} : status'[i] = status[i] /\ progress'[i] = progress[i]
      BY <1>5 DEF TypeOK
    <3> HIDE DEF job
    <3> QED
      BY <1>3, <3>1, <3>2, <3>3
  <2>2. job[j] = [phase |-> job[j].phase, work |-> progress[j]]
    BY DEF EntryOf, SnapshotOf
  <2>3. CASE status[j] \in Terminal
    <3>1. job' = job
      BY <1>2, <2>1, <2>2, <2>3
    <3> QED
      BY <1>1, <1>5, <3>1 DEF Board!boardVars, shown
  <2>4. CASE status[j] \notin Terminal
    <3>1. job[j].phase \in {"pending", "running"}
      BY <1>2, <1>5, <2>4 DEF Status
    <3>2. job' = [job EXCEPT ![j].phase = "ended"]
      <4> HIDE DEF job
      <4>1. [job[j] EXCEPT !.phase = "ended"] = [phase |-> "ended", work |-> progress[j]]
        BY <2>2
      <4> QED
        BY <2>1, <4>1
    <3>3. Board!End(j)
      BY <1>1, <1>5, <3>1, <3>2 DEF Board!End, shown
    <3> QED
      BY <3>3 DEF Board!Next
  <2> QED
    BY <2>3, <2>4
<1>6. ASSUME NEW j \in Jobs, Register(j) PROVE Board!Next
  <2>1. status[j] = "none" /\ UNCHANGED progress /\ status' = [status EXCEPT ![j] = "pending"]
        /\ listed' = listed \cup {j}
    BY <1>6 DEF Register, At, RunnerInv
  <2>2. EntryOf([status |-> "pending", progress |-> progress[j]])
           = [phase |-> "pending", work |-> progress[j]]
    BY DEF EntryOf, Terminal
  <2>3. job[j] = [phase |-> "none", work |-> progress[j]]
    BY <2>1 DEF EntryOf, SnapshotOf, Terminal
  <2>4. /\ status'[j] = "pending" /\ progress'[j] = progress[j]
        /\ \A i \in Jobs \ {j} : status'[i] = status[i] /\ progress'[i] = progress[i]
    BY <2>1 DEF TypeOK
  <2>5. job' = [job EXCEPT ![j] = [phase |-> "pending", work |-> progress[j]]]
    <3> HIDE DEF job
    <3> QED
      BY <1>3, <2>2, <2>4
  <2>6. job' = [job EXCEPT ![j].phase = "pending"]
    <3> HIDE DEF job
    <3>1. [job[j] EXCEPT !.phase = "pending"] = [phase |-> "pending", work |-> progress[j]]
      BY <2>3
    <3> QED
      BY <2>5, <3>1
  <2>7. Board!Begin(j)
    BY <1>1, <2>1, <2>3, <2>6 DEF Board!Begin, shown
  <2> QED
    BY <2>7 DEF Board!Next
<1>7. ASSUME NEW j \in Jobs, Start(j) PROVE Board!Next \/ UNCHANGED Board!boardVars
  <2>1. CASE status[j] # "pending"
    <3>1. status' = status
      BY <1>7, <2>1 DEF Start, TypeOK
    <3> QED
      BY <1>4, <1>7, <3>1 DEF Start
  <2>2. CASE status[j] = "pending"
    <3>1. UNCHANGED <<progress, listed>> /\ status' = [status EXCEPT ![j] = "running"]
      BY <1>7, <2>2 DEF Start
    <3>2. EntryOf([status |-> "running", progress |-> progress[j]])
             = [phase |-> "running", work |-> progress[j]]
      BY DEF EntryOf, Terminal
    <3>3. job[j] = [phase |-> "pending", work |-> progress[j]]
      BY <2>2 DEF EntryOf, SnapshotOf, Terminal
    <3>4. /\ status'[j] = "running" /\ progress'[j] = progress[j]
          /\ \A i \in Jobs \ {j} : status'[i] = status[i] /\ progress'[i] = progress[i]
      BY <3>1 DEF TypeOK
    <3>5. job' = [job EXCEPT ![j] = [phase |-> "running", work |-> progress[j]]]
      <4> HIDE DEF job
      <4> QED
        BY <1>3, <3>2, <3>4
    <3>6. job' = [job EXCEPT ![j].phase = "running"]
      <4> HIDE DEF job
      <4>1. [job[j] EXCEPT !.phase = "running"] = [phase |-> "running", work |-> progress[j]]
        BY <3>3
      <4> QED
        BY <3>5, <4>1
    <3>7. Board!Run(j)
      BY <1>1, <3>1, <3>3, <3>6 DEF Board!Run, shown
    <3> QED
      BY <3>7 DEF Board!Next
  <2> QED
    BY <2>1, <2>2
<1>8. ASSUME NEW j \in Jobs, SetProgress(j) PROVE Board!Next
  <2>1. /\ UNCHANGED <<status, listed>> /\ progress' = [progress EXCEPT ![j] = progress[j] + 1]
        /\ progress[j] < Items /\ status[j] \notin {"none", "pending"}
    BY <1>8 DEF SetProgress, At, RunnerInv, BegunInv
  <2>2. job[j].phase \in {"running", "ended"} /\ job[j].work = progress[j]
    BY <1>2, <2>1 DEF Status
  <2>3. EntryOf([status |-> status[j], progress |-> progress[j] + 1])
           = [phase |-> job[j].phase, work |-> progress[j] + 1]
    BY <1>2 DEF EntryOf
  <2>4. /\ status'[j] = status[j] /\ progress'[j] = progress[j] + 1
        /\ \A i \in Jobs \ {j} : status'[i] = status[i] /\ progress'[i] = progress[i]
    BY <2>1 DEF TypeOK
  <2>5. job' = [job EXCEPT ![j] = [phase |-> job[j].phase, work |-> progress[j] + 1]]
    <3> HIDE DEF job
    <3> QED
      BY <1>3, <2>3, <2>4
  <2>6. job[j] = [phase |-> job[j].phase, work |-> progress[j]]
    BY DEF EntryOf, SnapshotOf
  <2>7. job' = [job EXCEPT ![j].work = @ + 1]
    <3> HIDE DEF job
    <3>1. [job[j] EXCEPT !.work = job[j].work + 1]
             = [phase |-> job[j].phase, work |-> progress[j] + 1]
      BY <2>2, <2>6
    <3> QED
      BY <2>5, <3>1
  <2>8. Board!Work(j)
    BY <1>1, <2>1, <2>2, <2>7 DEF Board!Work, shown
  <2> QED
    BY <2>8 DEF Board!Next
<1>9. ASSUME NEW j \in Jobs, Fail(j) \/ Complete(j)
      PROVE  Board!Next \/ UNCHANGED Board!boardVars
  <2>1. PICK st \in Terminal : status' = [status EXCEPT ![j] = st]
    BY <1>9 DEF Fail, Complete, Terminal
  <2>2. UNCHANGED <<progress, listed>> /\ status[j] # "none"
    BY <1>9 DEF Fail, Complete, At, BegunInv
  <2> QED
    BY <1>5, <2>1, <2>2
<1>10. ASSUME NEW j \in Jobs, Cancel(j) PROVE Board!Next \/ UNCHANGED Board!boardVars
  <2>1. status' = [status EXCEPT ![j] = "cancelled"] /\ UNCHANGED <<progress, listed>>
        /\ status[j] # "none"
    BY <1>10 DEF Cancel, BegunInv
  <2>2. "cancelled" \in Terminal
    BY DEF Terminal
  <2> QED
    BY <1>5, <2>1, <2>2
<1>11. ASSUME NEW j \in Jobs, NextItem(j) \/ NoMoreItems(j) \/ LastCheck(j)
       PROVE  UNCHANGED Board!boardVars
  BY <1>4, <1>11 DEF NextItem, NoMoreItems, LastCheck, jobVars
<1>12. ASSUME NEW a \in Actors, Cleanup(a) PROVE Board!Next \/ UNCHANGED Board!boardVars
  <2>1. PICK j \in Jobs : listed' = IF status[j] \in Terminal THEN listed \ {j} ELSE listed
    BY <1>12, JobOfActor DEF Cleanup
  <2>2. UNCHANGED <<status, progress>>
    BY <1>12 DEF Cleanup
  <2>3. CASE listed' = listed
    BY <1>4, <2>2, <2>3
  <2>4. CASE listed' # listed
    <3>1. j \in listed /\ status[j] \in Terminal /\ listed' = listed \ {j}
      BY <2>1, <2>4
    <3>2. job' = job /\ job[j].phase = "ended"
      BY <1>2, <2>2, <3>1 DEF SnapshotOf
    <3>3. Board!Leave(j)
      BY <1>1, <3>1, <3>2 DEF Board!Leave, shown
    <3> QED
      BY <3>3 DEF Board!Next
  <2> QED
    BY <2>3, <2>4
<1> QED
  BY <1>6, <1>7, <1>8, <1>9, <1>10, <1>11, <1>12 DEF JobStep, Runner

\* The steps that list and send: the board changes when a client is sent a
\* list.
LEMMA ListStepRefines ==
    ASSUME TypeOK, BehindInv, ForwardInv, ListStep
    PROVE  Board!Next \/ UNCHANGED Board!boardVars
<1>1. UNCHANGED jobVars
  BY ListStepKeepsJobs
<1>2. ASSUME seen' = seen PROVE UNCHANGED Board!boardVars
  BY <1>1, <1>2 DEF jobVars, Board!boardVars, SnapshotOf, EntriesOf, EntryOf
<1>3. ASSUME NEW s \in Streams, StreamWrites(s) PROVE Board!Next
  <2>1. /\ stream[s] = "write" /\ left[s] = {} /\ seen' = [seen EXCEPT ![s] = view[s]]
        /\ view[s] \in Lists /\ Behind(view[s])
    BY <1>3 DEF StreamWrites, TypeOK, BehindInv
  <2>2. s \in UserStreams => Board!StepsForward(s, EntriesOf(view[s]))
    BY <2>1, UserStepsForward DEF ForwardInv
  <2> QED
    BY <1>1, <2>1, <2>2, ShowRefines
<1>4. ASSUME NEW s \in Streams, AdminReceives(s) PROVE Board!Next
  <2>1. chan[s] \in Seq(Lists) /\ chan[s] # <<>> /\ seen' = [seen EXCEPT ![s] = Head(chan[s])]
        /\ s \notin UserStreams
    BY <1>4, JobManagerAssumption DEF AdminReceives, TypeOK, JobManagerAssumption
  <2>2. Head(chan[s]) = chan[s][1] /\ Head(chan[s]) \in Lists /\ 1 \in 1..Len(chan[s])
    BY <2>1
  <2>3. Behind(Head(chan[s]))
    BY <2>2 DEF BehindInv
  <2> QED
    BY <1>1, <2>1, <2>2, <2>3, ShowRefines
<1> QED
  BY <1>2, <1>3, <1>4
     DEF ListStep, StreamStep, ReadStep, BroadcastLists, BroadcastSends, Subscribe, StreamLists,
         UserReceives, ReadJob, streamVars

\* The manager implements the board: for any number of jobs, streams and
\* items, whatever broadcasts overtake each other or are dropped, jobs move
\* forward and leave when they have ended, and a user's list neither steps back
\* nor loses a listed job (jobs.go:164-221, 457-486, jobs_handlers.go:94-112).
THEOREM ManagerImplementsBoard == Spec => ImplementsBoard
<1>1. Init => Board!Init
  <2> SUFFICES ASSUME Init PROVE Board!Init
    OBVIOUS
  <2>1. \A j \in Jobs : EntryOf(SnapshotOf(j)) = [phase |-> "none", work |-> 0]
    BY DEF Init, EntryOf, SnapshotOf, Terminal
  <2>2. \A s \in Streams : EntriesOf(seen[s]) = [j \in {} |-> EntryOf(SnapshotOf(j))]
    BY DEF Init, EntriesOf, EmptyList
  <2> QED
    BY <2>1, <2>2 DEF Init, Board!Init, Streams, EntriesOf, EmptyList
<1>2. TypeOK /\ TypeOK' /\ RunnerInv /\ BegunInv /\ BehindInv /\ ForwardInv /\ [Next]_vars
        => [Board!Next]_(Board!boardVars)
  <2> SUFFICES ASSUME TypeOK, TypeOK', RunnerInv, BegunInv, BehindInv, ForwardInv, [Next]_vars
               PROVE  Board!Next \/ UNCHANGED Board!boardVars
    OBVIOUS
  <2>1. CASE UNCHANGED vars
    BY <2>1 DEF vars, jobVars, streamVars, Board!boardVars, SnapshotOf, EntriesOf, EntryOf
  <2> QED
    BY <2>1, JobStepRefines, ListStepRefines, NextIsJobOrListStep
<1>3. Spec => []ForwardInv
  <2>1. TypeOK /\ RunnerInv /\ BehindInv /\ ForwardInv /\ [Next]_vars => ForwardInv'
    BY ForwardStep
  <2> QED
    BY <2>1, ForwardInit, BehindSafe, PTL DEF Spec
<1> QED
  BY <1>1, <1>2, <1>3, BehindSafe, PTL DEF Spec, ImplementsBoard, Board!Spec
=============================================================================
