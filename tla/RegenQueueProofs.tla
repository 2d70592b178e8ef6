-------------------------- MODULE RegenQueueProofs --------------------------
(***************************************************************************)
(* Proofs about RegenQueue, for any posts and runs, any concurrency, any   *)
(* number of crashes and all the faults together.                          *)
(***************************************************************************)
EXTENDS RegenQueue, FiniteSetTheorems, TLAPS

Stages == {"none", "wait", "encode", "update", "remove", "count", "publish", "ack"}

LEMMA ItemParts == \A i \in Items : RunOf(i) \in Runs /\ PostOf(i) \in Posts
  BY DEF Items, RunOf, PostOf

LEMMA ItemsOfAre ==
    \A r \in Runs : \A i : i \in ItemsOf(r) <=> i \in Items /\ RunOf(i) = r
  BY DEF Items, ItemsOf, RunOf

\* No two posts began with one file.
OwnFiles == \A p, q \in Posts : FirstFile[p] = FirstFile[q] => p = q

LEMMA FilesDiffer ==
    OwnFiles => \A p, q \in Posts : \A m, n : File(p, m) = File(q, n) <=> p = q /\ m = n
  BY DEF File, OwnFiles

LEMMA FileType == \A p \in Posts : \A n \in Nat : File(p, n) \in Posts \X Nat
  BY RegenQueueAssumption DEF File, RegenQueueAssumption

-----------------------------------------------------------------------------
(* The types, without those of the handler's counters.                     *)

FileTypes ==
    /\ row \in [Posts -> Nat]
    /\ disk \subseteq Posts \X Nat
    /\ names \in Nat
    /\ at \in [Items -> Stages]
    /\ out \in [Items -> Nat]
    /\ src \in [Items -> Nat]

HandlerTypes ==
    /\ counter \in [Runs -> Nat]
    /\ run \in [Runs -> {"off", "enqueue", "loop", "done", "failed", "cancelled"}]
    /\ mail \in [Runs -> Seq(BOOLEAN)]
    /\ updated \in [Runs -> Nat]
    /\ failed \in [Runs -> Nat]
    /\ lastPolled \in [Runs -> Nat]

QueueTypes ==
    /\ queue \subseteq Items
    /\ processing \subseteq Items
    /\ worker \in {"recovering", "up"}
    /\ ok \in [Items -> BOOLEAN]
    /\ crashes \in 0..MaxCrashes
    /\ pushed \subseteq Items
    /\ finished \subseteq Items

LEMMA TypesSplit == TypeOK <=> FileTypes /\ HandlerTypes /\ QueueTypes
  BY DEF TypeOK, FileTypes, HandlerTypes, QueueTypes, Stages

(* What the worker holds.  An item it works on is in the processing list,  *)
(* has a result before it is counted, and was pushed by a run that has     *)
(* begun; nothing is worked on before the recovery.                        *)
HeldInv ==
    /\ \A i \in Items : /\ at[i] # "none" => i \in processing
                        /\ at[i] \in {"count", "publish", "ack"} => i \in finished
                        /\ worker = "recovering" => at[i] = "none"
    /\ queue \cup processing \subseteq pushed
    /\ \A i \in pushed : run[RunOf(i)] # "off"

(* Files.  Names are handed out once; the output of an item is nobody's    *)
(* source, and no post's file, until the row is updated; a source about to *)
(* be removed is not the post's file any more.                             *)
NamesInv ==
    /\ \A p \in Posts : row[p] <= names
    /\ \A i \in Items : src[i] <= names /\ out[i] <= names

OutputInv(i) ==
    at[i] = "update" =>
        /\ File(PostOf(i), out[i]) \in disk
        /\ \A p \in Posts : out[i] # row[p]
        /\ \A k \in Items : out[i] # src[k]
        /\ \A k \in Items \ {i} : at[k] = "update" => out[i] # out[k]

SourceInv(i) == at[i] = "remove" => src[i] # row[PostOf(i)]

FileBody == NamesInv /\ RowHasFile /\ \A i \in Items : OutputInv(i) /\ SourceInv(i)

FileInv == OwnFiles => FileBody

Inv == FileTypes /\ HandlerTypes /\ QueueTypes /\ NothingLost /\ HeldInv /\ FileInv

LEMMA InitInv == Init => Inv
<1> SUFFICES ASSUME Init PROVE Inv
  OBVIOUS
<1> USE ItemParts, RegenQueueAssumption DEF Init, RegenQueueAssumption
<1>1. FileTypes
  BY FileType DEF FileTypes, NoFile, Stages
<1>2. HandlerTypes /\ QueueTypes
  BY DEF HandlerTypes, QueueTypes
<1>3. NothingLost /\ HeldInv
  BY DEF NothingLost, HeldInv
<1>4. FileInv
  BY DEF FileInv, FileBody, NamesInv, RowHasFile, OutputInv, SourceInv, NoFile
<1> QED
  BY <1>1, <1>2, <1>3, <1>4 DEF Inv

-----------------------------------------------------------------------------
(* Types and what the worker holds. *)

\* Steps of the handler.
HandlerStep == \E r \in Runs : ListPosts(r) \/ PushFails(r) \/ Follow(r) \/ Handler(r)

\* Steps of the worker that touch no file.
QueueStep ==
    \/ Recover \/ Pop \/ PopFails \/ Crash
    \/ \E i \in Items : PushItem(i) \/ CheckSource(i) \/ Count(i) \/ Publish(i) \/ Ack(i)

FileStep == \E i \in Items : Encode(i) \/ UpdateRow(i) \/ RemoveOld(i) \/ ItemFails(i)

LEMMA NextSplit == Next => HandlerStep \/ QueueStep \/ FileStep
  BY DEF Next, HandlerStep, QueueStep, FileStep, ItemStep

LEMMA HandlerHeld ==
    ASSUME Inv, HandlerStep
    PROVE  FileTypes' /\ HandlerTypes' /\ QueueTypes' /\ NothingLost' /\ HeldInv'
<1> USE ItemParts DEF Inv
<1>1. /\ UNCHANGED <<fileVars, redisVars, workerVars, pushed, finished>>
      /\ \A r \in Runs : run'[r] = run[r] \/ run'[r] # "off"
  BY DEF HandlerStep, Handler, ListPosts, PushFails, Follow, HearMessage, Poll, Stall, Leave,
         EndIfAll, HandlerTypes
<1>2. src' \in [Items -> Nat]
  <2>1. ASSUME NEW r \in Runs, ListPosts(r) PROVE src' \in [Items -> Nat]
    <3>1. \A i \in Items : row[PostOf(i)] \in Nat /\ src[i] \in Nat
      BY DEF FileTypes
    <3> QED
      BY <2>1, <3>1 DEF ListPosts
  <2>2. ASSUME NEW r \in Runs, PushFails(r) \/ Follow(r) \/ Handler(r) PROVE src' = src
    BY <2>2 DEF Handler, PushFails, Follow, HearMessage, Poll, Stall, Leave
  <2> QED
    BY <2>1, <2>2 DEF HandlerStep, FileTypes
<1>3. FileTypes' /\ QueueTypes' /\ NothingLost' /\ HeldInv'
  BY <1>1, <1>2 DEF FileTypes, QueueTypes, NothingLost, HeldInv, fileVars, redisVars, workerVars
<1>4. HandlerTypes'
  <2> USE DEF HandlerTypes
  <2>1. ASSUME NEW r \in Runs, ListPosts(r) \/ PushFails(r) \/ Follow(r) \/ Stall(r) \/ Leave(r)
        PROVE  HandlerTypes'
    BY <2>1 DEF ListPosts, PushFails, Follow, Stall, Leave, redisVars
  <2>2. ASSUME NEW r \in Runs, HearMessage(r) PROVE HandlerTypes'
    <3>1. Tail(mail[r]) \in Seq(BOOLEAN)
      <4>1. mail[r] \in Seq(BOOLEAN) /\ mail[r] # <<>>
        BY <2>2 DEF HearMessage
      <4> QED
        BY <4>1
    <3>2. mail' \in [Runs -> Seq(BOOLEAN)]
      BY <2>2, <3>1 DEF HearMessage
    <3>3. updated' \in [Runs -> Nat] /\ failed' \in [Runs -> Nat]
      <4>1. \/ updated' = [updated EXCEPT ![r] = @ + 1] /\ failed' = failed
            \/ failed' = [failed EXCEPT ![r] = @ + 1] /\ updated' = updated
        BY <2>2, Zenon DEF HearMessage
      <4>2. updated[r] + 1 \in Nat /\ failed[r] + 1 \in Nat
        OBVIOUS
      <4> QED
        BY <4>1, <4>2
    <3> QED
      BY <2>2, <3>2, <3>3 DEF HearMessage, EndIfAll, redisVars
  <2>3. ASSUME NEW r \in Runs, Poll(r) PROVE HandlerTypes'
    <3>1. counter[r] > Current(r) => counter[r] - updated[r] \in Nat
      BY DEF Current
    <3> QED
      BY <2>3, <3>1 DEF Poll, EndIfAll, redisVars
  <2> QED
    BY <2>1, <2>2, <2>3 DEF HandlerStep, Handler
<1> QED
  BY <1>3, <1>4

LEMMA QueueHeld ==
    ASSUME Inv, QueueStep
    PROVE  FileTypes' /\ HandlerTypes' /\ QueueTypes' /\ NothingLost' /\ HeldInv'
<1> USE ItemParts, RegenQueueAssumption DEF Inv, RegenQueueAssumption, FileTypes, HandlerTypes,
        QueueTypes, NothingLost, HeldInv, Stages, Goto, Result, fileVars, redisVars, workerVars, runVars
<1>1. CASE Recover
  BY <1>1 DEF Recover
<1>2. CASE Pop
  BY <1>2 DEF Pop, Idle
<1>3. CASE PopFails
  BY <1>3 DEF PopFails, Idle
<1>4. CASE Crash
  BY <1>4 DEF Crash
<1>5. ASSUME NEW i \in Items, PushItem(i)
      PROVE  FileTypes' /\ HandlerTypes' /\ QueueTypes' /\ NothingLost' /\ HeldInv'
  BY <1>5 DEF PushItem
<1>6. ASSUME NEW i \in Items, CheckSource(i)
      PROVE  FileTypes' /\ HandlerTypes' /\ QueueTypes' /\ NothingLost' /\ HeldInv'
  BY <1>6 DEF CheckSource
<1>7. ASSUME NEW i \in Items, Count(i)
      PROVE  FileTypes' /\ HandlerTypes' /\ QueueTypes' /\ NothingLost' /\ HeldInv'
  <2>1. RunOf(i) \in Runs
    OBVIOUS
  <2>2. counter' \in [Runs -> Nat]
    <3>1. counter' = counter \/ counter' = [counter EXCEPT ![RunOf(i)] = @ + 1]
      BY <1>7, Zenon DEF Count
    <3>2. counter[RunOf(i)] + 1 \in Nat
      BY <2>1
    <3> QED
      BY <3>1, <3>2
  <2>3. at[i] = "count" /\ at' \in [Items -> Stages]
        /\ \A k \in Items : at'[k] = at[k] \/ (k = i /\ at'[k] \in {"publish", "ack"})
    BY <1>7 DEF Count
  <2>4. UNCHANGED <<row, disk, names, queue, processing, worker, out, ok, crashes, runVars, src,
                    pushed, finished>>
    BY <1>7 DEF Count
  <2>5. FileTypes' /\ HandlerTypes' /\ QueueTypes' /\ NothingLost'
    BY <2>2, <2>3, <2>4
  <2>6. HeldInv'
    BY <2>3, <2>4
  <2> QED
    BY <2>5, <2>6
<1>8. ASSUME NEW i \in Items, Publish(i)
      PROVE  FileTypes' /\ HandlerTypes' /\ QueueTypes' /\ NothingLost' /\ HeldInv'
  <2>1. RunOf(i) \in Runs
    OBVIOUS
  <2>2. Append(mail[RunOf(i)], ok[i]) \in Seq(BOOLEAN)
    BY <2>1
  <2>3. mail' \in [Runs -> Seq(BOOLEAN)]
    BY <1>8, <2>2 DEF Publish
  <2> QED
    BY <1>8, <2>3 DEF Publish
<1>9. ASSUME NEW i \in Items, Ack(i)
      PROVE  FileTypes' /\ HandlerTypes' /\ QueueTypes' /\ NothingLost' /\ HeldInv'
  BY <1>9 DEF Ack
<1> QED
  BY <1>1, <1>2, <1>3, <1>4, <1>5, <1>6, <1>7, <1>8, <1>9 DEF QueueStep

LEMMA FileHeld ==
    ASSUME Inv, FileStep
    PROVE  FileTypes' /\ HandlerTypes' /\ QueueTypes' /\ NothingLost' /\ HeldInv'
<1> USE ItemParts DEF Inv, FileTypes, HandlerTypes, QueueTypes, NothingLost, HeldInv, Stages, Goto,
        Result, fileVars, redisVars, runVars
<1>1. ASSUME NEW i \in Items, Encode(i)
      PROVE  FileTypes' /\ HandlerTypes' /\ QueueTypes' /\ NothingLost' /\ HeldInv'
  <2>1. names' = names + 1 /\ names' \in Nat
    BY <1>1 DEF Encode
  <2>2. File(PostOf(i), names') \in Posts \X Nat
    BY <2>1, FileType
  <2>3. disk' \subseteq Posts \X Nat
    BY <1>1, <2>2 DEF Encode
  <2> QED
    BY <1>1, <2>1, <2>3 DEF Encode
<1>2. ASSUME NEW i \in Items, UpdateRow(i)
      PROVE  FileTypes' /\ HandlerTypes' /\ QueueTypes' /\ NothingLost' /\ HeldInv'
  BY <1>2 DEF UpdateRow
<1>3. ASSUME NEW i \in Items, RemoveOld(i)
      PROVE  FileTypes' /\ HandlerTypes' /\ QueueTypes' /\ NothingLost' /\ HeldInv'
  BY <1>3 DEF RemoveOld
<1>4. ASSUME NEW i \in Items, ItemFails(i)
      PROVE  FileTypes' /\ HandlerTypes' /\ QueueTypes' /\ NothingLost' /\ HeldInv'
  BY <1>4 DEF ItemFails
<1> QED
  BY <1>1, <1>2, <1>3, <1>4 DEF FileStep

-----------------------------------------------------------------------------
(* The files. *)

LEMMA HandlerFiles == ASSUME Inv, OwnFiles, HandlerStep PROVE FileBody'
<1> USE ItemParts DEF Inv, FileInv
<1>1. UNCHANGED <<fileVars, redisVars, workerVars>>
  BY DEF HandlerStep, Handler, ListPosts, PushFails, Follow, HearMessage, Poll, Stall, Leave
<1>2. ASSUME NEW r \in Runs, ListPosts(r) PROVE FileBody'
  <2>1. \A k \in Items : src'[k] = IF RunOf(k) = r THEN row[PostOf(k)] ELSE src[k]
    BY <1>2 DEF ListPosts
  <2>2. \A k \in Items : RunOf(k) = r => at[k] = "none"
    BY <1>2 DEF ListPosts, HeldInv
  <2>3. NamesInv' /\ RowHasFile'
    BY <1>1, <2>1 DEF FileBody, NamesInv, RowHasFile, File, fileVars, workerVars
  <2>4. ASSUME NEW i \in Items PROVE OutputInv(i)' /\ SourceInv(i)'
    <3>1. OutputInv(i) /\ SourceInv(i)
      BY DEF FileBody
    <3>2. OutputInv(i)'
      BY <1>1, <2>1, <3>1 DEF OutputInv, File, fileVars, workerVars
    <3>3. SourceInv(i)'
      BY <1>1, <2>1, <2>2, <3>1 DEF SourceInv, fileVars, workerVars
    <3> QED
      BY <3>2, <3>3
  <2> QED
    BY <2>3, <2>4 DEF FileBody
<1>3. ASSUME NEW r \in Runs, PushFails(r) \/ Follow(r) \/ Handler(r) PROVE FileBody'
  <2>1. src' = src
    BY <1>3 DEF Handler, PushFails, Follow, HearMessage, Poll, Stall, Leave
  <2> QED
    BY <1>1, <2>1 DEF FileBody, NamesInv, RowHasFile, OutputInv, SourceInv, File, fileVars, workerVars
<1> QED
  BY <1>2, <1>3 DEF HandlerStep

LEMMA QueueFiles == ASSUME Inv, OwnFiles, QueueStep PROVE FileBody'
<1>1. UNCHANGED <<fileVars, out, src>>
  BY DEF QueueStep, Recover, Pop, PopFails, Crash, PushItem, CheckSource, Count, Publish, Ack,
         workerVars
<1>2. \A i \in Items : at'[i] \in {"update", "remove"} => at'[i] = at[i]
  BY DEF QueueStep, Recover, Pop, PopFails, Crash, PushItem, CheckSource, Count, Publish, Ack,
         workerVars, Goto, Result, Inv, FileTypes
<1> QED
  BY <1>1, <1>2 DEF Inv, FileInv, FileBody, NamesInv, RowHasFile, OutputInv, SourceInv, File, fileVars

LEMMA EncodeFiles == ASSUME Inv, OwnFiles, NEW i \in Items, Encode(i) PROVE FileBody'
<1> USE ItemParts DEF Inv, FileInv, FileTypes
<1>1. /\ names' = names + 1
      /\ out' = [out EXCEPT ![i] = names + 1]
      /\ disk' = disk \cup {File(PostOf(i), names + 1)}
      /\ at' = [at EXCEPT ![i] = "update"]
      /\ UNCHANGED <<row, src>>
  BY DEF Encode, Goto
<1>2. NamesInv /\ NamesInv' /\ RowHasFile'
  BY <1>1 DEF FileBody, NamesInv, RowHasFile, File
<1>3. ASSUME NEW k \in Items PROVE OutputInv(k)' /\ SourceInv(k)'
  <2>1. OutputInv(k) /\ SourceInv(k)
    BY DEF FileBody
  <2>2. CASE k = i
    <3>1. out'[k] = names + 1 /\ \A l \in Items \ {k} : out'[l] = out[l]
      BY <1>1, <2>2
    <3>2. /\ \A p \in Posts : row'[p] # names + 1
          /\ \A l \in Items : src'[l] # names + 1 /\ out[l] # names + 1
      BY <1>1, <1>2 DEF NamesInv
    <3>3. File(PostOf(k), out'[k]) \in disk'
      BY <1>1, <2>2, <3>1
    <3> QED
      BY <1>1, <2>2, <3>1, <3>2, <3>3 DEF OutputInv, SourceInv, File
  <2>3. CASE k # i
    <3>1. out'[k] = out[k] /\ at'[k] = at[k] /\ out[k] # names + 1
      BY <1>1, <1>2, <2>3 DEF NamesInv
    <3> QED
      BY <1>1, <2>1, <2>3, <3>1 DEF OutputInv, SourceInv, File
  <2> QED
    BY <2>2, <2>3
<1> QED
  BY <1>2, <1>3 DEF FileBody

\* The row of an item at "update" takes the item's output; the item is not at
\* "update" any more.
LEMMA NewRowFiles ==
    ASSUME Inv, OwnFiles, NEW i \in Items, at[i] = "update",
           row' = [row EXCEPT ![PostOf(i)] = out[i]],
           NEW where \in {"remove", "count"}, at' = [at EXCEPT ![i] = where],
           UNCHANGED <<disk, names, out, src>>
    PROVE  FileBody'
<1> USE ItemParts DEF Inv, FileInv, FileTypes
<1>1. OutputInv(i)
  BY DEF FileBody
<1>2. NamesInv' /\ RowHasFile'
  BY <1>1 DEF FileBody, NamesInv, RowHasFile, OutputInv, File
<1>3. ASSUME NEW k \in Items PROVE OutputInv(k)' /\ SourceInv(k)'
  <2>1. OutputInv(k) /\ SourceInv(k)
    BY DEF FileBody
  <2>2. OutputInv(k)'
    BY <1>1, <2>1 DEF OutputInv, File
  <2>3. SourceInv(k)'
    BY <1>1, <2>1 DEF OutputInv, SourceInv
  <2> QED
    BY <2>2, <2>3
<1> QED
  BY <1>2, <1>3 DEF FileBody

\* The source of an item at "remove" may go.
LEMMA OldFileGoes ==
    ASSUME Inv, OwnFiles, NEW i \in Items, at[i] = "remove",
           disk' = disk \ {Source(i)} \/ disk' = disk,
           at' = [at EXCEPT ![i] = "count"], UNCHANGED <<row, names, out, src>>
    PROVE  FileBody'
<1> USE ItemParts DEF Inv, FileInv, FileTypes
<1>1. SourceInv(i)
  BY DEF FileBody
<1>2. \A p \in Posts : File(p, row[p]) # Source(i)
  BY <1>1, FilesDiffer DEF SourceInv, Source
<1>3. NamesInv' /\ RowHasFile'
  BY <1>2 DEF FileBody, NamesInv, RowHasFile, File
<1>4. ASSUME NEW k \in Items PROVE OutputInv(k)' /\ SourceInv(k)'
  <2>1. OutputInv(k) /\ SourceInv(k)
    BY DEF FileBody
  <2>2. OutputInv(k)'
    <3>1. at'[k] = "update" => File(PostOf(k), out[k]) # Source(i)
      BY <2>1, FilesDiffer DEF OutputInv, Source
    <3> QED
      BY <2>1, <3>1 DEF OutputInv, File
  <2>3. SourceInv(k)'
    BY <2>1 DEF SourceInv
  <2> QED
    BY <2>2, <2>3
<1> QED
  BY <1>3, <1>4 DEF FileBody

LEMMA FileFiles == ASSUME Inv, OwnFiles, FileStep PROVE FileBody'
<1>1. ASSUME NEW i \in Items, UpdateRow(i) PROVE FileBody'
  BY <1>1, NewRowFiles DEF UpdateRow, Goto
<1>2. ASSUME NEW i \in Items, RemoveOld(i) PROVE FileBody'
  BY <1>2, OldFileGoes DEF RemoveOld, Result, Goto
<1>3. ASSUME NEW i \in Items, ItemFails(i) PROVE FileBody'
  <2>1. /\ at' = [at EXCEPT ![i] = "count"]
        /\ UNCHANGED <<names, out, src>>
    BY <1>3 DEF ItemFails, Result, Goto
  <2>2. CASE UNCHANGED <<row, disk>>
    <3>1. \A k \in Items : at'[k] \in {"update", "remove"} => at'[k] = at[k]
      BY <2>1 DEF Inv, FileTypes
    <3> QED
      BY <2>1, <2>2, <3>1
         DEF Inv, FileInv, FileBody, NamesInv, RowHasFile, OutputInv, SourceInv, File
  <2>3. CASE at[i] = "update" /\ row' = [row EXCEPT ![PostOf(i)] = out[i]] /\ disk' = disk
    BY <2>1, <2>3, NewRowFiles
  <2>4. CASE at[i] = "remove" /\ disk' = disk \ {Source(i)} /\ row' = row
    BY <2>1, <2>4, OldFileGoes
  <2> QED
    BY <1>3, <2>2, <2>3, <2>4 DEF ItemFails
<1> QED
  BY <1>1, <1>2, <1>3, EncodeFiles DEF FileStep

-----------------------------------------------------------------------------
LEMMA NextInv == ASSUME Inv, [Next]_vars PROVE Inv'
<1>1. CASE HandlerStep
  BY <1>1, HandlerHeld, HandlerFiles DEF Inv, FileInv
<1>2. CASE QueueStep
  BY <1>2, QueueHeld, QueueFiles DEF Inv, FileInv
<1>3. CASE FileStep
  BY <1>3, FileHeld, FileFiles DEF Inv, FileInv
<1>4. CASE UNCHANGED vars
  BY <1>4 DEF Inv, FileTypes, HandlerTypes, QueueTypes, NothingLost, HeldInv, FileInv, FileBody, NamesInv,
              RowHasFile, OutputInv, SourceInv, File, vars, fileVars, redisVars, workerVars, runVars
<1> QED
  BY <1>1, <1>2, <1>3, <1>4, NextSplit

\* The inductive invariant.
THEOREM RegenSafe == Spec => []Inv
<1>1. Inv /\ [Next]_vars => Inv'
  BY NextInv
<1> QED
  BY InitInv, <1>1, PTL DEF Spec

\* Every variable keeps its type.
THEOREM TypeCorrect == Spec => []TypeOK
<1>1. Inv => TypeOK
  BY TypesSplit DEF Inv
<1> QED
  BY <1>1, RegenSafe, PTL

\* queue.rs:771-776, 941-947: an item without a result is in one of the two
\* Redis lists, through every crash and every lost answer.
THEOREM NothingLostSafe == Spec => []NothingLost
<1>1. Inv => NothingLost
  BY DEF Inv
<1> QED
  BY <1>1, RegenSafe, PTL

\* queue.rs:1165-1175: the file a post's row names exists, even when several
\* runs re-encode the same post and the worker dies between any two steps, if
\* no two posts share a file to begin with.
THEOREM RowHasFileSafe == ASSUME OwnFiles PROVE Spec => []RowHasFile
<1>1. Inv => RowHasFile
  BY DEF Inv, FileInv, FileBody
<1> QED
  BY <1>1, RegenSafe, PTL

-----------------------------------------------------------------------------
(* The reports.  An item earns its report when its post has another file    *)
(* and its source is gone, for good; from then on a second attempt fails at *)
(* its source check.  Told(r) are the items of a run that have earned it    *)
(* and are not about to be reported: what the handler has heard, and what   *)
(* waits in its channel, is no more than that.                              *)

Earned(i) == i \in pushed /\ row[PostOf(i)] # src[i] /\ Source(i) \notin disk

Reporting(i) == at[i] \in {"count", "publish"} /\ ok[i] = TRUE

Told(r) ==
    {i \in ItemsOf(r) : Earned(i) /\ at[i] \notin {"encode", "update", "remove"} /\ ~Reporting(i)}

\* Where v stands in s.
Places(s, v) == {n \in 1..Len(s) : s[n] = v}

Heard(r) == updated[r] + Cardinality(Places(mail[r], TRUE))

ReportInv ==
    /\ \A i \in Items : Reporting(i) => Earned(i)
    /\ \A r \in Runs : Heard(r) <= Cardinality(Told(r))

LEMMA PlacesType ==
    ASSUME NEW V, NEW s \in Seq(V), NEW v
    PROVE  IsFiniteSet(Places(s, v)) /\ Cardinality(Places(s, v)) \in Nat
<1>1. IsFiniteSet(1..Len(s)) /\ Places(s, v) \in SUBSET (1..Len(s))
  BY FS_Interval DEF Places
<1>2. IsFiniteSet(Places(s, v))
  BY <1>1, FS_Subset
<1> QED
  BY <1>2, FS_CardinalityType

LEMMA PlaceAppended ==
    ASSUME NEW V, NEW s \in Seq(V), NEW v \in V, NEW e \in V
    PROVE  Cardinality(Places(Append(s, e), v)) = Cardinality(Places(s, v)) + IF e = v THEN 1 ELSE 0
<1>1. IsFiniteSet(Places(s, v)) /\ Cardinality(Places(s, v)) \in Nat
  BY PlacesType
<1>2. CASE e = v
  <2>1. Places(Append(s, e), v) = Places(s, v) \cup {Len(s) + 1} /\ Len(s) + 1 \notin Places(s, v)
    BY <1>2 DEF Places
  <2> QED
    BY <1>1, <1>2, <2>1, FS_AddElement
<1>3. CASE e # v
  <2>1. Places(Append(s, e), v) = Places(s, v)
    BY <1>3 DEF Places
  <2> QED
    BY <1>1, <1>3, <2>1
<1> QED
  BY <1>2, <1>3

LEMMA PlaceTaken ==
    ASSUME NEW V, NEW s \in Seq(V), NEW v \in V, s # <<>>
    PROVE  Cardinality(Places(Tail(s), v)) + (IF Head(s) = v THEN 1 ELSE 0)
             <= Cardinality(Places(s, v))
<1> DEFINE later == Places(s, v) \ {1}
           shift == [n \in Places(Tail(s), v) |-> n + 1]
<1>1. /\ IsFiniteSet(later)
      /\ Cardinality(later) = IF 1 \in Places(s, v) THEN Cardinality(Places(s, v)) - 1
                                                    ELSE Cardinality(Places(s, v))
  BY PlacesType, FS_RemoveElement
<1>2. 1 \in Places(s, v) <=> Head(s) = v
  BY DEF Places
<1>3. shift \in Injection(Places(Tail(s), v), later)
  <2>1. \A n \in Places(Tail(s), v) : n \in Nat /\ n + 1 \in later
    BY DEF Places
  <2> QED
    BY <2>1 DEF Injection, IsInjective
<1>4. Cardinality(Places(Tail(s), v)) <= Cardinality(later)
  <2> HIDE DEF later, shift
  <2> QED
    BY <1>1, <1>3, FS_Injection
<1>5. Tail(s) \in Seq(V)
  OBVIOUS
<1>6. Cardinality(Places(Tail(s), v)) \in Nat /\ Cardinality(Places(s, v)) \in Nat
  BY <1>5, PlacesType
<1> HIDE DEF later
<1> QED
  BY <1>1, <1>2, <1>4, <1>6

LEMMA ToldType ==
    ASSUME NEW r \in Runs
    PROVE  IsFiniteSet(ItemsOf(r)) /\ Told(r) \in SUBSET ItemsOf(r) /\ Told(r)' \in SUBSET ItemsOf(r)
           /\ IsFiniteSet(Told(r)) /\ IsFiniteSet(Told(r)')
<1>1. IsFiniteSet({r}) /\ IsFiniteSet(Posts)
  BY FS_Singleton, RegenQueueAssumption DEF RegenQueueAssumption
<1>2. IsFiniteSet(ItemsOf(r))
  BY <1>1, FS_Product DEF ItemsOf
<1>3. Told(r) \in SUBSET ItemsOf(r) /\ Told(r)' \in SUBSET ItemsOf(r)
  BY DEF Told
<1> QED
  BY <1>2, <1>3, FS_Subset

\* What was earned stays earned: the item is fixed once it is pushed, rows only
\* take outputs, which are nobody's source, and nothing writes a file again.
LEMMA EarnedStays ==
    ASSUME Inv, OwnFiles, Next, NEW i \in Items, Earned(i)
    PROVE  Earned(i)'
<1> USE ItemParts DEF Inv, FileInv, FileTypes
<1>1. /\ i \in pushed /\ row[PostOf(i)] # src[i] /\ Source(i) \notin disk
      /\ run[RunOf(i)] # "off" /\ src[i] <= names /\ names \in Nat
  BY DEF Earned, HeldInv, FileBody, NamesInv
<1>2. src'[i] = src[i] /\ i \in pushed'
  <2>1. CASE HandlerStep
    <3>1. ASSUME NEW r \in Runs, ListPosts(r) PROVE src'[i] = src[i]
      BY <1>1, <3>1 DEF ListPosts
    <3>2. ASSUME NEW r \in Runs, PushFails(r) \/ Follow(r) \/ Handler(r) PROVE src' = src
      BY <3>2 DEF Handler, PushFails, Follow, HearMessage, Poll, Stall, Leave
    <3>3. pushed' = pushed
      BY <2>1 DEF HandlerStep, Handler, ListPosts, PushFails, Follow, HearMessage, Poll, Stall, Leave
    <3> QED
      BY <1>1, <2>1, <3>1, <3>2, <3>3 DEF HandlerStep
  <2>2. CASE QueueStep
    BY <1>1, <2>2 DEF QueueStep, Recover, Pop, PopFails, Crash, PushItem, CheckSource, Count, Publish, Ack
  <2>3. CASE FileStep
    BY <1>1, <2>3 DEF FileStep, Encode, UpdateRow, RemoveOld, ItemFails, Result
  <2> QED
    BY <2>1, <2>2, <2>3, NextSplit
<1>3. row'[PostOf(i)] # src[i]
  <2>1. CASE HandlerStep \/ QueueStep
    <3>1. row' = row
      BY <2>1 DEF HandlerStep, Handler, ListPosts, PushFails, Follow, HearMessage, Poll, Stall, Leave,
              QueueStep, Recover, Pop, PopFails, Crash, PushItem, CheckSource, Count, Publish, Ack, fileVars
    <3> QED
      BY <1>1, <3>1
  <2>2. ASSUME NEW k \in Items, Encode(k) \/ RemoveOld(k) PROVE row' = row
    BY <2>2 DEF Encode, RemoveOld
  <2>3. ASSUME NEW k \in Items, UpdateRow(k) \/ ItemFails(k)
        PROVE  \/ row' = row
               \/ at[k] = "update" /\ row' = [row EXCEPT ![PostOf(k)] = out[k]]
    BY <2>3 DEF UpdateRow, ItemFails
  <2>4. ASSUME NEW k \in Items, at[k] = "update" PROVE out[k] # src[i]
    BY <2>4 DEF FileBody, OutputInv
  <2> QED
    BY <1>1, <2>1, <2>2, <2>3, <2>4, NextSplit DEF FileStep
<1>4. Source(i) \notin disk'
  <2>1. disk' \subseteq disk \/ \E k \in Items : disk' = disk \cup {File(PostOf(k), names + 1)}
    BY NextSplit DEF HandlerStep, Handler, ListPosts, PushFails, Follow, HearMessage, Poll, Stall, Leave,
       QueueStep, Recover, Pop, PopFails, Crash, PushItem, CheckSource, Count, Publish, Ack,
       FileStep, Encode, UpdateRow, RemoveOld, ItemFails, fileVars
  <2>2. \A k \in Items : File(PostOf(k), names + 1) # Source(i)
    BY <1>1, FilesDiffer DEF Source
  <2> QED
    BY <1>1, <2>1, <2>2
<1> QED
  BY <1>2, <1>3, <1>4 DEF Earned, Source, File

\* Where an item goes in a step, and with what result.
LEMMA ItemMoves ==
    ASSUME Inv, Next, NEW i \in Items
    PROVE  \/ at'[i] = at[i] /\ ok'[i] = ok[i]
           \/ at'[i] \in {"none", "wait", "ack"}
           \/ at'[i] = "encode" /\ Source(i) \in disk
           \/ at[i] \in {"encode", "update"} /\ at'[i] \in {"update", "remove"}
           \/ at'[i] = "count" /\ ok'[i] = FALSE
           \/ RemoveOld(i)
           \/ at[i] = "count" /\ at'[i] = "publish" /\ ok'[i] = ok[i]
<1> USE DEF Inv, FileTypes, QueueTypes, Goto, Result
<1>1. CASE HandlerStep
  BY <1>1 DEF HandlerStep, Handler, ListPosts, PushFails, Follow, HearMessage, Poll, Stall, Leave, workerVars
<1>2. CASE Recover \/ Pop \/ PopFails \/ Crash
  BY <1>2 DEF Recover, Pop, PopFails, Crash, workerVars
<1>3. ASSUME NEW k \in Items, PushItem(k) \/ Publish(k) \/ Ack(k)
      PROVE  \/ at'[i] = at[i] /\ ok'[i] = ok[i]
             \/ at'[i] \in {"none", "wait", "ack"}
  BY <1>3 DEF PushItem, Publish, Ack, workerVars
<1>4. ASSUME NEW k \in Items, CheckSource(k)
      PROVE  \/ at'[i] = at[i] /\ ok'[i] = ok[i]
             \/ at'[i] = "encode" /\ Source(i) \in disk
             \/ at'[i] = "count" /\ ok'[i] = FALSE
  BY <1>4 DEF CheckSource
<1>5. ASSUME NEW k \in Items, Count(k)
      PROVE  \/ at'[i] = at[i] /\ ok'[i] = ok[i]
             \/ at'[i] \in {"none", "wait", "ack"}
             \/ at[i] = "count" /\ at'[i] = "publish" /\ ok'[i] = ok[i]
  <2>1. ok' = ok /\ at[k] = "count"
        /\ (at' = [at EXCEPT ![k] = "publish"] \/ at' = [at EXCEPT ![k] = "ack"])
    BY <1>5 DEF Count
  <2> QED
    BY <2>1
<1>6. ASSUME NEW k \in Items, Encode(k) \/ UpdateRow(k)
      PROVE  \/ at'[i] = at[i] /\ ok'[i] = ok[i]
             \/ at[i] \in {"encode", "update"} /\ at'[i] \in {"update", "remove"}
  BY <1>6 DEF Encode, UpdateRow
<1>7. ASSUME NEW k \in Items, RemoveOld(k)
      PROVE  \/ at'[i] = at[i] /\ ok'[i] = ok[i]
             \/ RemoveOld(i)
  <2>1. at' = [at EXCEPT ![k] = "count"] /\ ok' = [ok EXCEPT ![k] = TRUE]
    BY <1>7 DEF RemoveOld
  <2>2. CASE k = i
    BY <1>7, <2>2
  <2> QED
    BY <2>1, <2>2
<1>8. ASSUME NEW k \in Items, ItemFails(k)
      PROVE  \/ at'[i] = at[i] /\ ok'[i] = ok[i]
             \/ at'[i] = "count" /\ ok'[i] = FALSE
  <2>1. at' = [at EXCEPT ![k] = "count"] /\ ok' = [ok EXCEPT ![k] = FALSE]
    BY <1>8 DEF ItemFails
  <2> QED
    BY <2>1
<1> QED
  BY <1>1, <1>2, <1>3, <1>4, <1>5, <1>6, <1>7, <1>8, NextSplit DEF QueueStep, FileStep

\* A report is due only where it was earned: the success of an item is the
\* removal of its source.
LEMMA ReportsEarned ==
    ASSUME Inv, OwnFiles, "remove" \notin Faults, ReportInv, Next, NEW i \in Items, Reporting(i)'
    PROVE  Earned(i)'
<1>1. CASE Reporting(i)
  BY <1>1, EarnedStays DEF ReportInv
<1>2. CASE ~Reporting(i)
  <2>1. RemoveOld(i)
    BY <1>2, ItemMoves DEF Reporting
  <2>2. i \in pushed /\ row[PostOf(i)] # src[i]
    BY <2>1 DEF RemoveOld, Inv, HeldInv, FileInv, FileBody, SourceInv
  <2> QED
    BY <2>1, <2>2 DEF RemoveOld, Earned, Source, File
<1> QED
  BY <1>1, <1>2

\* An item that has earned its report is not encoded again, so it cannot
\* succeed a second time.
LEMMA ToldGrows ==
    ASSUME Inv, OwnFiles, "remove" \notin Faults, ReportInv, Next, NEW r \in Runs
    PROVE  Told(r) \subseteq Told(r)'
<1> SUFFICES ASSUME NEW i \in ItemsOf(r), i \in Told(r) PROVE i \in Told(r)'
  BY DEF Told
<1>1. /\ i \in Items /\ Earned(i) /\ ~Reporting(i)
      /\ at[i] \notin {"encode", "update", "remove"}
  BY ItemsOfAre DEF Told
<1>2. Earned(i)'
  BY <1>1, EarnedStays
<1>3. ~RemoveOld(i) /\ Source(i) \notin disk
  BY <1>1 DEF RemoveOld, Earned
<1>4. at'[i] \notin {"encode", "update", "remove"} /\ ~Reporting(i)'
  BY <1>1, <1>3, ItemMoves DEF Reporting
<1> QED
  BY <1>2, <1>4 DEF Told, ItemsOf

\* Only the publication of an item adds to what its handler hears.
LEMMA HeardMoves ==
    ASSUME Inv, Next, NEW r \in Runs
    PROVE  \/ updated'[r] = updated[r] /\ mail'[r] = mail[r]
           \/ HearMessage(r)
           \/ \E i \in ItemsOf(r) : /\ Publish(i)
                                    /\ mail'[r] = Append(mail[r], ok[i])
                                    /\ updated'[r] = updated[r]
<1> USE ItemParts DEF Inv, HandlerTypes
<1>1. ASSUME NEW q \in Runs, ListPosts(q) \/ PushFails(q) \/ Follow(q) \/ Poll(q) \/ Stall(q) \/ Leave(q)
      PROVE  updated' = updated /\ mail' = mail
  BY <1>1 DEF ListPosts, PushFails, Follow, Poll, Stall, Leave
<1>2. ASSUME NEW q \in Runs, HearMessage(q)
      PROVE  \/ updated'[r] = updated[r] /\ mail'[r] = mail[r]
             \/ HearMessage(r)
  <2>1. CASE q = r
    BY <1>2, <2>1
  <2>2. CASE q # r
    <3>1. mail' = [mail EXCEPT ![q] = Tail(@)]
      BY <1>2 DEF HearMessage
    <3>2. updated' = [updated EXCEPT ![q] = @ + 1] \/ updated' = updated
      BY <1>2, Zenon DEF HearMessage
    <3> QED
      BY <2>2, <3>1, <3>2
  <2> QED
    BY <2>1, <2>2
<1>3. ASSUME NEW i \in Items, Publish(i)
      PROVE  \/ updated'[r] = updated[r] /\ mail'[r] = mail[r]
             \/ /\ i \in ItemsOf(r)
                /\ mail'[r] = Append(mail[r], ok[i])
                /\ updated'[r] = updated[r]
  <2>1. updated' = updated
    BY <1>3 DEF Publish
  <2>2. mail' = [mail EXCEPT ![RunOf(i)] = Append(@, ok[i])] \/ mail' = mail
    BY <1>3 DEF Publish
  <2>3. CASE RunOf(i) = r
    BY <2>1, <2>2, <2>3, ItemsOfAre
  <2>4. CASE RunOf(i) # r
    BY <2>1, <2>2, <2>4
  <2> QED
    BY <2>3, <2>4
<1>4. CASE QueueStep
  <2>1. ASSUME NEW i \in Items, PushItem(i) \/ CheckSource(i) \/ Count(i) \/ Ack(i)
        PROVE  updated' = updated /\ mail' = mail
    BY <2>1 DEF PushItem, CheckSource, Count, Ack, runVars
  <2>2. CASE Recover \/ Pop \/ PopFails \/ Crash
    BY <2>2 DEF Recover, Pop, PopFails, Crash, runVars
  <2> QED
    BY <1>3, <1>4, <2>1, <2>2 DEF QueueStep
<1>5. CASE FileStep
  BY <1>5 DEF FileStep, Encode, UpdateRow, RemoveOld, ItemFails, runVars
<1> QED
  BY <1>1, <1>2, <1>4, <1>5, NextSplit DEF HandlerStep, Handler

LEMMA HeardBounded ==
    ASSUME Inv, Inv', OwnFiles, "remove" \notin Faults, ReportInv, Next, NEW r \in Runs
    PROVE  Heard(r)' <= Cardinality(Told(r)')
<1> DEFINE before == Cardinality(Places(mail[r], TRUE))
           after  == Cardinality(Places(mail'[r], TRUE))
           told   == Cardinality(Told(r))
           told1  == Cardinality(Told(r)')
<1>1. IsFiniteSet(Told(r)) /\ IsFiniteSet(Told(r)') /\ told \in Nat /\ told1 \in Nat
  BY ToldType, FS_CardinalityType
<1>2. Told(r) \subseteq Told(r)' /\ told <= told1
  BY <1>1, ToldGrows, FS_Subset
<1>3. /\ mail[r] \in Seq(BOOLEAN) /\ mail'[r] \in Seq(BOOLEAN)
      /\ updated[r] \in Nat /\ updated'[r] \in Nat
  BY DEF Inv, HandlerTypes
<1>4. before \in Nat /\ after \in Nat
  BY <1>3, PlacesType
<1>5. updated[r] + before <= told
  BY DEF ReportInv, Heard
<1> SUFFICES updated'[r] + after <= told1
  BY DEF Heard
<1>6. CASE updated'[r] = updated[r] /\ mail'[r] = mail[r]
  <2>1. before = after
    BY <1>6
  <2> HIDE DEF before, after, told, told1
  <2> QED
    BY <1>1, <1>2, <1>3, <1>4, <1>5, <1>6, <2>1
<1>7. CASE HearMessage(r)
  <2>1. mail[r] # <<>> /\ mail'[r] = Tail(mail[r])
    BY <1>7, Zenon DEF HearMessage, Inv, HandlerTypes
  <2>2. PICK h \in BOOLEAN : h = Head(mail[r])
    BY <1>3, <2>1
  <2>3. updated'[r] = updated[r] + IF h = TRUE THEN 1 ELSE 0
    <3>1. CASE h = TRUE
      <4>1. updated' = [updated EXCEPT ![r] = @ + 1]
        BY <1>7, <2>2, <3>1, Zenon DEF HearMessage
      <4> QED
        BY <3>1, <4>1 DEF Inv, HandlerTypes
    <3>2. CASE h = FALSE
      <4>1. updated' = updated
        BY <1>7, <2>2, <3>2, Zenon DEF HearMessage
      <4> QED
        BY <1>3, <3>2, <4>1
    <3> QED
      BY <3>1, <3>2
  <2>4. after + (IF h = TRUE THEN 1 ELSE 0) <= before
    <3>1. Cardinality(Places(Tail(mail[r]), TRUE)) + (IF Head(mail[r]) = TRUE THEN 1 ELSE 0)
            <= Cardinality(Places(mail[r], TRUE))
      BY <1>3, <2>1, PlaceTaken, Zenon
    <3> QED
      BY <2>1, <2>2, <3>1, Zenon
  <2> HIDE DEF before, after, told, told1
  <2> QED
    BY <1>1, <1>2, <1>3, <1>4, <1>5, <2>3, <2>4
<1>8. ASSUME NEW i \in ItemsOf(r), Publish(i),
             mail'[r] = Append(mail[r], ok[i]), updated'[r] = updated[r]
      PROVE  updated'[r] + after <= told1
  <2>1. i \in Items /\ ok[i] \in BOOLEAN
    BY ItemsOfAre DEF Inv, QueueTypes
  <2>2. after = before + IF ok[i] = TRUE THEN 1 ELSE 0
    <3>1. Cardinality(Places(Append(mail[r], ok[i]), TRUE))
            = Cardinality(Places(mail[r], TRUE)) + IF ok[i] = TRUE THEN 1 ELSE 0
      BY <1>3, <2>1, PlaceAppended, Zenon
    <3> QED
      BY <1>8, <3>1, Zenon
  <2>3. CASE ok[i] = TRUE
    <3>1. Reporting(i) /\ i \notin Told(r)
      BY <1>8, <2>3 DEF Publish, Reporting, Told
    <3>2. Earned(i)'
      BY <2>1, <3>1, EarnedStays DEF ReportInv
    <3>3. at'[i] = "ack"
      BY <1>8, <2>1 DEF Publish, Goto, Inv, FileTypes
    <3>4. i \in Told(r)'
      BY <3>2, <3>3 DEF Told, Reporting, ItemsOf
    <3>5. IsFiniteSet(Told(r) \cup {i}) /\ Cardinality(Told(r) \cup {i}) = told + 1
      BY <1>1, <3>1, FS_AddElement
    <3>6. told + 1 <= told1
      <4>1. (Told(r) \cup {i}) \in SUBSET Told(r)'
        BY <1>2, <3>4
      <4> QED
        BY <1>1, <3>5, <4>1, FS_Subset
    <3> HIDE DEF before, after, told, told1
    <3> QED
      BY <1>1, <1>3, <1>4, <1>5, <1>8, <2>2, <2>3, <3>6
  <2>4. CASE ok[i] # TRUE
    <3> HIDE DEF before, after, told, told1
    <3>1. after = before
      <4>1. (IF ok[i] = TRUE THEN 1 ELSE 0) = 0
        BY <2>4, Zenon
      <4>2. after = before + 0
        BY <2>2, <4>1, Zenon
      <4> QED
        BY <1>4, <4>2
    <3>2. told <= told1
      BY <1>2
    <3> QED
      BY <1>1, <1>3, <1>4, <1>5, <1>8, <3>1, <3>2
  <2> QED
    BY <2>3, <2>4
<1> QED
  BY <1>6, <1>7, <1>8, HeardMoves

LEMMA InitReports == Init => ReportInv
<1> SUFFICES ASSUME Init PROVE ReportInv
  OBVIOUS
<1>1. \A i \in Items : ~Reporting(i)
  BY DEF Init, Reporting
<1>2. ASSUME NEW r \in Runs PROVE Heard(r) <= Cardinality(Told(r))
  <2>1. Cardinality(Told(r)) \in Nat
    BY ToldType, FS_CardinalityType
  <2>2. Places(mail[r], TRUE) = {}
    BY <1>2 DEF Init, Places
  <2>3. Heard(r) = 0
    <3>1. updated[r] = 0 /\ Cardinality(Places(mail[r], TRUE)) = 0
      BY <1>2, <2>2, FS_EmptySet DEF Init
    <3>2. 0 + 0 = 0
      OBVIOUS
    <3> QED
      BY <3>1, <3>2, Zenon DEF Heard
  <2> QED
    BY <2>1, <2>3
<1> QED
  BY <1>1, <1>2 DEF ReportInv

LEMMA NextReports ==
    ASSUME Inv, Inv', OwnFiles, "remove" \notin Faults, ReportInv, [Next]_vars
    PROVE  ReportInv'
<1>1. CASE Next
  <2>1. \A i \in Items : Reporting(i)' => Earned(i)'
    BY <1>1, ReportsEarned
  <2>2. \A r \in Runs : Heard(r)' <= Cardinality(Told(r)')
    BY <1>1, HeardBounded
  <2> QED
    BY <2>1, <2>2 DEF ReportInv
<1>2. CASE UNCHANGED vars
  BY <1>2 DEF ReportInv, Reporting, Earned, Heard, Told, Source, File, vars, fileVars, redisVars,
              workerVars, runVars
<1> QED
  BY <1>1, <1>2

\* What was told of was earned.
LEMMA ReportsTruthful == ASSUME HandlerTypes, ReportInv PROVE UpdatedTruthful
<1> SUFFICES ASSUME NEW r \in Runs
             PROVE  updated[r] <= Cardinality({i \in ItemsOf(r) : i \in pushed /\ row[PostOf(i)] # src[i]})
  BY DEF UpdatedTruthful
<1> DEFINE renewed == {i \in ItemsOf(r) : i \in pushed /\ row[PostOf(i)] # src[i]}
           new     == Cardinality(renewed)
           told    == Cardinality(Told(r))
           waiting == Cardinality(Places(mail[r], TRUE))
<1>1. IsFiniteSet(renewed) /\ new \in Nat
  <2>1. IsFiniteSet(ItemsOf(r)) /\ renewed \in SUBSET ItemsOf(r)
    BY ToldType
  <2> QED
    BY <2>1, FS_Subset, FS_CardinalityType
<1>2. told \in Nat /\ told <= new
  <2>1. Told(r) \in SUBSET renewed
    BY DEF Told, Earned
  <2> QED
    BY <1>1, <2>1, ToldType, FS_Subset, FS_CardinalityType
<1>3. updated[r] \in Nat /\ waiting \in Nat
  BY PlacesType DEF HandlerTypes
<1>4. updated[r] + waiting <= told
  BY DEF ReportInv, Heard
<1>5. updated[r] <= new
  <2> HIDE DEF new, told, waiting
  <2> QED
    BY <1>1, <1>2, <1>3, <1>4
<1> QED
  BY <1>5

\* queue.rs:1116-1126, 1165-1175: the handler reports as updated no more items
\* than have a post with a new file, although an item may be worked on again
\* after a crash or a lost acknowledgement, if old files can be removed and no
\* two posts share a file to begin with.
THEOREM UpdatedTruthfulSafe ==
    ASSUME OwnFiles, "remove" \notin Faults PROVE Spec => []UpdatedTruthful
<1>1. Init => Inv /\ ReportInv
  BY InitInv, InitReports
<1>2. Inv /\ ReportInv /\ [Next]_vars => Inv' /\ ReportInv'
  BY NextInv, NextReports
<1>3. Inv /\ ReportInv => UpdatedTruthful
  BY ReportsTruthful DEF Inv
<1> QED
  BY <1>1, <1>2, <1>3, PTL DEF Spec

-----------------------------------------------------------------------------
(* Refinement.  The lists of Redis only pass items between each other; the  *)
(* name an output gets is on no file, and an item has a result only after   *)
(* it was pushed.                                                           *)

StoreInv ==
    /\ 1 <= names
    /\ \A f \in disk : f[2] <= names
    /\ finished \subseteq pushed

LEMMA StoreInit == Init => StoreInv
  BY DEF Init, StoreInv, File

LEMMA StoreStep == ASSUME Inv, StoreInv, [Next]_vars PROVE StoreInv'
<1> USE DEF Inv, StoreInv
<1>1. ASSUME UNCHANGED <<fileVars, finished>>, pushed \subseteq pushed' PROVE StoreInv'
  BY <1>1 DEF fileVars
<1>2. CASE HandlerStep
  BY <1>1, <1>2 DEF HandlerStep, Handler, ListPosts, PushFails, Follow, HearMessage, Poll, Stall, Leave
<1>3. ASSUME NEW i \in Items, CheckSource(i) PROVE StoreInv'
  <2>1. UNCHANGED fileVars /\ pushed' = pushed /\ finished' \in {finished, finished \cup {i}}
    BY <1>3 DEF CheckSource, Result
  <2>2. i \in pushed
    BY <1>3 DEF CheckSource, HeldInv
  <2> QED
    BY <2>1, <2>2 DEF fileVars
<1>4. CASE Recover \/ Pop \/ PopFails \/ Crash
  BY <1>1, <1>4 DEF Recover, Pop, PopFails, Crash
<1>5. ASSUME NEW i \in Items, PushItem(i) \/ Count(i) \/ Publish(i) \/ Ack(i) PROVE StoreInv'
  BY <1>1, <1>5 DEF PushItem, Count, Publish, Ack
<1>6. ASSUME NEW i \in Items, Encode(i) PROVE StoreInv'
  <2>1. /\ names \in Nat /\ names' = names + 1
        /\ disk' = disk \cup {File(PostOf(i), names')}
        /\ UNCHANGED <<pushed, finished>>
    BY <1>6 DEF Encode, FileTypes
  <2>2. \A f \in disk : f[2] \in Nat /\ f[2] <= names
    BY DEF FileTypes
  <2>3. File(PostOf(i), names')[2] = names'
    BY DEF File
  <2> QED
    BY <2>1, <2>2, <2>3
<1>7. ASSUME NEW i \in Items, UpdateRow(i) \/ RemoveOld(i) \/ ItemFails(i) PROVE StoreInv'
  <2>1. /\ names' = names /\ disk' \subseteq disk /\ pushed' = pushed
        /\ finished' \in {finished, finished \cup {i}}
    BY <1>7 DEF UpdateRow, RemoveOld, ItemFails, Result
  <2>2. i \in pushed
    BY <1>7 DEF UpdateRow, RemoveOld, ItemFails, HeldInv
  <2> QED
    BY <2>1, <2>2
<1>8. CASE UNCHANGED vars
  BY <1>1, <1>8 DEF vars
<1> QED
  BY <1>2, <1>3, <1>4, <1>5, <1>6, <1>7, <1>8, NextSplit DEF QueueStep, FileStep

LEMMA ItemsAgree == Store!Items = Items /\ \A i \in Items : Store!PostOf(i) = PostOf(i)
  BY DEF Store!Items, Items, Store!PostOf, PostOf

LEMMA QueueStepRefines ==
    ASSUME Inv, StoreInv, QueueStep
    PROVE  Store!Next \/ UNCHANGED Store!storeVars
<1> USE ItemsAgree DEF Inv
<1>1. row' = row /\ disk' = disk
  BY DEF QueueStep, Recover, Pop, PopFails, Crash, PushItem, CheckSource, Count, Publish, Ack, fileVars
<1>2. [p \in Posts |-> File(p, row[p])]' = [p \in Posts |-> File(p, row[p])]
  BY <1>1 DEF File
<1>3. ASSUME queue' \cup processing' = queue \cup processing, finished' = finished
      PROVE  UNCHANGED Store!storeVars
  BY <1>1, <1>2, <1>3 DEF Store!storeVars
<1>4. CASE Recover \/ Pop \/ PopFails \/ Crash
  BY <1>3, <1>4 DEF Recover, Pop, PopFails, Crash, redisVars
<1>5. ASSUME NEW i \in Items, PushItem(i) PROVE Store!Next
  <2>1. /\ i \notin pushed /\ i \notin (queue \cup processing) \cup finished
        /\ queue' = queue \cup {i} /\ processing' = processing /\ finished' = finished
    BY <1>5 DEF PushItem, HeldInv, StoreInv
  <2>2. Store!Enqueue(i)
    BY <1>1, <1>2, <2>1 DEF Store!Enqueue
  <2> QED
    BY <2>2 DEF Store!Next
<1>6. ASSUME NEW i \in Items, Ack(i) PROVE Store!Next \/ UNCHANGED Store!storeVars
  <2>1. /\ i \in processing /\ i \in finished
        /\ processing' \in {processing, processing \ {i}}
        /\ queue' = queue /\ finished' = finished
    BY <1>6 DEF Ack, HeldInv
  <2>2. CASE i \in queue \/ processing' = processing
    BY <1>3, <2>1, <2>2
  <2>3. CASE i \notin queue /\ processing' = processing \ {i}
    <3>1. Store!Acknowledge(i)
      BY <1>1, <1>2, <2>1, <2>3 DEF Store!Acknowledge
    <3> QED
      BY <3>1 DEF Store!Next
  <2> QED
    BY <2>1, <2>2, <2>3
<1>7. ASSUME NEW i \in Items, CheckSource(i) PROVE Store!Next
  <2>1. /\ i \in processing /\ UNCHANGED <<queue, processing>>
        /\ finished' \in {finished, finished \cup {i}}
    BY <1>7 DEF CheckSource, Result, HeldInv, redisVars
  <2>2. Store!Work(i)
    BY <1>1, <1>2, <2>1 DEF Store!Work
  <2> QED
    BY <2>2 DEF Store!Next
<1>8. ASSUME NEW i \in Items, Count(i) \/ Publish(i) PROVE UNCHANGED Store!storeVars
  BY <1>3, <1>8 DEF Count, Publish, redisVars
<1> QED
  BY <1>4, <1>5, <1>6, <1>7, <1>8 DEF QueueStep

\* A source about to be removed is no post's file, an output about to become
\* one is no other post's.
LEMMA FileStepRefines ==
    ASSUME Inv, StoreInv, OwnFiles, FileStep
    PROVE  Store!Next
<1> USE ItemParts, ItemsAgree DEF Inv
<1> DEFINE shows == [p \in Posts |-> File(p, row[p])]
           Held(i)    == i \in queue \cup processing /\ UNCHANGED <<queue, processing>>
           Settles(i) == finished' \in {finished, finished \cup {i}}
<1>1. ASSUME row' = row PROVE shows' = shows
  BY <1>1 DEF File
<1>2. ASSUME NEW i \in Items, Held(i), Settles(i),
             Store!Add \/ Store!ChangeOver(PostOf(i)) \/ Store!Discard \/ (shows' = shows /\ disk' = disk)
      PROVE  Store!Next
  <2>1. Store!Work(i)
    BY <1>2 DEF Store!Work
  <2> QED
    BY <1>2, <2>1 DEF Store!Next
<1>3. \A i \in Items : at[i] # "none" => i \in processing
  BY DEF HeldInv
<1>4. FileBody
  BY DEF FileInv
<1>5. ASSUME NEW i \in Items, Encode(i) PROVE Store!Next
  <2>1. /\ names \in Nat /\ names' = names + 1 /\ row' = row
        /\ disk' = disk \cup {File(PostOf(i), names')}
    BY <1>5 DEF Encode, FileTypes
  <2>2. \A f \in disk : f[2] \in Nat /\ f[2] <= names
    BY DEF FileTypes, StoreInv
  <2>3. File(PostOf(i), names')[2] = names'
    BY DEF File
  <2>4. File(PostOf(i), names') \notin disk
    BY <2>1, <2>2, <2>3
  <2>5. Store!Add
    BY <1>1, <2>1, <2>4 DEF Store!Add
  <2>6. Held(i) /\ Settles(i)
    BY <1>3, <1>5 DEF Encode, redisVars
  <2> QED
    BY <1>2, <2>5, <2>6
<1>6. ASSUME NEW i \in Items, at[i] = "update", disk' = disk, row' = [row EXCEPT ![PostOf(i)] = out[i]]
      PROVE  Store!ChangeOver(PostOf(i))
  <2> DEFINE f == File(PostOf(i), out[i])
  <2>1. f \in disk
    BY <1>4, <1>6 DEF FileBody, OutputInv
  <2>2. \A q \in Posts \ {PostOf(i)} : shows[q] # f
    BY FilesDiffer
  <2>3. shows' = [shows EXCEPT ![PostOf(i)] = f]
    <3>1. \A q \in Posts : row'[q] = IF q = PostOf(i) THEN out[i] ELSE row[q]
      BY <1>6 DEF FileTypes
    <3>2. shows' = [q \in Posts |-> File(q, row'[q])]
      BY DEF File
    <3> HIDE DEF f
    <3>3. \A q \in Posts : File(q, row'[q]) = IF q = PostOf(i) THEN f ELSE shows[q]
      BY <3>1 DEF f
    <3> QED
      BY <3>2, <3>3
  <2> HIDE DEF f, shows
  <2> QED
    BY <1>6, <2>1, <2>2, <2>3 DEF Store!ChangeOver, shows
<1>7. ASSUME NEW i \in Items, at[i] = "remove", row' = row, disk' = disk \ {Source(i)}
      PROVE  Store!Discard \/ (shows' = shows /\ disk' = disk)
  <2>1. CASE Source(i) \notin disk
    BY <1>1, <1>7, <2>1
  <2>2. CASE Source(i) \in disk
    <3>1. \A q \in Posts : shows[q] # Source(i)
      BY <1>4, <1>7, FilesDiffer DEF FileBody, SourceInv, Source
    <3>2. Store!Discard
      BY <1>1, <1>7, <2>2, <3>1 DEF Store!Discard
    <3> QED
      BY <3>2
  <2> QED
    BY <2>1, <2>2
<1>8. ASSUME NEW i \in Items, UpdateRow(i) PROVE Store!Next
  <2>1. Held(i) /\ Settles(i)
    BY <1>3, <1>8 DEF UpdateRow, redisVars
  <2>2. Store!ChangeOver(PostOf(i))
    BY <1>6, <1>8 DEF UpdateRow
  <2> QED
    BY <1>2, <2>1, <2>2
<1>9. ASSUME NEW i \in Items, RemoveOld(i) PROVE Store!Next
  <2>1. Held(i) /\ Settles(i)
    BY <1>3, <1>9 DEF RemoveOld, Result, redisVars
  <2>2. Store!Discard \/ (shows' = shows /\ disk' = disk)
    BY <1>1, <1>7, <1>9 DEF RemoveOld
  <2> QED
    BY <1>2, <2>1, <2>2
<1>10. ASSUME NEW i \in Items, ItemFails(i) PROVE Store!Next
  <2>1. Held(i) /\ Settles(i)
    BY <1>3, <1>10 DEF ItemFails, Result, redisVars
  <2>2. \/ Store!ChangeOver(PostOf(i)) \/ Store!Discard
        \/ shows' = shows /\ disk' = disk
    BY <1>1, <1>6, <1>7, <1>10 DEF ItemFails
  <2> QED
    BY <1>2, <2>1, <2>2
<1> QED
  BY <1>5, <1>8, <1>9, <1>10 DEF FileStep

\* Queue and worker implement the store: an item is held until it has a result,
\* a post changes over to a file that exists and is its own, and no file goes
\* that a post shows, for any runs over any posts, whenever the worker dies and
\* whatever fails, if no two posts share a file to begin with
\* (queue.rs:771-776, 941-952, 1116-1175).
THEOREM QueueImplementsStore == ASSUME OwnFiles PROVE Spec => ImplementsStore
<1>1. Init => Store!Init
  BY DEF Init, Store!Init
<1>2. Inv /\ StoreInv /\ [Next]_vars => [Store!Next]_(Store!storeVars)
  <2> SUFFICES ASSUME Inv, StoreInv, [Next]_vars
               PROVE  Store!Next \/ UNCHANGED Store!storeVars
    OBVIOUS
  <2>1. CASE UNCHANGED <<fileVars, redisVars, finished>>
    BY <2>1 DEF Store!storeVars, fileVars, redisVars, File
  <2>2. CASE HandlerStep \/ UNCHANGED vars
    BY <2>1, <2>2
       DEF HandlerStep, Handler, ListPosts, PushFails, Follow, HearMessage, Poll, Stall, Leave, vars
  <2> QED
    BY <2>2, QueueStepRefines, FileStepRefines, NextSplit
<1>3. Spec => []StoreInv
  <2>1. Inv /\ StoreInv /\ [Next]_vars => StoreInv'
    BY StoreStep
  <2> QED
    BY <2>1, StoreInit, RegenSafe, PTL DEF Spec
<1> QED
  BY <1>1, <1>2, <1>3, RegenSafe, PTL DEF Spec, ImplementsStore, Store!Spec
=============================================================================
