------------------------- MODULE PostPipelineProofs -------------------------
(***************************************************************************)
(* Proofs about PostPipeline, for any posts, users, limits, similarity and *)
(* number of crashes, and every choice of faults.                          *)
(***************************************************************************)
EXTENDS PostPipeline, FiniteSetTheorems, TLAPS

Stages == {"none", "queued", "download", "fetched"} \cup Working

(* The types, without the bound on the posts at work.                      *)
RowTypes ==
    /\ req \in [Posts -> {"new", "refused", "checked", "made"}]
    /\ row \in [Posts -> {"none", "dirty", "clean"}]
    /\ hash \in [Posts -> Content]
    /\ released \subseteq Posts
    /\ deleted \subseteq Posts
    /\ releasing \subseteq Posts
    /\ removing \in [Posts -> {"no", "files", "row"}]
    /\ dupKey \subseteq Posts
    /\ modal \in [Posts -> {"closed", "polling", "duplicates", "release"}]

FileTypes ==
    /\ at \in [Posts -> Stages]
    /\ got \in [Posts -> Content]
    /\ tmp \in [Names -> Content]
    /\ upload \subseteq Uploads
    /\ image \in [Names -> Content]
    /\ video \in [Posts -> Content]
    /\ crashes \in 0..MaxCrashes
    /\ faults \in FaultSets
    /\ beside \in [Posts -> SUBSET Posts]

Types == RowTypes /\ FileTypes
Bounded == Cardinality(AtWork) <= Concurrency

LEMMA TypesSplit == TypeOK <=> Types /\ Bounded
  BY DEF TypeOK, Types, RowTypes, FileTypes, Bounded, Stages

LEMMA NamesOfPosts == \A p \in Posts : NameOf[p] \in Names
  BY PipelineAssumption DEF PipelineAssumption

LEMMA SourceType == ASSUME Types, NEW p \in Posts PROVE Source(p) \in Content
  BY NamesOfPosts DEF Types, FileTypes, Source, Content

-----------------------------------------------------------------------------
(* Types. *)

\* The steps of requests, of the batch and of one post.
RequestStep == \E p \in Posts : Request(p) \/ Poll(p)
BatchStep ==
    \/ Drain \/ Crash
    \/ \E p \in Posts : BeginDownload(p) \/ EndDownload(p) \/ DownloadFails(p) \/ Take(p)
VideoStep(p) == Move(p) \/ Probe(p)
OutputStep == \E p \in Posts : ImageStep(p) \/ VideoStep(p)
EndStep == \E p \in Posts : Finalize(p) \/ FinalizeFails(p) \/ Finish(p)

LEMMA NextSplit == Next => RequestStep \/ BatchStep \/ OutputStep \/ EndStep
  BY DEF Next, RequestStep, BatchStep, OutputStep, EndStep, WorkerStep, PromptStep, VideoStep

LEMMA InitTypes == Init => TypeOK
<1> SUFFICES ASSUME Init PROVE TypeOK
  OBVIOUS
<1> USE DEF Init
<1>1. Types
  BY PipelineAssumption DEF Types, RowTypes, FileTypes, Content, Stages, PipelineAssumption
<1>2. AtWork = {}
  BY DEF AtWork, Working
<1>3. Bounded
  BY <1>2, FS_EmptySet, PipelineAssumption DEF Bounded, PipelineAssumption
<1> QED
  BY <1>1, <1>3, TypesSplit

LEMMA DeleteDirtyType ==
    ASSUME Types, NEW p \in Posts, TryDeleteDirty(p)
    PROVE  row' \in [Posts -> {"none", "dirty", "clean"}]
  BY DEF Types, RowTypes, TryDeleteDirty, DeleteDirty

LEMMA RequestTypes == ASSUME Types, RequestStep PROVE Types'
<1> USE NamesOfPosts DEF Types, RowTypes, FileTypes, Content, rowVars, fileVars, workerVars, auxVars
<1>1. ASSUME NEW p \in Posts, Check(p) \/ Insert(p) PROVE Types'
  BY <1>1 DEF Check, Insert
<1>2. ASSUME NEW p \in Posts, Poll(p) \/ BeginRelease(p) \/ Release(p) PROVE Types'
  BY <1>2 DEF Poll, BeginRelease, Release
<1>3. ASSUME NEW p \in Posts, RemoveFiles(p) \/ DeletePost(p) PROVE Types'
  BY <1>3 DEF RemoveFiles, DeletePost
<1> QED
  BY <1>1, <1>2, <1>3 DEF RequestStep, Request

LEMMA BatchTypes == ASSUME Types, BatchStep PROVE Types'
<1> USE NamesOfPosts DEF Types, RowTypes, FileTypes, Content, Stages, Working, Goto,
        rowVars, httpVars, fileVars, auxVars
<1>1. CASE Drain
  BY <1>1 DEF Drain
<1>2. CASE Crash
  BY <1>2, PipelineAssumption DEF Crash, PipelineAssumption
<1>3. ASSUME NEW p \in Posts, BeginDownload(p) \/ EndDownload(p) PROVE Types'
  BY <1>3 DEF BeginDownload, EndDownload
<1>4. ASSUME NEW p \in Posts, DownloadFails(p) PROVE Types'
  BY <1>4, DeleteDirtyType DEF DownloadFails
<1>5. ASSUME NEW p \in Posts, Take(p) PROVE Types'
  BY <1>5 DEF Take
<1> QED
  BY <1>1, <1>2, <1>3, <1>4, <1>5 DEF BatchStep

LEMMA OutputTypes == ASSUME Types, OutputStep PROVE Types'
<1> USE NamesOfPosts DEF Types, RowTypes, FileTypes, Stages, Working, Goto,
        rowVars, httpVars, fileVars, auxVars
<1>1. "part" \in Content /\ "none" \in Content
  BY DEF Content
<1>2. ASSUME NEW p \in Posts, Encode(p) \/ EncodeFails(p) PROVE Types'
  BY <1>1, <1>2, SourceType DEF Encode, EncodeFails
<1>3. ASSUME NEW p \in Posts, Compare(p) \/ RemoveOutput(p) PROVE Types'
  BY <1>1, <1>3 DEF Compare, RemoveOutput
<1>4. ASSUME NEW p \in Posts, Reject(p) PROVE Types'
  BY <1>4, DeleteDirtyType DEF Reject
<1>5. ASSUME NEW p \in Posts, Move(p) \/ Probe(p) PROVE Types'
  BY <1>1, <1>5, SourceType DEF Move, Probe
<1> QED
  BY <1>2, <1>3, <1>4, <1>5 DEF OutputStep, ImageStep, VideoStep

LEMMA EndTypes == ASSUME Types, EndStep PROVE Types'
<1> USE NamesOfPosts DEF Types, RowTypes, FileTypes, Stages, Working, Goto,
        httpVars, fileVars, auxVars
<1>1. "none" \in Content
  BY DEF Content
<1>2. ASSUME NEW p \in Posts, Finalize(p) \/ FinalizeFails(p) PROVE Types'
  BY <1>1, <1>2 DEF Finalize, FinalizeFails, FinalizePost
<1>3. ASSUME NEW p \in Posts, Finish(p) PROVE Types'
  BY <1>1, <1>3, DeleteDirtyType DEF Finish
<1> QED
  BY <1>2, <1>3 DEF EndStep

LEMMA NextTypes == ASSUME Types, [Next]_vars PROVE Types'
<1>1. CASE UNCHANGED vars
  BY <1>1 DEF vars, rowVars, httpVars, fileVars, workerVars, auxVars, Types, RowTypes, FileTypes
<1> QED
  BY <1>1, NextSplit, RequestTypes, BatchTypes, OutputTypes, EndTypes

-----------------------------------------------------------------------------
(* The limit on the posts at work: only Take adds one. *)

LEMMA TakeIsFirst ==
    ASSUME Types, [Next]_vars
    PROVE  AtWork' \subseteq AtWork \/ \E p \in Posts : Take(p) /\ AtWork' \subseteq AtWork \cup {p}
<1> USE DEF Types, FileTypes, AtWork, Working, Goto, workerVars, auxVars
<1>1. CASE UNCHANGED vars
  BY <1>1 DEF vars
<1>2. CASE RequestStep
  BY <1>2 DEF RequestStep, Request, Check, Insert, Poll, BeginRelease, Release, RemoveFiles, DeletePost
<1>3. CASE BatchStep
  <2>1. CASE Drain \/ Crash
    BY <2>1 DEF Drain, Crash
  <2>2. ASSUME NEW p \in Posts, BeginDownload(p) \/ EndDownload(p) \/ DownloadFails(p)
        PROVE  AtWork' \subseteq AtWork
    BY <2>2 DEF BeginDownload, EndDownload, DownloadFails
  <2>3. ASSUME NEW p \in Posts, Take(p)
        PROVE  AtWork' \subseteq AtWork \cup {p}
    BY <2>3 DEF Take
  <2> QED
    BY <1>3, <2>1, <2>2, <2>3 DEF BatchStep
<1>4. CASE OutputStep
  BY <1>4 DEF OutputStep, ImageStep, VideoStep, Encode, EncodeFails, Compare, RemoveOutput, Reject,
              Move, Probe
<1>5. CASE EndStep
  BY <1>5 DEF EndStep, Finalize, FinalizeFails, Finish
<1> QED
  BY <1>1, <1>2, <1>3, <1>4, <1>5, NextSplit

LEMMA NextBounded == ASSUME Types, Bounded, [Next]_vars PROVE Bounded'
<1>1. AtWork \subseteq Posts /\ IsFiniteSet(Posts) /\ Concurrency \in Nat
  BY PipelineAssumption DEF AtWork, PipelineAssumption
<1>2. IsFiniteSet(AtWork) /\ Cardinality(AtWork) \in Nat
  BY <1>1, FS_Subset, FS_CardinalityType
<1>3. CASE AtWork' \subseteq AtWork
  BY <1>2, <1>3, <1>1, FS_Subset, FS_CardinalityType DEF Bounded
<1>4. ASSUME NEW p \in Posts, Take(p), AtWork' \subseteq AtWork \cup {p} PROVE Bounded'
  <2>1. Cardinality(AtWork) < Concurrency
    BY <1>4 DEF Take
  <2>2. IsFiniteSet(AtWork \cup {p}) /\ Cardinality(AtWork \cup {p}) <= Cardinality(AtWork) + 1
    BY <1>2, FS_AddElement
  <2>3. Cardinality(AtWork') <= Cardinality(AtWork \cup {p}) /\ Cardinality(AtWork') \in Nat
    <3>1. IsFiniteSet(AtWork') /\ Cardinality(AtWork') <= Cardinality(AtWork \cup {p})
      BY <1>4, <2>2, FS_Subset
    <3> QED
      BY <3>1, FS_CardinalityType
  <2>4. Cardinality(AtWork \cup {p}) \in Nat
    BY <2>2, FS_CardinalityType
  <2> QED
    BY <1>1, <1>2, <2>1, <2>2, <2>3, <2>4 DEF Bounded
<1> QED
  BY <1>3, <1>4, TakeIsFirst

\* Every variable keeps its type, and the worker never has more posts in its
\* processing stage than it is configured for.
THEOREM TypeCorrect == Spec => []TypeOK
<1>1. TypeOK /\ [Next]_vars => TypeOK'
  <2> SUFFICES ASSUME TypeOK, [Next]_vars PROVE TypeOK'
    OBVIOUS
  <2>1. Types /\ Bounded
    BY TypesSplit
  <2>2. Types' /\ Bounded'
    BY <2>1, NextTypes, NextBounded
  <2> QED
    BY <2>2 DEF TypeOK, Types, RowTypes, FileTypes, Bounded, Stages
<1> QED
  BY InitTypes, <1>1, PTL DEF Spec

-----------------------------------------------------------------------------
(* Finalized rows stay. *)

\* Before its request inserted it, a post has no row.
RowIsMade == \A p \in Posts : req[p] # "made" => row[p] = "none"

LEMMA RowIsMadeStep == ASSUME Types, RowIsMade, [Next]_vars PROVE RowIsMade'
<1> USE DEF Types, RowTypes, rowVars, httpVars, RowIsMade
<1>1. CASE UNCHANGED vars
  BY <1>1 DEF vars
<1>2. CASE RequestStep
  BY <1>2 DEF RequestStep, Request, Check, Insert, Poll, BeginRelease, Release, RemoveFiles, DeletePost
<1>3. CASE BatchStep
  BY <1>3 DEF BatchStep, Drain, Crash, BeginDownload, EndDownload, DownloadFails, Take,
              TryDeleteDirty, DeleteDirty
<1>4. CASE OutputStep
  BY <1>4 DEF OutputStep, ImageStep, VideoStep, Encode, EncodeFails, Compare, RemoveOutput, Reject,
              Move, Probe, TryDeleteDirty, DeleteDirty
<1>5. CASE EndStep
  BY <1>5 DEF EndStep, Finalize, FinalizeFails, Finish, FinalizePost, TryDeleteDirty, DeleteDirty
<1> QED
  BY <1>1, <1>2, <1>3, <1>4, <1>5, NextSplit

\* Nothing the worker or a request does takes a finalized row away.
LEMMA CleanStep ==
    ASSUME Types, RowIsMade, [Next]_vars, NEW p \in Posts, row[p] = "clean"
    PROVE  row'[p] = "clean"
<1> USE DEF Types, RowTypes, rowVars, RowIsMade
<1>1. CASE UNCHANGED vars
  BY <1>1 DEF vars
<1>2. CASE RequestStep
  BY <1>2 DEF RequestStep, Request, Check, Insert, Poll, BeginRelease, Release, RemoveFiles, DeletePost
<1>3. ASSUME NEW q \in Posts, TryDeleteDirty(q) PROVE row'[p] = "clean"
  BY <1>3 DEF TryDeleteDirty, DeleteDirty
<1>4. CASE BatchStep
  <2>1. UNCHANGED row \/ \E q \in Posts : TryDeleteDirty(q)
    BY <1>4 DEF BatchStep, Drain, Crash, BeginDownload, EndDownload, DownloadFails, Take
  <2> QED
    BY <1>3, <2>1
<1>5. CASE OutputStep
  <2>1. UNCHANGED row \/ \E q \in Posts : TryDeleteDirty(q)
    BY <1>5 DEF OutputStep, ImageStep, VideoStep, Encode, EncodeFails, Compare, RemoveOutput, Reject,
                Move, Probe
  <2> QED
    BY <1>3, <2>1
<1>6. CASE EndStep
  <2>1. \/ UNCHANGED row
        \/ \E q \in Posts : TryDeleteDirty(q) \/ FinalizePost(q)
    BY <1>6 DEF EndStep, Finalize, FinalizeFails, Finish
  <2>2. ASSUME NEW q \in Posts, FinalizePost(q) PROVE row'[p] = "clean"
    BY <2>2 DEF FinalizePost
  <2> QED
    BY <1>3, <2>1, <2>2
<1> QED
  BY <1>1, <1>2, <1>4, <1>5, <1>6, NextSplit

\* queue.rs:490-493, db.rs:92-99: a finalized post never leaves the database,
\* whatever fails, and also when its finalization was reported as a failure.
THEOREM CleanStaysSafe == Spec => CleanStays
<1>1. Init => Types /\ RowIsMade
  BY InitTypes, TypesSplit DEF Init, RowIsMade
<1>2. Types /\ RowIsMade /\ [Next]_vars => (Types /\ RowIsMade)'
  BY NextTypes, RowIsMadeStep
<1>3. Types /\ RowIsMade /\ [Next]_vars =>
        [\A p \in Posts : row[p] = "clean" => row'[p] = "clean"]_vars
  BY CleanStep
<1> QED
  BY <1>1, <1>2, <1>3, PTL DEF Spec, CleanStays

-----------------------------------------------------------------------------
(* A finished post has its own picture, if no two posts have one name.  The *)
(* worker knows a post by its name in the download and image directories,   *)
(* so the invariant follows a picture from the download to the row.         *)

DistinctNames == \A p, q \in Posts : NameOf[p] = NameOf[q] => p = q

BeforeFinal == {"queued", "download", "fetched", "encode", "compare", "duplicate", "reject",
                "move", "probe", "finalize"}

OwnStage(p) ==
    /\ at[p] \in BeforeFinal => row[p] # "clean"
    /\ at[p] \in {"encode", "compare", "duplicate", "reject"} => IsImage(p)
    /\ at[p] \in {"move", "probe"} => ~IsImage(p)

OwnSource(p) == at[p] \in {"fetched", "encode", "move"} /\ p \notin Uploads => tmp[NameOf[p]] = p

OwnOutput(p) ==
    /\ at[p] \in {"compare", "finalize"} /\ IsImage(p) => image[NameOf[p]] = p /\ got[p] = p
    /\ at[p] \in {"probe", "finalize"} /\ ~IsImage(p) => video[p] = p

OwnFinished(p) ==
    Finished(p) => IF IsImage(p) THEN image[NameOf[p]] = p /\ hash[p] = p ELSE video[p] = p

Own(p) == OwnStage(p) /\ OwnSource(p) /\ OwnOutput(p) /\ OwnFinished(p)
OwnInv == Types /\ RowIsMade /\ \A p \in Posts : Own(p)

LEMMA OwnInit == Init => \A p \in Posts : Own(p)
  BY DEF Init, Own, OwnStage, OwnSource, OwnOutput, OwnFinished, Finished, BeforeFinal

LEMMA OwnUnchanged ==
    ASSUME NEW p \in Posts, Own(p), row' = row, hash' = hash, at' = at, got' = got, tmp' = tmp,
           image' = image, video' = video, removing' = removing, deleted' = deleted
    PROVE  Own(p)'
  BY DEF Own, OwnStage, OwnSource, OwnOutput, OwnFinished, Finished, IsImage

LEMMA OwnRequest == ASSUME OwnInv, DistinctNames, RequestStep, NEW p \in Posts PROVE Own(p)'
<1>0. Own(p)
  BY DEF OwnInv
<1> USE DEF OwnInv, Types, RowTypes, FileTypes, rowVars, fileVars, workerVars, auxVars, IsImage
<1>1. ASSUME NEW q \in Posts, Check(q) \/ Poll(q) \/ BeginRelease(q) \/ Release(q) PROVE Own(p)'
  BY <1>0, <1>1, OwnUnchanged DEF Check, Poll, BeginRelease, Release
<1>2. ASSUME NEW q \in Posts, Insert(q) PROVE Own(p)'
  BY <1>0, <1>2 DEF Insert, Own, OwnStage, OwnSource, OwnOutput, OwnFinished, Finished
<1>3. ASSUME NEW q \in Posts, RemoveFiles(q) PROVE Own(p)'
  <2>1. NameOf[p] \in Names /\ NameOf[q] \in Names /\ (NameOf[p] = NameOf[q] => p = q)
    BY NamesOfPosts DEF DistinctNames
  <2> QED
    BY <1>0, <1>3, <2>1 DEF RemoveFiles, Own, OwnStage, OwnSource, OwnOutput, OwnFinished, Finished,
                            BeforeFinal
<1>4. ASSUME NEW q \in Posts, DeletePost(q) PROVE Own(p)'
  BY <1>0, <1>4 DEF DeletePost, Own, OwnStage, OwnSource, OwnOutput, OwnFinished, Finished
<1> QED
  BY <1>1, <1>2, <1>3, <1>4 DEF RequestStep, Request

LEMMA OwnBatch == ASSUME OwnInv, DistinctNames, BatchStep, NEW p \in Posts PROVE Own(p)'
<1>0. Own(p)
  BY DEF OwnInv
<1> USE DEF OwnInv, Types, RowTypes, FileTypes, rowVars, httpVars, fileVars, Goto, IsImage,
        OwnStage, OwnSource, OwnOutput, OwnFinished, Finished, Own
<1>1. CASE Drain
  BY <1>0, <1>1 DEF Drain
<1>2. CASE Crash
  BY <1>0, <1>2 DEF Crash, BeforeFinal
<1>3. ASSUME NEW q \in Posts, BeginDownload(q) \/ EndDownload(q) PROVE Own(p)'
  <2>1. NameOf[p] \in Names /\ NameOf[q] \in Names /\ (NameOf[p] = NameOf[q] => p = q)
    BY NamesOfPosts DEF DistinctNames
  <2>2. Alone(q)
    BY DEF Alone, DistinctNames
  <2>3. CASE BeginDownload(q)
    BY <1>0, <2>1, <2>3 DEF BeginDownload, BeforeFinal
  <2>4. CASE EndDownload(q)
    BY <1>0, <2>1, <2>2, <2>4 DEF EndDownload, BeforeFinal
  <2> QED
    BY <1>3, <2>3, <2>4
<1>4. ASSUME NEW q \in Posts, DownloadFails(q) PROVE Own(p)'
  BY <1>0, <1>4 DEF DownloadFails, TryDeleteDirty, DeleteDirty, BeforeFinal
<1>5. ASSUME NEW q \in Posts, Take(q) PROVE Own(p)'
  BY <1>0, <1>5 DEF Take, Fetched, BeforeFinal
<1> QED
  BY <1>1, <1>2, <1>3, <1>4, <1>5 DEF BatchStep

LEMMA OwnSteps == ASSUME OwnInv, DistinctNames, OutputStep, NEW p \in Posts PROVE Own(p)'
<1>0. Own(p)
  BY DEF OwnInv
<1> USE DEF OwnInv, Types, RowTypes, FileTypes, rowVars, httpVars, fileVars, Goto, IsImage,
        OwnStage, OwnSource, OwnOutput, OwnFinished, Finished, Own
<1>1. ASSUME NEW q \in Posts, Encode(q) \/ EncodeFails(q) PROVE Own(p)'
  <2>1. NameOf[p] \in Names /\ NameOf[q] \in Names /\ (NameOf[p] = NameOf[q] => p = q)
    BY NamesOfPosts DEF DistinctNames
  <2>2. CASE Encode(q)
    <3>1. p = q => Source(p) = p
      BY <1>0, <2>2, PipelineAssumption DEF Encode, Source, PipelineAssumption
    <3> QED
      BY <1>0, <2>1, <2>2, <3>1 DEF Encode, BeforeFinal
  <2>3. CASE EncodeFails(q)
    BY <1>0, <2>1, <2>3 DEF EncodeFails, BeforeFinal
  <2> QED
    BY <1>1, <2>2, <2>3
<1>2. ASSUME NEW q \in Posts, Compare(q) \/ RemoveOutput(q) PROVE Own(p)'
  <2>1. NameOf[p] \in Names /\ NameOf[q] \in Names /\ (NameOf[p] = NameOf[q] => p = q)
    BY NamesOfPosts DEF DistinctNames
  <2>2. CASE Compare(q)
    BY <1>0, <2>1, <2>2 DEF Compare, BeforeFinal
  <2>3. CASE RemoveOutput(q)
    BY <1>0, <2>1, <2>3 DEF RemoveOutput, BeforeFinal
  <2> QED
    BY <1>2, <2>2, <2>3
<1>3. ASSUME NEW q \in Posts, Reject(q) PROVE Own(p)'
  BY <1>0, <1>3 DEF Reject, TryDeleteDirty, DeleteDirty, BeforeFinal
<1>4. ASSUME NEW q \in Posts, Move(q) PROVE Own(p)'
  <2>1. NameOf[p] \in Names /\ NameOf[q] \in Names /\ (NameOf[p] = NameOf[q] => p = q)
    BY NamesOfPosts DEF DistinctNames
  <2>2. p = q => Source(p) \in {p, "none"}
    BY <1>0, <1>4 DEF Move, Source
  <2> QED
    BY <1>0, <1>4, <2>1, <2>2 DEF Move, BeforeFinal
<1>5. ASSUME NEW q \in Posts, Probe(q) PROVE Own(p)'
  BY <1>0, <1>5 DEF Probe, BeforeFinal
<1> QED
  BY <1>1, <1>2, <1>3, <1>4, <1>5 DEF OutputStep, ImageStep, VideoStep

LEMMA OwnEnd == ASSUME OwnInv, DistinctNames, EndStep, NEW p \in Posts PROVE Own(p)'
<1>0. Own(p)
  BY DEF OwnInv
<1> USE DEF OwnInv, Types, RowTypes, FileTypes, rowVars, httpVars, fileVars, Goto, IsImage,
        OwnStage, OwnSource, OwnOutput, OwnFinished, Finished, Own
<1>1. ASSUME NEW q \in Posts, Finalize(q) PROVE Own(p)'
  BY <1>0, <1>1 DEF Finalize, FinalizePost, BeforeFinal
<1>2. ASSUME NEW q \in Posts, FinalizeFails(q) PROVE Own(p)'
  BY <1>0, <1>2 DEF FinalizeFails, FinalizePost, BeforeFinal
<1>3. ASSUME NEW q \in Posts, Finish(q) PROVE Own(p)'
  <2>1. NameOf[p] \in Names /\ NameOf[q] \in Names /\ (NameOf[p] = NameOf[q] => p = q)
    BY NamesOfPosts DEF DistinctNames
  <2> QED
    BY <1>0, <1>3, <2>1 DEF Finish, TryDeleteDirty, DeleteDirty, BeforeFinal
<1> QED
  BY <1>1, <1>2, <1>3 DEF EndStep

LEMMA OwnInvInit == Init => OwnInv
  BY InitTypes, TypesSplit, OwnInit DEF Init, OwnInv, RowIsMade

LEMMA OwnInvStep == ASSUME OwnInv, DistinctNames, [Next]_vars PROVE OwnInv'
<1>1. Types' /\ RowIsMade'
  BY NextTypes, RowIsMadeStep DEF OwnInv
<1>2. ASSUME NEW p \in Posts PROVE Own(p)'
  <2>1. CASE UNCHANGED vars
    BY <2>1, OwnUnchanged DEF OwnInv, vars, rowVars, httpVars, fileVars, workerVars, auxVars
  <2> QED
    BY <2>1, NextSplit, OwnRequest, OwnBatch, OwnSteps, OwnEnd
<1> QED
  BY <1>1, <1>2 DEF OwnInv

\* queue.rs:582-599, 490-493: if no two posts have one name, a finished post
\* has its own picture in its file, whatever fails or dies and when.
THEOREM OwnFileSafe == ASSUME DistinctNames PROVE Spec => []OwnFile
<1>1. OwnInv => OwnFile
  BY DEF OwnInv, Own, OwnFinished, OwnFile
<1> QED
  BY <1>1, OwnInvInit, OwnInvStep, PTL DEF Spec

-----------------------------------------------------------------------------
(* The pipeline implements the gallery.  With OwnInv a post shows its own   *)
(* picture or none, and what is left of a step is its effect on the rows.   *)

GVars == Gallery!galleryVars
GNext == Gallery!Next

\* ReleasePost checked that the row is clean, and clean it stays.
ReleasingClean == \A p \in releasing : row[p] = "clean"

\* AdminDeletePost removes the file first.
DeletedDoomed == deleted \subseteq Doomed

GalleryInv == OwnInv /\ ReleasingClean /\ DeletedDoomed

LEMMA WorkerLeavesRequests ==
    ASSUME BatchStep \/ OutputStep \/ EndStep
    PROVE  UNCHANGED <<req, releasing, removing, released, deleted>>
<1> USE DEF rowVars, httpVars
<1>1. CASE BatchStep
  BY <1>1 DEF BatchStep, Drain, Crash, BeginDownload, EndDownload, DownloadFails, Take
<1>2. CASE OutputStep
  BY <1>2 DEF OutputStep, ImageStep, VideoStep, Encode, EncodeFails, Compare, RemoveOutput, Reject,
              Move, Probe
<1>3. CASE EndStep
  BY <1>3 DEF EndStep, Finalize, FinalizeFails, Finish
<1> QED
  BY <1>1, <1>2, <1>3

LEMMA ReleasingCleanStep == ASSUME Types, RowIsMade, ReleasingClean, [Next]_vars PROVE ReleasingClean'
<1> USE DEF Types, RowTypes, ReleasingClean, rowVars, httpVars
<1>1. ASSUME NEW p \in releasing' PROVE p \in Posts /\ row[p] = "clean"
  <2>1. CASE UNCHANGED releasing
    BY <1>1, <2>1
  <2>2. CASE RequestStep
    BY <1>1, <2>2 DEF RequestStep, Request, Check, Insert, Poll, BeginRelease, Release, RemoveFiles,
                      DeletePost
  <2> QED
    BY <2>1, <2>2, WorkerLeavesRequests, NextSplit DEF vars
<1> QED
  BY <1>1, CleanStep

LEMMA DeletedDoomedStep == ASSUME Types, DeletedDoomed, [Next]_vars PROVE DeletedDoomed'
<1> USE DEF Types, RowTypes, DeletedDoomed, Doomed, rowVars, httpVars
<1>1. CASE UNCHANGED <<deleted, removing>>
  BY <1>1
<1>2. CASE RequestStep
  BY <1>2 DEF RequestStep, Request, Check, Insert, Poll, BeginRelease, Release, RemoveFiles, DeletePost
<1> QED
  BY <1>1, <1>2, WorkerLeavesRequests, NextSplit DEF vars

LEMMA GalleryInvInit == Init => GalleryInv
  BY OwnInvInit DEF Init, GalleryInv, ReleasingClean, DeletedDoomed

LEMMA GalleryInvStep == ASSUME GalleryInv, DistinctNames, [Next]_vars PROVE GalleryInv'
  BY OwnInvStep, ReleasingCleanStep, DeletedDoomedStep DEF GalleryInv, OwnInv

\* What a post shows is its own picture, so the files can be left out.
Shown == [p \in Posts |-> IF Finished(p) THEN p ELSE "none"]

LEMMA ShowsOwn == ASSUME OwnInv PROVE Shows = Shown
  BY DEF OwnInv, Own, OwnFinished, Shows, Shown

LEMMA ShowsOwnNext == ASSUME OwnInv' PROVE Shows' = Shown'
<1>1. \A p \in Posts : OwnFinished(p)'
  BY DEF OwnInv, Own
<1> QED
  BY <1>1 DEF OwnFinished, Shows, Shown, IsImage

LEMMA ShownSame ==
    ASSUME OwnInv, OwnInv', \A p \in Posts : Finished(p)' = Finished(p)
    PROVE  Shows' = Shows
<1>1. Shown' = Shown
  BY DEF Shown
<1> QED
  BY <1>1, ShowsOwn, ShowsOwnNext

LEMMA LivesChange ==
    ASSUME NEW p \in Posts, NEW l, LifeOf(p)' = l, \A q \in Posts \ {p} : LifeOf(q)' = LifeOf(q)
    PROVE  Lives' = [Lives EXCEPT ![p] = l]
  BY DEF Lives

\* What the gallery does not see.
LEMMA GallerySame ==
    ASSUME OwnInv, OwnInv', UNCHANGED <<row, released, deleted>>,
           \A p \in Posts : /\ (req[p] = "made") = (req'[p] = "made")
                            /\ (removing[p] = "no") = (removing'[p] = "no")
    PROVE  UNCHANGED GVars
<1>1. Shows' = Shows
  BY ShownSame DEF Finished
<1>2. Lives' = Lives
  BY DEF Lives, LifeOf
<1>3. Doomed' = Doomed
  BY DEF Doomed
<1> QED
  BY <1>1, <1>2, <1>3 DEF GVars, Gallery!galleryVars

\* A row that is dirty is deleted, or none is.
LEMMA DropRefines ==
    ASSUME OwnInv, OwnInv', NEW p \in Posts, TryDeleteDirty(p),
           UNCHANGED <<req, released, deleted, removing>>
    PROVE  [GNext]_GVars
<1> USE DEF OwnInv, Types, RowTypes
<1>1. CASE row[p] = "dirty" /\ DeleteDirty(p)
  <2>1. Shows' = Shows
    BY <1>1, ShownSame DEF DeleteDirty, Finished
  <2>2. LifeOf(p)' = "dropped" /\ \A q \in Posts \ {p} : LifeOf(q)' = LifeOf(q)
    BY <1>1 DEF DeleteDirty, LifeOf, RowIsMade
  <2>3. Lives[p] = "queued"
    BY <1>1 DEF LifeOf, Lives
  <2>4. Doomed' = Doomed
    BY DEF Doomed
  <2>5. Gallery!Drop(p)
    BY <2>1, <2>2, <2>3, <2>4, LivesChange DEF Gallery!Drop, Gallery!Moves
  <2> QED
    BY <2>5 DEF GNext, Gallery!Next
<1>2. CASE ~(row[p] = "dirty" /\ DeleteDirty(p))
  <2>1. UNCHANGED row
    BY <1>2 DEF TryDeleteDirty, DeleteDirty
  <2> QED
    BY <2>1, GallerySame
<1> QED
  BY <1>1, <1>2

LEMMA FinishRefines ==
    ASSUME OwnInv, OwnInv', NEW p \in Posts, FinalizePost(p),
           UNCHANGED <<req, released, deleted, removing>>, DeletedDoomed
    PROVE  [GNext]_GVars
<1> USE DEF OwnInv, Types, RowTypes, DeletedDoomed
<1>1. CASE row[p] = "dirty"
  <2>1. row' = [row EXCEPT ![p] = "clean"]
    BY <1>1 DEF FinalizePost
  <2>2. LifeOf(p)' = "finished" /\ \A q \in Posts \ {p} : LifeOf(q)' = LifeOf(q)
    BY <2>1 DEF LifeOf
  <2>3. Lives[p] = "queued"
    BY <1>1 DEF LifeOf, Lives
  <2>4. Doomed' = Doomed
    BY DEF Doomed
  <2>5. Shows' = IF p \in Doomed THEN Shows ELSE [Shows EXCEPT ![p] = p]
    <3>1. CASE p \in Doomed
      BY <1>1, <2>1, <3>1, ShownSame DEF Doomed, Finished
    <3>2. CASE p \notin Doomed
      <4>1. Finished(p)' /\ \A q \in Posts \ {p} : Finished(q)' = Finished(q)
        BY <1>1, <2>1, <3>2 DEF Doomed, Finished
      <4>2. Shown' = [Shown EXCEPT ![p] = p]
        BY <4>1 DEF Shown
      <4> QED
        BY <3>2, <4>2, ShowsOwn, ShowsOwnNext
    <3> QED
      BY <3>1, <3>2
  <2>6. Gallery!Finish(p)
    BY <2>2, <2>3, <2>4, <2>5, LivesChange DEF Gallery!Finish, Gallery!Moves
  <2> QED
    BY <2>6 DEF GNext, Gallery!Next
<1>2. CASE row[p] # "dirty"
  <2>1. UNCHANGED row
    BY <1>2 DEF FinalizePost
  <2> QED
    BY <2>1, GallerySame
<1> QED
  BY <1>1, <1>2

LEMMA RequestRefines == ASSUME GalleryInv, OwnInv', RequestStep PROVE [GNext]_GVars
<1> USE DEF GalleryInv, OwnInv, Types, RowTypes
<1>1. ASSUME NEW p \in Posts, Check(p) PROVE [GNext]_GVars
  BY <1>1, GallerySame DEF Check, rowVars
<1>2. ASSUME NEW p \in Posts, Poll(p) \/ BeginRelease(p) PROVE [GNext]_GVars
  BY <1>2, GallerySame DEF Poll, BeginRelease, rowVars
<1>3. ASSUME NEW p \in Posts, Insert(p) PROVE [GNext]_GVars
  <2>1. row[p] = "none" /\ req[p] # "made"
    BY <1>3 DEF Insert, RowIsMade
  <2>2. Shows' = Shows
    BY <1>3, <2>1, ShownSame DEF Insert, Finished
  <2>3. LifeOf(p)' = "queued" /\ \A q \in Posts \ {p} : LifeOf(q)' = LifeOf(q)
    BY <1>3 DEF Insert, LifeOf
  <2>4. Lives[p] = "absent"
    BY <2>1 DEF LifeOf, Lives
  <2>5. Doomed' = Doomed
    BY <1>3 DEF Insert, Doomed
  <2>6. Gallery!Queue(p)
    BY <1>3, <2>2, <2>3, <2>4, <2>5, LivesChange DEF Insert, Gallery!Queue, Gallery!Moves
  <2> QED
    BY <2>6 DEF GNext, Gallery!Next
<1>4. ASSUME NEW p \in Posts, Release(p) PROVE [GNext]_GVars
  <2>1. Lives[p] = "finished"
    BY <1>4 DEF Release, ReleasingClean, LifeOf, Lives
  <2>2. Shows' = Shows
    BY <1>4, ShownSame DEF Release, Finished
  <2>3. Lives' = Lives /\ Doomed' = Doomed
    BY <1>4 DEF Release, Lives, LifeOf, Doomed
  <2>4. Gallery!Release(p)
    BY <1>4, <2>1, <2>2, <2>3 DEF Release, Gallery!Release
  <2> QED
    BY <2>4 DEF GNext, Gallery!Next
<1>5. ASSUME NEW p \in Posts, RemoveFiles(p) PROVE [GNext]_GVars
  <2>1. Lives[p] \in {"queued", "finished"} /\ p \notin Doomed
    BY <1>5 DEF RemoveFiles, Live, LifeOf, Lives, Doomed
  <2>2. Shows' = [Shows EXCEPT ![p] = "none"]
    <3>1. ~Finished(p)' /\ \A q \in Posts \ {p} : Finished(q)' = Finished(q)
      BY <1>5 DEF RemoveFiles, Finished, rowVars
    <3>2. Shown' = [Shown EXCEPT ![p] = "none"]
      BY <3>1 DEF Shown
    <3> QED
      BY <3>2, ShowsOwn, ShowsOwnNext
  <2>3. Lives' = Lives
    BY <1>5 DEF RemoveFiles, Lives, LifeOf, rowVars
  <2>4. Doomed' = Doomed \cup {p}
    BY <1>5 DEF RemoveFiles, Doomed
  <2>5. Gallery!BeginDelete(p)
    BY <1>5, <2>1, <2>2, <2>3, <2>4 DEF RemoveFiles, Gallery!BeginDelete, rowVars
  <2> QED
    BY <2>5 DEF GNext, Gallery!Next
<1>6. ASSUME NEW p \in Posts, DeletePost(p) PROVE [GNext]_GVars
  <2>1. \A q \in Posts : (removing[q] = "no") = (removing'[q] = "no")
    BY <1>6 DEF DeletePost
  <2>2. CASE deleted' = deleted
    BY <1>6, <2>1, <2>2, GallerySame DEF DeletePost
  <2>3. CASE deleted' # deleted
    <3>1. p \notin deleted /\ row[p] # "none" /\ deleted' = deleted \cup {p}
      BY <1>6, <2>3 DEF DeletePost
    <3>2. Lives[p] \in {"queued", "finished"} /\ p \in Doomed
      BY <1>6, <3>1 DEF DeletePost, Lives, LifeOf, Doomed
    <3>3. Lives' = Lives /\ Doomed' = Doomed
      BY <1>6, <2>1 DEF DeletePost, Lives, LifeOf, Doomed
    <3>4. Shows' = Shows
      BY <1>6, <2>1, <3>1, ShownSame DEF DeletePost, Finished
    <3>5. Gallery!Delete(p)
      BY <1>6, <3>1, <3>2, <3>3, <3>4 DEF DeletePost, Gallery!Delete
    <3> QED
      BY <3>5 DEF GNext, Gallery!Next
  <2> QED
    BY <2>2, <2>3
<1> QED
  BY <1>1, <1>2, <1>3, <1>4, <1>5, <1>6 DEF RequestStep, Request

LEMMA BatchRefines == ASSUME OwnInv, OwnInv', BatchStep PROVE [GNext]_GVars
<1> USE DEF rowVars, httpVars
<1>1. CASE UNCHANGED rowVars /\ UNCHANGED httpVars
  BY <1>1, GallerySame
<1>2. CASE Drain \/ Crash
  BY <1>1, <1>2 DEF Drain, Crash
<1>3. ASSUME NEW p \in Posts, BeginDownload(p) \/ EndDownload(p) \/ Take(p) PROVE [GNext]_GVars
  BY <1>1, <1>3 DEF BeginDownload, EndDownload, Take
<1>4. ASSUME NEW p \in Posts, DownloadFails(p) PROVE [GNext]_GVars
  BY <1>4, DropRefines DEF DownloadFails
<1> QED
  BY <1>2, <1>3, <1>4 DEF BatchStep

LEMMA OutputRefines == ASSUME OwnInv, OwnInv', OutputStep PROVE [GNext]_GVars
<1> USE DEF rowVars, httpVars
<1>1. ASSUME NEW p \in Posts, Reject(p) PROVE [GNext]_GVars
  BY <1>1, DropRefines DEF Reject
<1>2. ASSUME NEW p \in Posts, ~Reject(p), ImageStep(p) \/ VideoStep(p) PROVE [GNext]_GVars
  <2>1. UNCHANGED rowVars /\ UNCHANGED httpVars
    BY <1>2 DEF ImageStep, VideoStep, Encode, EncodeFails, Compare, RemoveOutput, Move, Probe
  <2> QED
    BY <2>1, GallerySame
<1> QED
  BY <1>1, <1>2 DEF OutputStep

LEMMA EndRefines == ASSUME OwnInv, OwnInv', DeletedDoomed, EndStep PROVE [GNext]_GVars
<1> USE DEF httpVars
<1>1. ASSUME NEW p \in Posts, Finalize(p) PROVE [GNext]_GVars
  BY <1>1, FinishRefines DEF Finalize
<1>2. ASSUME NEW p \in Posts, FinalizeFails(p) PROVE [GNext]_GVars
  BY <1>2, FinishRefines, GallerySame DEF FinalizeFails
<1>3. ASSUME NEW p \in Posts, Finish(p) PROVE [GNext]_GVars
  BY <1>3, DropRefines, GallerySame DEF Finish
<1> QED
  BY <1>1, <1>2, <1>3 DEF EndStep

LEMMA GalleryStep == ASSUME GalleryInv, DistinctNames, [Next]_vars PROVE [GNext]_GVars
<1>1. OwnInv /\ OwnInv' /\ DeletedDoomed
  BY OwnInvStep DEF GalleryInv
<1>2. CASE UNCHANGED vars
  BY <1>1, <1>2, GallerySame DEF vars, rowVars, httpVars
<1> QED
  BY <1>1, <1>2, NextSplit, RequestRefines, BatchRefines, OutputRefines, EndRefines

LEMMA GalleryInit == Init => Gallery!Init
<1> SUFFICES ASSUME Init PROVE Gallery!Init
  OBVIOUS
<1>1. \A p \in Posts : LifeOf(p) = "absent" /\ ~Finished(p) /\ removing[p] = "no"
  BY DEF Init, LifeOf, Finished
<1>2. Lives = [p \in Posts |-> "absent"] /\ Doomed = {} /\ Shows = [p \in Posts |-> "none"]
  BY <1>1 DEF Lives, Doomed, Shows
<1> QED
  BY <1>2 DEF Gallery!Init, Init

\* queue.rs:490-493, 582-599, post.go:409-482, admin.go:182-198: if no two
\* posts have one name, the pipeline implements the gallery, whatever fails or
\* dies and when: a post is queued, finished or dropped, and released once and
\* in this order, and shows its own picture from its end to its deletion.
THEOREM PipelineImplementsGallery == ASSUME DistinctNames PROVE Spec => ImplementsGallery
<1>1. GalleryInv /\ [Next]_vars => GalleryInv' /\ [GNext]_GVars
  BY GalleryInvStep, GalleryStep
<1> QED
  BY <1>1, GalleryInvInit, GalleryInit, PTL
     DEF Spec, ImplementsGallery, Gallery!Spec, GNext, GVars

-----------------------------------------------------------------------------
(* Two similar images are both finished only side by side: what becomes     *)
(* clean between Compare and Finalize of a post had passed its own Compare, *)
(* and the later of the two saw the other wait.                             *)

\* The hash of a finalized image is that of its own picture, also when the post
\* is about to be deleted.
HashOwn == \A p \in Posts : row[p] = "clean" /\ IsImage(p) => hash[p] = p

\* What a step can do to a row and its hash.
LEMMA RowStep ==
    ASSUME Types, [Next]_vars, NEW p \in Posts
    PROVE  \/ (row'[p] = "clean" => row[p] = "clean") /\ hash'[p] = hash[p]
           \/ /\ at[p] = "finalize"
              /\ hash'[p] = IF IsImage(p) THEN got[p] ELSE "none"
<1> DEFINE Kept == (row'[p] = "clean" => row[p] = "clean") /\ hash'[p] = hash[p]
           Final == at[p] = "finalize" /\ hash'[p] = IF IsImage(p) THEN got[p] ELSE "none"
<1> USE DEF Types, RowTypes, rowVars
<1>1. CASE UNCHANGED vars
  BY <1>1 DEF vars
<1>2. CASE RequestStep
  BY <1>2 DEF RequestStep, Request, Check, Insert, Poll, BeginRelease, Release, RemoveFiles, DeletePost
<1>3. ASSUME NEW q \in Posts, TryDeleteDirty(q), UNCHANGED hash PROVE Kept
  BY <1>3 DEF TryDeleteDirty, DeleteDirty
<1>4. CASE BatchStep
  <2>1. UNCHANGED hash /\ (UNCHANGED row \/ \E q \in Posts : TryDeleteDirty(q))
    BY <1>4 DEF BatchStep, Drain, Crash, BeginDownload, EndDownload, DownloadFails, Take
  <2> QED
    BY <1>3, <2>1
<1>5. CASE OutputStep
  <2>1. UNCHANGED hash /\ (UNCHANGED row \/ \E q \in Posts : TryDeleteDirty(q))
    BY <1>5 DEF OutputStep, ImageStep, VideoStep, Encode, EncodeFails, Compare, RemoveOutput, Reject,
                Move, Probe
  <2> QED
    BY <1>3, <2>1
<1>6. CASE EndStep
  <2>1. \/ UNCHANGED hash /\ (UNCHANGED row \/ \E q \in Posts : TryDeleteDirty(q))
        \/ \E q \in Posts : at[q] = "finalize" /\ FinalizePost(q)
    BY <1>6 DEF EndStep, Finalize, FinalizeFails, Finish
  <2>2. ASSUME NEW q \in Posts, at[q] = "finalize", FinalizePost(q) PROVE Kept \/ Final
    BY <2>2 DEF FinalizePost
  <2> QED
    BY <1>3, <2>1, <2>2
<1> QED
  BY <1>1, <1>2, <1>4, <1>5, <1>6, NextSplit

LEMMA HashOwnStep == ASSUME OwnInv, HashOwn, [Next]_vars PROVE HashOwn'
<1> SUFFICES ASSUME NEW p \in Posts, row'[p] = "clean", IsImage(p) PROVE hash'[p] = p
  BY DEF HashOwn, IsImage
<1>1. at[p] = "finalize" => got[p] = p
  BY DEF OwnInv, Own, OwnOutput
<1> QED
  BY <1>1, RowStep DEF OwnInv, HashOwn

\* A deletion is not taken back.
LEMMA RemovalStep ==
    ASSUME Types, [Next]_vars, NEW p \in Posts
    PROVE  /\ p \notin deleted' => p \notin deleted
           /\ removing'[p] = "no" => removing[p] = "no"
<1> USE DEF Types, RowTypes, rowVars, httpVars
<1>1. CASE UNCHANGED vars
  BY <1>1 DEF vars
<1>2. CASE RequestStep
  BY <1>2 DEF RequestStep, Request, Check, Insert, Poll, BeginRelease, Release, RemoveFiles, DeletePost
<1>3. CASE BatchStep
  BY <1>3 DEF BatchStep, Drain, Crash, BeginDownload, EndDownload, DownloadFails, Take
<1>4. CASE OutputStep
  BY <1>4 DEF OutputStep, ImageStep, VideoStep, Encode, EncodeFails, Compare, RemoveOutput, Reject,
              Move, Probe
<1>5. CASE EndStep
  BY <1>5 DEF EndStep, Finalize, FinalizeFails, Finish
<1> QED
  BY <1>1, <1>2, <1>3, <1>4, <1>5, NextSplit

\* How an image comes to its finalization, and stays there.
LEMMA FinalizeFrom ==
    ASSUME Types, [Next]_vars, NEW p \in Posts, at'[p] = "finalize"
    PROVE  \/ at[p] = "finalize" /\ got'[p] = got[p]
           \/ at[p] = "compare" /\ Duplicates(p) = {} /\ UNCHANGED <<row, hash, deleted, got>>
           \/ at[p] = "probe"
<1> USE DEF Types, FileTypes, rowVars, workerVars, Goto
<1>1. CASE UNCHANGED vars
  BY <1>1 DEF vars
<1>2. CASE RequestStep
  BY <1>2 DEF RequestStep, Request, Check, Insert, Poll, BeginRelease, Release, RemoveFiles, DeletePost
<1>3. CASE BatchStep
  BY <1>3 DEF BatchStep, Drain, Crash, BeginDownload, EndDownload, DownloadFails, Take
<1>4. CASE OutputStep
  <2>1. ASSUME NEW q \in Posts,
               Encode(q) \/ EncodeFails(q) \/ RemoveOutput(q) \/ Reject(q) \/ VideoStep(q)
        PROVE  (at[p] = "finalize" /\ got'[p] = got[p]) \/ at[p] = "probe"
    BY <2>1 DEF Encode, EncodeFails, RemoveOutput, Reject, VideoStep, Move, Probe
  <2>2. ASSUME NEW q \in Posts, Compare(q)
        PROVE  \/ at[p] = "finalize" /\ got'[p] = got[p]
               \/ at[p] = "compare" /\ Duplicates(p) = {} /\ UNCHANGED <<row, hash, deleted, got>>
    BY <2>2 DEF Compare
  <2> QED
    BY <1>4, <2>1, <2>2 DEF OutputStep, ImageStep
<1>5. CASE EndStep
  BY <1>5 DEF EndStep, Finalize, FinalizeFails, Finish
<1> QED
  BY <1>1, <1>2, <1>3, <1>4, <1>5, NextSplit

\* An observation is made by a comparison only.
LEMMA BesideKept ==
    ASSUME Types, [Next]_vars, NEW p \in Posts, at[p] # "compare"
    PROVE  beside'[p] = beside[p]
<1> USE DEF Types, FileTypes, workerVars, auxVars
<1>1. CASE UNCHANGED vars
  BY <1>1 DEF vars
<1>2. CASE RequestStep
  BY <1>2 DEF RequestStep, Request, Check, Insert, Poll, BeginRelease, Release, RemoveFiles, DeletePost
<1>3. CASE BatchStep
  BY <1>3 DEF BatchStep, Drain, Crash, BeginDownload, EndDownload, DownloadFails, Take
<1>4. CASE OutputStep
  BY <1>4 DEF OutputStep, ImageStep, VideoStep, Encode, EncodeFails, Compare, RemoveOutput, Reject,
              Move, Probe
<1>5. CASE EndStep
  BY <1>5 DEF EndStep, Finalize, FinalizeFails, Finish
<1> QED
  BY <1>1, <1>2, <1>3, <1>4, <1>5, NextSplit

\* One of two posts was compared while the other waited to be finalized.
SideBySide(p, q) == q \in beside[p] \/ p \in beside[q]

\* Two images wait to be finalized only side by side.
WaitingBeside ==
    \A p, q \in Posts :
        p # q /\ at[p] = "finalize" /\ at[q] = "finalize" /\ IsImage(p) /\ IsImage(q) => SideBySide(p, q)

\* What became similar to an image after its comparison was side by side with it.
LateBeside ==
    \A p, q \in Posts :
        at[p] = "finalize" /\ IsImage(p) /\ IsImage(q) /\ q \in Duplicates(p) => SideBySide(p, q)

\* An image that comes to its finalization sees every other that waits there.
LEMMA WaitingBesideStep ==
    ASSUME OwnInv, WaitingBeside, [Next]_vars
    PROVE  WaitingBeside'
<1> USE DEF OwnInv, Types, FileTypes
<1>1. ASSUME NEW p \in Posts, at'[p] = "finalize", at[p] # "finalize", IsImage(p)
      PROVE  Compare(p)
  <2>1. at[p] = "compare"
    BY <1>1, FinalizeFrom DEF Own, OwnStage
  <2>2. CASE RequestStep \/ UNCHANGED vars
    BY <1>1, <2>2 DEF RequestStep, Request, Check, Insert, Poll, BeginRelease, Release, RemoveFiles,
                      DeletePost, vars, workerVars
  <2>3. CASE BatchStep
    BY <1>1, <2>1, <2>3 DEF BatchStep, Drain, Crash, BeginDownload, EndDownload, DownloadFails, Take, Goto
  <2>4. CASE OutputStep
    BY <1>1, <2>1, <2>4 DEF OutputStep, ImageStep, VideoStep, Encode, EncodeFails, RemoveOutput, Reject,
                            Compare, Move, Probe, Goto
  <2>5. CASE EndStep
    BY <1>1, <2>1, <2>5 DEF EndStep, Finalize, FinalizeFails, Finish, Goto
  <2> QED
    BY <2>2, <2>3, <2>4, <2>5, NextSplit
<1>2. ASSUME NEW p \in Posts, NEW q \in Posts, p # q, Compare(p), at'[q] = "finalize", IsImage(q)
      PROVE  q \in beside'[p]
  BY <1>2 DEF Compare, Goto
<1> SUFFICES ASSUME NEW p \in Posts, NEW q \in Posts, p # q, at'[p] = "finalize",
                    at'[q] = "finalize", IsImage(p), IsImage(q)
             PROVE  SideBySide(p, q)'
  BY DEF WaitingBeside, IsImage
<1>3. CASE at[p] = "finalize" /\ at[q] = "finalize"
  BY <1>3, BesideKept DEF WaitingBeside, SideBySide
<1> QED
  BY <1>1, <1>2, <1>3 DEF SideBySide

LEMMA LateBesideStep ==
    ASSUME OwnInv, WaitingBeside, LateBeside, [Next]_vars
    PROVE  LateBeside'
<1> SUFFICES ASSUME NEW p \in Posts, NEW q \in Posts, at'[p] = "finalize", IsImage(p), IsImage(q),
                    q \in Duplicates(p)'
             PROVE  SideBySide(p, q)'
  BY DEF LateBeside, IsImage
<1>1. Types /\ at[p] # "probe"
  BY DEF OwnInv, Own, OwnStage
<1>2. CASE at[p] = "compare" /\ Duplicates(p) = {} /\ UNCHANGED <<row, hash, deleted, got>>
  BY <1>2 DEF Duplicates
<1>3. CASE at[p] = "finalize" /\ got'[p] = got[p]
  <2>1. CASE at[q] = "finalize"
    <3>1. q # p
      BY DEF Duplicates
    <3> QED
      BY <1>1, <1>3, <2>1, <3>1, BesideKept DEF WaitingBeside, SideBySide
  <2>2. CASE at[q] # "finalize"
    <3>1. /\ row'[q] = "clean" => row[q] = "clean"
          /\ hash'[q] = hash[q]
          /\ q \notin deleted' => q \notin deleted
      BY <1>1, <2>2, RowStep, RemovalStep
    <3>2. q \in Duplicates(p) /\ row[q] = "clean"
      BY <1>3, <3>1 DEF Duplicates
    <3>3. at[q] # "compare"
      BY <3>2 DEF OwnInv, Own, OwnStage, BeforeFinal
    <3> QED
      BY <1>1, <1>3, <3>2, <3>3, BesideKept DEF LateBeside, SideBySide
  <2> QED
    BY <2>1, <2>2
<1> QED
  BY <1>1, <1>2, <1>3, FinalizeFrom

SimilarBothWays == \A p, q \in Posts : <<p, q>> \in Similar => <<q, p>> \in Similar

LEMMA TwinsStep ==
    ASSUME OwnInv, HashOwn, WaitingBeside, LateBeside, SimilarBothWays, TwinsOnlySideBySide,
           [Next]_vars
    PROVE  TwinsOnlySideBySide'
<1>0. Types
  BY DEF OwnInv
<1>1. ASSUME NEW p \in Posts, Finished(p)', at[p] # "finalize"
      PROVE  Finished(p) /\ at[p] # "compare"
  <2>1. Finished(p)
    BY <1>0, <1>1, RowStep, RemovalStep DEF Finished
  <2> QED
    BY <2>1 DEF OwnInv, Own, OwnStage, BeforeFinal, Finished
<1>2. ASSUME NEW p \in Posts, NEW q \in Posts, p # q, IsImage(p), IsImage(q), <<p, q>> \in Similar,
             at[p] = "finalize", Finished(q)'
      PROVE  SideBySide(p, q)
  <2>1. CASE at[q] = "finalize"
    BY <1>2, <2>1 DEF WaitingBeside
  <2>2. CASE at[q] # "finalize"
    <3>1. row[q] = "clean" /\ q \notin deleted /\ hash[q] = q
      BY <1>1, <1>2, <2>2 DEF HashOwn, Finished
    <3>2. got[p] = p
      BY <1>2 DEF OwnInv, Own, OwnOutput
    <3>3. q \in Duplicates(p)
      BY <1>2, <3>1, <3>2 DEF Duplicates
    <3> QED
      BY <1>2, <3>3 DEF LateBeside
  <2> QED
    BY <2>1, <2>2
<1> SUFFICES ASSUME NEW p \in Posts, NEW q \in Posts, Twins(p, q)'
             PROVE  SideBySide(p, q)'
  BY DEF TwinsOnlySideBySide, SideBySide
<1>3. p # q /\ <<p, q>> \in Similar /\ Finished(p)' /\ Finished(q)' /\ IsImage(p) /\ IsImage(q)
  BY DEF Twins, IsImage
<1>4. SideBySide(p, q)
  <2>1. CASE at[p] = "finalize"
    BY <1>2, <1>3, <2>1
  <2>2. CASE at[q] = "finalize"
    <3>1. <<q, p>> \in Similar
      BY <1>3 DEF SimilarBothWays
    <3>2. SideBySide(q, p)
      BY <1>2, <1>3, <2>2, <3>1
    <3> QED
      BY <3>2 DEF SideBySide
  <2>3. CASE at[p] # "finalize" /\ at[q] # "finalize"
    BY <1>1, <1>3, <2>3 DEF TwinsOnlySideBySide, Twins, SideBySide
  <2> QED
    BY <2>1, <2>2, <2>3
<1>5. beside'[p] = beside[p] /\ beside'[q] = beside[q]
  BY <1>0, <1>1, <1>3, BesideKept
<1> QED
  BY <1>4, <1>5 DEF SideBySide

\* queue.rs:506, 536-600: however many posts are processed at a time, whatever
\* fails or dies, and also when the answer to a finalization is lost, two
\* similar images are both finished only if one of them was compared while the
\* other had passed its comparison and waited to be finalized.
THEOREM TwinsOnlySideBySideSafe ==
    ASSUME DistinctNames, SimilarBothWays
    PROVE  Spec => []TwinsOnlySideBySide
<1> DEFINE Inv == OwnInv /\ HashOwn /\ WaitingBeside /\ LateBeside /\ TwinsOnlySideBySide
<1>1. Init => Inv
  BY OwnInvInit DEF Init, HashOwn, WaitingBeside, LateBeside, TwinsOnlySideBySide, Twins, Finished
<1>2. Inv /\ [Next]_vars => Inv'
  BY OwnInvStep, HashOwnStep, WaitingBesideStep, LateBesideStep, TwinsStep
<1> QED
  BY <1>1, <1>2, PTL DEF Spec

-----------------------------------------------------------------------------
(* A post that a crash interrupted is not given up. *)

AllImages == \A p \in Posts : IsImage(p)
HasTwin(p) == \E q \in Posts \ {p} : row[q] = "clean" /\ <<p, q>> \in Similar
GivenUp == {"duplicate", "reject", "failed"}

\* An uploaded image stays where it was put.
UploadsKept == \A p \in Uploads : row[p] # "none" \/ at[p] # "none" => p \in upload
TwinKnown == \A p \in Posts : at[p] \in GivenUp => HasTwin(p)
OnlyNoticesFail == faults \subseteq {"redis"}
DropInv == OwnInv /\ HashOwn /\ UploadsKept /\ TwinKnown /\ OnlyNoticesFail

LEMMA UploadsKeptStep ==
    ASSUME OwnInv, AllImages, UploadsKept, [Next]_vars
    PROVE  UploadsKept'
<1> USE DEF OwnInv, Types, RowTypes, FileTypes, rowVars, fileVars, workerVars, UploadsKept, Goto
<1>0. Uploads \subseteq Posts
  BY PipelineAssumption DEF PipelineAssumption
<1>1. CASE UNCHANGED vars
  BY <1>1 DEF vars
<1>2. CASE RequestStep
  BY <1>0, <1>2 DEF RequestStep, Request, Check, Insert, Poll, BeginRelease, Release, RemoveFiles,
                    DeletePost
<1>3. ASSUME NEW q \in Posts, TryDeleteDirty(q)
      PROVE  \A p \in Posts : row'[p] # "none" => row[p] # "none"
  BY <1>3 DEF TryDeleteDirty, DeleteDirty
<1>4. CASE BatchStep
  <2>1. CASE Drain
    BY <1>0, <2>1 DEF Drain
  <2>2. CASE Crash
    BY <1>0, <2>2 DEF Crash
  <2>3. ASSUME NEW q \in Posts, DownloadFails(q) PROVE UploadsKept'
    BY <1>0, <1>3, <2>3 DEF DownloadFails
  <2>4. ASSUME NEW q \in Posts, BeginDownload(q) \/ EndDownload(q) \/ Take(q) PROVE UploadsKept'
    BY <1>0, <2>4 DEF BeginDownload, EndDownload, Take, Fetched
  <2> QED
    BY <1>4, <2>1, <2>2, <2>3, <2>4 DEF BatchStep
<1>5. CASE OutputStep
  <2>1. ASSUME NEW q \in Posts, Encode(q) \/ EncodeFails(q) \/ Compare(q) \/ RemoveOutput(q)
        PROVE  UploadsKept'
    BY <1>0, <2>1 DEF Encode, EncodeFails, Compare, RemoveOutput
  <2>2. ASSUME NEW q \in Posts, Reject(q) PROVE UploadsKept'
    BY <1>0, <1>3, <2>2 DEF Reject
  <2>3. ASSUME NEW q \in Posts, VideoStep(q) PROVE FALSE
    BY <2>3 DEF VideoStep, Move, Probe, AllImages, Own, OwnStage
  <2> QED
    BY <1>5, <2>1, <2>2, <2>3 DEF OutputStep, ImageStep
<1>6. CASE EndStep
  <2>1. ASSUME NEW q \in Posts, Finalize(q) \/ FinalizeFails(q) PROVE UploadsKept'
    BY <1>0, <2>1 DEF Finalize, FinalizeFails, FinalizePost
  <2>2. ASSUME NEW q \in Posts, Finish(q) PROVE UploadsKept'
    BY <1>0, <1>3, <2>2 DEF Finish
  <2> QED
    BY <1>6, <2>1, <2>2 DEF EndStep
<1> QED
  BY <1>1, <1>2, <1>4, <1>5, <1>6, NextSplit

\* Only a comparison that found something gives a post up.
LEMMA GivenUpFrom ==
    ASSUME DropInv, AllImages, [Next]_vars, NEW p \in Posts, at'[p] \in GivenUp
    PROVE  at[p] \in GivenUp \/ (at[p] = "compare" /\ Duplicates(p) # {})
<1> USE DEF DropInv, OwnInv, Types, FileTypes, workerVars, Goto, GivenUp
<1>1. CASE UNCHANGED vars
  BY <1>1 DEF vars
<1>2. CASE RequestStep
  BY <1>2 DEF RequestStep, Request, Check, Insert, Poll, BeginRelease, Release, RemoveFiles, DeletePost
<1>3. CASE BatchStep
  BY <1>3 DEF BatchStep, Drain, Crash, BeginDownload, EndDownload, DownloadFails, Take, AllImages,
              OnlyNoticesFail
<1>4. CASE OutputStep
  <2>1. ASSUME NEW q \in Posts, EncodeFails(q) PROVE FALSE
    <3>1. "item" \notin faults
      BY DEF OnlyNoticesFail
    <3>2. q \in Uploads => Source(q) = q
      BY <2>1 DEF EncodeFails, UploadsKept, Source
    <3>3. q \notin Uploads => Source(q) = q
      BY <2>1 DEF EncodeFails, Own, OwnSource, Source
    <3> QED
      BY <2>1, <3>1, <3>2, <3>3 DEF EncodeFails
  <2>2. ASSUME NEW q \in Posts, Encode(q) \/ RemoveOutput(q) \/ Reject(q)
        PROVE  at[p] \in GivenUp
    BY <2>2 DEF Encode, RemoveOutput, Reject
  <2>3. ASSUME NEW q \in Posts, Compare(q)
        PROVE  at[p] \in GivenUp \/ (at[p] = "compare" /\ Duplicates(p) # {})
    BY <2>3 DEF Compare, OnlyNoticesFail
  <2>4. ASSUME NEW q \in Posts, VideoStep(q) PROVE FALSE
    BY <2>4 DEF VideoStep, Move, Probe, AllImages, Own, OwnStage
  <2> QED
    BY <1>4, <2>1, <2>2, <2>3, <2>4 DEF OutputStep, ImageStep
<1>5. CASE EndStep
  BY <1>5 DEF EndStep, Finalize, FinalizeFails, Finish, OnlyNoticesFail
<1> QED
  BY <1>1, <1>2, <1>3, <1>4, <1>5, NextSplit

LEMMA TwinKnownStep == ASSUME DropInv, AllImages, [Next]_vars PROVE TwinKnown'
<1> USE DEF DropInv
<1>1. ASSUME NEW p \in Posts, at[p] = "compare", Duplicates(p) # {} PROVE HasTwin(p)
  <2>1. PICK q \in Duplicates(p) : TRUE
    BY <1>1
  <2>2. q \in Posts \ {p} /\ row[q] = "clean"
    BY <2>1 DEF Duplicates
  <2>3. hash[q] = q /\ got[p] = p
    BY <1>1, <2>2 DEF HashOwn, AllImages, OwnInv, Own, OwnOutput
  <2>4. "none" \notin Posts
    BY PipelineAssumption DEF PipelineAssumption
  <2>5. <<p, q>> \in Similar
    BY <2>1, <2>2, <2>3, <2>4 DEF Duplicates
  <2> QED
    BY <2>2, <2>5 DEF HasTwin
<1>2. ASSUME NEW p \in Posts, HasTwin(p) PROVE HasTwin(p)'
  BY <1>2, CleanStep DEF HasTwin, OwnInv
<1> SUFFICES ASSUME NEW p \in Posts, at'[p] \in GivenUp PROVE HasTwin(p)'
  BY DEF TwinKnown
<1> QED
  BY <1>1, <1>2, GivenUpFrom DEF TwinKnown

LEMMA DropStep ==
    ASSUME DropInv, [Next]_vars, NEW p \in Posts, row[p] = "dirty", row'[p] = "none"
    PROVE  at[p] \in GivenUp
<1> USE DEF DropInv, OwnInv, Types, RowTypes, rowVars, GivenUp
<1>1. CASE UNCHANGED vars
  BY <1>1 DEF vars
<1>2. CASE RequestStep
  BY <1>2 DEF RequestStep, Request, Check, Insert, Poll, BeginRelease, Release, RemoveFiles, DeletePost
<1>3. CASE BatchStep
  BY <1>3 DEF BatchStep, Drain, Crash, BeginDownload, EndDownload, DownloadFails, Take, OnlyNoticesFail
<1>4. CASE OutputStep
  BY <1>4 DEF OutputStep, ImageStep, VideoStep, Encode, EncodeFails, Compare, RemoveOutput, Reject,
              Move, Probe, TryDeleteDirty, DeleteDirty
<1>5. CASE EndStep
  BY <1>5 DEF EndStep, Finalize, FinalizeFails, Finish, FinalizePost, TryDeleteDirty, DeleteDirty
<1> QED
  BY <1>1, <1>2, <1>3, <1>4, <1>5, NextSplit

\* queue.rs:155-159: where neither a tool nor Postgres fails, an image is given
\* up only for a finished one that is like it, and never because the worker
\* died, whenever and however often it does, and however many posts are
\* processed at a time.
THEOREM DroppedOnlyAsTwinSafe ==
    ASSUME DistinctNames, AllImages, FaultSets \subseteq SUBSET {"redis"}
    PROVE  Spec => DroppedOnlyAsTwin
<1>1. Init => DropInv
  <2> SUFFICES ASSUME Init PROVE DropInv
    OBVIOUS
  <2>1. HashOwn /\ UploadsKept /\ TwinKnown
    BY PipelineAssumption DEF Init, HashOwn, UploadsKept, TwinKnown, GivenUp, PipelineAssumption
  <2>2. OnlyNoticesFail
    BY DEF Init, OnlyNoticesFail
  <2> QED
    BY <2>1, <2>2, OwnInvInit DEF DropInv
<1>2. DropInv /\ [Next]_vars => DropInv'
  <2> SUFFICES ASSUME DropInv, [Next]_vars PROVE DropInv'
    OBVIOUS
  <2>1. OwnInv' /\ HashOwn' /\ UploadsKept' /\ TwinKnown'
    BY OwnInvStep, HashOwnStep, UploadsKeptStep, TwinKnownStep DEF DropInv
  <2>2. faults' \in FaultSets
    BY <2>1 DEF OwnInv, Types, FileTypes
  <2> QED
    BY <2>1, <2>2 DEF DropInv, OnlyNoticesFail
<1>3. DropInv /\ [Next]_vars =>
        [\A p \in Posts : row[p] = "dirty" /\ row'[p] = "none" =>
            \E q \in Posts \ {p} : row[q] = "clean" /\ <<p, q>> \in Similar]_vars
  BY DropStep DEF DropInv, TwinKnown, HasTwin
<1> QED
  BY <1>1, <1>2, <1>3, PTL DEF Spec, DroppedOnlyAsTwin
=============================================================================
