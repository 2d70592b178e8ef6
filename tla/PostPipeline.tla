---------------------------- MODULE PostPipeline ----------------------------
(***************************************************************************)
(* A post from the request that queues it to its release or removal: the   *)
(* handlers of the backend (src/backend/api/post.go, queue.go, admin.go),  *)
(* the rows they share with the worker, and the worker's pipeline that     *)
(* downloads, encodes, compares and finalizes dirty posts                  *)
(* (src/worker/src/queue.rs, db.rs, processing.rs, download.rs).           *)
(*                                                                         *)
(* Every database statement and every change of a file is a step.  The     *)
(* content of a file is the post whose picture it holds; a picture and its *)
(* thumbnail have the same name in two directories and are one file here.  *)
(***************************************************************************)
EXTENDS Integers, FiniteSets

CONSTANTS Posts,               \* post ids, one request each
          Owner,               \* [Posts -> user name]
          Url,                 \* [Posts -> url]
          Uploads,             \* posts made by UploadPost, the others have a url
          Imported,            \* posts made by the pr0gramm import
          Names,
          NameOf,              \* [Posts -> last part of the url, or upload name]
          Kind,                \* [Names -> what the file extension says]
          Similar,             \* pairs of posts with similar pictures
          Flat,                \* pictures whose hash is close to zero
          Concurrency,         \* posts processed at a time
          DownloadConcurrency, \* downloads at a time
          MaxCrashes,          \* bound: crashes of the worker
          FaultSets            \* choices of the FaultKinds that may happen

FaultKinds ==
    { "item",    \* a download, an encoder or ffmpeg fails
      "db",      \* a statement fails, or its answer is lost
      "redis" }  \* the duplicates are not written to Redis

Content == Posts \cup {"none", "part"}

ASSUME PipelineAssumption ==
    /\ IsFiniteSet(Posts)
    /\ "none" \notin Posts /\ "part" \notin Posts
    /\ Uploads \subseteq Posts
    /\ Imported \subseteq Posts \ Uploads
    /\ NameOf \in [Posts -> Names]
    /\ Kind \in [Names -> {"image", "video", "other"}]
    /\ Similar \subseteq Posts \X Posts
    /\ Flat \subseteq Posts
    /\ Concurrency \in Nat \ {0}
    /\ DownloadConcurrency \in Nat \ {0}
    /\ MaxCrashes \in Nat
    /\ FaultSets \subseteq SUBSET FaultKinds

VARIABLES
    req,      \* [Posts -> where the creating request is]
    row,      \* [Posts -> "none", or whether the row is dirty]
    hash,     \* [Posts -> the picture whose hash the row has, or "none"]
    released, \* rows with released = TRUE
    deleted,  \* rows with deleted_at set
    releasing,\* requests of ReleasePost past their checks
    removing, \* [Posts -> where AdminDeletePost is]
    at,       \* [Posts -> where the worker is with the post]
    got,      \* [Posts -> the picture the worker encoded]
    tmp,      \* [Names -> content of the download directory]
    upload,   \* posts whose uploaded file is there
    image,    \* [Names -> content of the image directory]
    video,    \* [Posts -> content of the file last moved to the video directory]
    dupKey,   \* posts with a Redis key dup:post:{id}
    modal,    \* [Posts -> what the upload dialog shows]
    crashes,  \* crashes so far
    faults,   \* the faults that may happen, chosen once
    beside    \* [Posts -> images waiting to be finalized when it was last compared],
              \* which the code does not keep: for the properties only

rowVars    == <<row, hash, released, deleted>>
httpVars   == <<req, releasing, removing, modal>>
fileVars   == <<tmp, upload, image, video>>
auxVars    == <<crashes, faults, beside>>
workerVars == <<at, got, auxVars>>
vars == <<rowVars, httpVars, fileVars, workerVars, dupKey>>

IsImage(p) == Kind[NameOf[p]] = "image"
Live(p) == row[p] # "none" /\ p \notin deleted

Init ==
    /\ req = [p \in Posts |-> "new"]
    /\ row = [p \in Posts |-> "none"]
    /\ hash = [p \in Posts |-> "none"]
    /\ released = {} /\ deleted = {} /\ releasing = {}
    /\ removing = [p \in Posts |-> "no"]
    /\ at = [p \in Posts |-> "none"]
    /\ got = [p \in Posts |-> "none"]
    /\ tmp = [n \in Names |-> "none"]
    /\ upload = {}
    /\ image = [n \in Names |-> "none"]
    /\ video = [p \in Posts |-> "none"]
    /\ dupKey = {}
    /\ modal = [p \in Posts |-> "closed"]
    /\ crashes = 0
    /\ faults \in FaultSets
    /\ beside = [p \in Posts |-> {}]

-----------------------------------------------------------------------------
(* Requests. *)

\* GetUserDirtyPost for a member, FilterExistingURLs for the import.
Blocked(p) ==
    \E q \in Posts :
        /\ Live(q)
        /\ IF p \in Imported
           THEN Url[q] = Url[p]
           ELSE Owner[q] = Owner[p] /\ (row[q] = "dirty" \/ q \notin released)

Check(p) ==
    /\ req[p] = "new"
    /\ req' = [req EXCEPT ![p] = IF Blocked(p) THEN "refused" ELSE "checked"]
    /\ UNCHANGED <<rowVars, releasing, removing, modal, fileVars, workerVars, dupKey>>

\* CreateDirtyPost; an upload is saved first.  The dialog begins to poll.
Insert(p) ==
    /\ req[p] = "checked"
    /\ req' = [req EXCEPT ![p] = "made"]
    /\ row' = [row EXCEPT ![p] = "dirty"]
    /\ released' = IF p \in Imported THEN released \cup {p} ELSE released
    /\ upload' = IF p \in Uploads THEN upload \cup {p} ELSE upload
    /\ modal' = IF p \in Imported THEN modal ELSE [modal EXCEPT ![p] = "polling"]
    /\ UNCHANGED <<hash, deleted, releasing, removing, tmp, image, video, workerVars, dupKey>>

\* The dialog reads GetPostQueueStatus.  A row that is gone is an error, which
\* the dialog ignores.
Poll(p) ==
    /\ modal[p] = "polling"
    /\ row[p] = "clean" /\ p \notin deleted
    /\ modal' = [modal EXCEPT ![p] = IF p \in dupKey THEN "duplicates"
                                     ELSE IF p \in released THEN "closed" ELSE "release"]
    /\ UNCHANGED <<rowVars, req, releasing, removing, fileVars, workerVars, dupKey>>

\* ReleasePost: the checks, then the tags and the comment, then the row.
BeginRelease(p) ==
    /\ row[p] = "clean" /\ p \notin deleted \cup released
    /\ releasing' = releasing \cup {p}
    /\ UNCHANGED <<rowVars, req, removing, modal, fileVars, workerVars, dupKey>>

Release(p) ==
    /\ p \in releasing
    /\ releasing' = releasing \ {p}
    /\ released' = released \cup {p}
    /\ UNCHANGED <<row, hash, deleted, req, removing, modal, fileVars, workerVars, dupKey>>

\* AdminDeletePost: the file, which is looked for among the images even if it
\* is a video, then the row.  A dirty row names no file, and what the code then
\* tries to remove is the directory, which is not empty and stays.
RemoveFiles(p) ==
    /\ removing[p] = "no"
    /\ Live(p)
    /\ image' = IF row[p] = "clean" /\ IsImage(p) THEN [image EXCEPT ![NameOf[p]] = "none"]
                ELSE image
    /\ removing' = [removing EXCEPT ![p] = "files"]
    /\ UNCHANGED <<rowVars, req, releasing, modal, tmp, upload, video, workerVars, dupKey>>

DeletePost(p) ==
    /\ removing[p] = "files"
    /\ deleted' = IF row[p] = "none" THEN deleted ELSE deleted \cup {p}
    /\ removing' = [removing EXCEPT ![p] = "row"]
    /\ UNCHANGED <<row, hash, released, req, releasing, modal, fileVars, workerVars, dupKey>>

-----------------------------------------------------------------------------
(* The worker: a batch and its downloads. *)

Goto(p, where) == at' = [at EXCEPT ![p] = where]

\* Mutants of the next two: without AND dirty = TRUE; no DELETE.
DeleteAnyway(p) == row' = [row EXCEPT ![p] = "none"]
DeleteNothing(p) == UNCHANGED row

\* DELETE FROM posts WHERE id = $1 AND dirty = TRUE.
DeleteDirty(p) == row' = [row EXCEPT ![p] = IF @ = "dirty" THEN "none" ELSE @]
TryDeleteDirty(p) == DeleteDirty(p) \/ ("db" \in faults /\ UNCHANGED row)

\* drain: the worker is through with the last batch and reads the dirty rows.
Drain ==
    /\ \A p \in Posts : at[p] = "none"
    /\ \E p \in Posts : row[p] = "dirty" /\ p \notin deleted
    /\ at' = [p \in Posts |-> IF row[p] = "dirty" /\ p \notin deleted THEN "queued" ELSE "none"]
    /\ UNCHANGED <<rowVars, httpVars, fileVars, got, auxVars, dupKey>>

\* A download is written to a file named by the last part of the url.
BeginDownload(p) ==
    /\ at[p] = "queued" /\ p \notin Uploads
    /\ Cardinality({q \in Posts : at[q] = "download"}) < DownloadConcurrency
    /\ tmp' = [tmp EXCEPT ![NameOf[p]] = "part"]
    /\ Goto(p, "download")
    /\ UNCHANGED <<rowVars, httpVars, upload, image, video, got, auxVars, dupKey>>

\* Two downloads to one name write into each other, and a file that another
\* post's processing removed or moved meanwhile does not come back.
Alone(p) == \A q \in Posts \ (Uploads \cup {p}) : NameOf[q] = NameOf[p] => at[q] = "none"

EndDownload(p) ==
    /\ at[p] = "download"
    /\ \E c \in IF Alone(p) THEN {p} ELSE {p, "part", tmp[NameOf[p]]} :
          tmp' = [tmp EXCEPT ![NameOf[p]] = c]
    /\ Goto(p, "fetched")
    /\ UNCHANGED <<rowVars, httpVars, upload, image, video, got, auxVars, dupKey>>

\* What was downloaded stays where it is.
DownloadFails(p) ==
    /\ at[p] \in {"queued", "download"} /\ p \notin Uploads
    /\ "item" \in faults
    /\ TryDeleteDirty(p)
    /\ Goto(p, "none")
    /\ UNCHANGED <<hash, released, deleted, httpVars, fileVars, got, auxVars, dupKey>>

-----------------------------------------------------------------------------
(* The worker: one post. *)

Working == {"encode", "compare", "duplicate", "reject", "move", "probe", "finalize", "done", "failed"}
AtWork == {p \in Posts : at[p] \in Working}

Fetched(p) == at[p] = "fetched" \/ (at[p] = "queued" /\ p \in Uploads)

\* Mutant: the channel is drained without a limit.
TakeUnlimited(p) ==
    /\ Fetched(p)
    /\ Goto(p, CASE IsImage(p) -> "encode"
                 [] Kind[NameOf[p]] = "video" -> "move"
                 [] OTHER -> "failed")
    /\ UNCHANGED <<rowVars, httpVars, fileVars, got, auxVars, dupKey>>

Take(p) ==
    /\ Fetched(p)
    /\ Cardinality(AtWork) < Concurrency
    /\ Goto(p, CASE IsImage(p) -> "encode"
                 [] Kind[NameOf[p]] = "video" -> "move"
                 [] OTHER -> "failed")
    /\ UNCHANGED <<rowVars, httpVars, fileVars, got, auxVars, dupKey>>

Source(p) == IF p \in Uploads THEN (IF p \in upload THEN p ELSE "none") ELSE tmp[NameOf[p]]

\* Mutant: the source is consumed.
EncodeConsumes(p) ==
    /\ at[p] = "encode"
    /\ Source(p) \in Posts
    /\ image' = [image EXCEPT ![NameOf[p]] = Source(p)]
    /\ got' = [got EXCEPT ![p] = Source(p)]
    /\ upload' = upload \ {p}
    /\ Goto(p, "compare")
    /\ UNCHANGED <<rowVars, httpVars, tmp, video, auxVars, dupKey>>

\* The output has the name of the input.
Encode(p) ==
    /\ at[p] = "encode"
    /\ Source(p) \in Posts
    /\ image' = [image EXCEPT ![NameOf[p]] = Source(p)]
    /\ got' = [got EXCEPT ![p] = Source(p)]
    /\ Goto(p, "compare")
    /\ UNCHANGED <<rowVars, httpVars, tmp, upload, video, auxVars, dupKey>>

EncodeFails(p) ==
    /\ at[p] = "encode"
    /\ \/ Source(p) \notin Posts /\ UNCHANGED image
       \/ /\ "item" \in faults
          /\ \E c \in {image[NameOf[p]], "part"} : image' = [image EXCEPT ![NameOf[p]] = c]
    /\ Goto(p, "failed")
    /\ UNCHANGED <<rowVars, httpVars, tmp, upload, video, got, auxVars, dupKey>>

\* Mutant: only posts that are released.
DuplicatesReleased(p) ==
    {q \in (Posts \ {p}) \cap released : /\ row[q] = "clean" /\ q \notin deleted
                                         /\ <<got[p], hash[q]>> \in Similar}

\* get_possible_duplicates, less the post itself and the dirty ones.  A video
\* has the hash zero.
Duplicates(p) ==
    {q \in Posts \ {p} : /\ row[q] = "clean" /\ q \notin deleted
                         /\ \/ <<got[p], hash[q]>> \in Similar
                            \/ hash[q] = "none" /\ got[p] \in Flat}

Compare(p) ==
    /\ at[p] = "compare"
    /\ \/ Goto(p, IF Duplicates(p) = {} THEN "finalize" ELSE "duplicate")
       \/ "db" \in faults /\ Goto(p, "failed")
    /\ beside' = [beside EXCEPT ![p] = {q \in Posts : at[q] = "finalize" /\ IsImage(q)}]
    /\ UNCHANGED <<rowVars, httpVars, fileVars, got, crashes, faults, dupKey>>

RemoveOutput(p) ==
    /\ at[p] = "duplicate"
    /\ image' = [image EXCEPT ![NameOf[p]] = "none"]
    /\ Goto(p, "reject")
    /\ UNCHANGED <<rowVars, httpVars, tmp, upload, video, got, auxVars, dupKey>>

\* SETEX dup:post:{id}, then the row is deleted.
Reject(p) ==
    /\ at[p] = "reject"
    /\ \/ dupKey' = dupKey \cup {p}
       \/ "redis" \in faults /\ UNCHANGED dupKey
    /\ TryDeleteDirty(p)
    /\ Goto(p, "failed")
    /\ UNCHANGED <<hash, released, deleted, httpVars, fileVars, got, auxVars>>

\* A video is moved, under a fresh name, before anything can fail.
Move(p) ==
    /\ at[p] = "move"
    /\ IF Source(p) = "none"
       THEN Goto(p, "failed") /\ UNCHANGED <<tmp, upload, video>>
       ELSE /\ video' = [video EXCEPT ![p] = Source(p)]
            /\ upload' = upload \ {p}
            /\ tmp' = IF p \in Uploads THEN tmp ELSE [tmp EXCEPT ![NameOf[p]] = "none"]
            /\ Goto(p, "probe")
    /\ UNCHANGED <<rowVars, httpVars, image, got, auxVars, dupKey>>

\* Its thumbnail is made from the first frame.
Probe(p) ==
    /\ at[p] = "probe"
    /\ \/ video[p] \in Posts /\ Goto(p, "finalize")
       \/ (video[p] \notin Posts \/ "item" \in faults) /\ Goto(p, "failed")
    /\ UNCHANGED <<rowVars, httpVars, fileVars, got, auxVars, dupKey>>

\* UPDATE posts SET ... dirty = FALSE WHERE id = $11.
FinalizePost(p) ==
    /\ row' = [row EXCEPT ![p] = IF @ = "none" THEN @ ELSE "clean"]
    /\ hash' = [hash EXCEPT ![p] = IF IsImage(p) THEN got[p] ELSE "none"]

Finalize(p) ==
    /\ at[p] = "finalize"
    /\ FinalizePost(p)
    /\ Goto(p, "done")
    /\ UNCHANGED <<released, deleted, httpVars, fileVars, got, auxVars, dupKey>>

FinalizeFails(p) ==
    /\ at[p] = "finalize"
    /\ "db" \in faults
    /\ FinalizePost(p) \/ UNCHANGED <<row, hash>>
    /\ Goto(p, "failed")
    /\ UNCHANGED <<released, deleted, httpVars, fileVars, got, auxVars, dupKey>>

\* Mutant: a failure removes the output.
FinishClearsOutput(p) ==
    /\ at[p] \in {"done", "failed"}
    /\ tmp' = IF p \in Uploads THEN tmp ELSE [tmp EXCEPT ![NameOf[p]] = "none"]
    /\ image' = IF at[p] = "failed" THEN [image EXCEPT ![NameOf[p]] = "none"] ELSE image
    /\ IF at[p] = "failed" THEN TryDeleteDirty(p) ELSE UNCHANGED row
    /\ Goto(p, "none")
    /\ UNCHANGED <<hash, released, deleted, httpVars, upload, video, got, auxVars, dupKey>>

\* The downloaded file is removed; a post that failed is deleted.
Finish(p) ==
    /\ at[p] \in {"done", "failed"}
    /\ tmp' = IF p \in Uploads THEN tmp ELSE [tmp EXCEPT ![NameOf[p]] = "none"]
    /\ IF at[p] = "failed" THEN TryDeleteDirty(p) ELSE UNCHANGED row
    /\ Goto(p, "none")
    /\ UNCHANGED <<hash, released, deleted, httpVars, upload, image, video, got, auxVars, dupKey>>

\* The worker process dies, and is started again with an empty pipeline.
Crash ==
    /\ crashes < MaxCrashes
    /\ crashes' = crashes + 1
    /\ at' = [p \in Posts |-> "none"]
    /\ UNCHANGED <<rowVars, httpVars, fileVars, got, dupKey, faults, beside>>

-----------------------------------------------------------------------------
Request(p) == Check(p) \/ Insert(p) \/ BeginRelease(p) \/ Release(p) \/ RemoveFiles(p) \/ DeletePost(p)

ImageStep(p) == Encode(p) \/ EncodeFails(p) \/ Compare(p) \/ RemoveOutput(p) \/ Reject(p)

\* The steps that come to an end: a download and the ffmpeg of an image have a
\* time limit, and the encoders run in the process.
PromptStep(p) ==
    \/ BeginDownload(p) \/ EndDownload(p) \/ DownloadFails(p)
    \/ Take(p) \/ ImageStep(p) \/ Move(p)
    \/ Finalize(p) \/ FinalizeFails(p) \/ Finish(p)

WorkerStep(p) == PromptStep(p) \/ Probe(p)

Next ==
    \/ Drain \/ Crash
    \/ \E p \in Posts : Request(p) \/ Poll(p) \/ WorkerStep(p)

Spec == Init /\ [][Next]_vars

\* The ticker drains again, tasks of a batch go on, the dialog polls every two
\* seconds.  Nothing is assumed of Probe: the ffmpeg and the ffprobe of a video
\* have no time limit and may hang.
FairSpec ==
    /\ Spec
    /\ WF_vars(Drain)
    /\ \A p \in Posts : WF_vars(PromptStep(p)) /\ WF_vars(Poll(p))

-----------------------------------------------------------------------------
(* Properties. *)

TypeOK ==
    /\ req \in [Posts -> {"new", "refused", "checked", "made"}]
    /\ row \in [Posts -> {"none", "dirty", "clean"}]
    /\ hash \in [Posts -> Content]
    /\ released \subseteq Posts
    /\ deleted \subseteq Posts
    /\ releasing \subseteq Posts
    /\ removing \in [Posts -> {"no", "files", "row"}]
    /\ at \in [Posts -> {"none", "queued", "download", "fetched"} \cup Working]
    /\ Cardinality(AtWork) <= Concurrency
    /\ got \in [Posts -> Content]
    /\ tmp \in [Names -> Content]
    /\ upload \subseteq Uploads
    /\ image \in [Names -> Content]
    /\ video \in [Posts -> Content]
    /\ dupKey \subseteq Posts
    /\ modal \in [Posts -> {"closed", "polling", "duplicates", "release"}]
    /\ crashes \in 0..MaxCrashes
    /\ faults \in FaultSets
    /\ beside \in [Posts -> SUBSET Posts]

Finished(p) == row[p] = "clean" /\ p \notin deleted /\ removing[p] = "no"

\* queue.rs:582-599, 490-493: a finished post has its own picture in the file
\* its row names, through failures, lost answers and crashes at any step.
OwnFile ==
    \A p \in Posts : Finished(p) =>
        IF IsImage(p) THEN image[NameOf[p]] = p /\ hash[p] = p ELSE video[p] = p

\* queue.rs:490-493, db.rs:92-99: a post that was finalized never leaves the
\* database, also when its finalization was reported as a failure.
CleanStays == [][\A p \in Posts : row[p] = "clean" => row'[p] = "clean"]_vars

\* The state of a post as an outsider sees it, and the picture its file holds.
LifeOf(p) ==
    CASE row[p] = "none" -> IF req[p] = "made" THEN "dropped" ELSE "absent"
      [] row[p] = "dirty" -> "queued"
      [] OTHER -> "finished"
Lives  == [p \in Posts |-> LifeOf(p)]
Doomed == {p \in Posts : removing[p] # "no"}
Shows  == [p \in Posts |-> IF ~Finished(p) THEN "none"
                           ELSE IF IsImage(p) THEN image[NameOf[p]] ELSE video[p]]

Gallery == INSTANCE PostGallery WITH life <- Lives, doomed <- Doomed, shows <- Shows

\* queue.rs:490-493, 582-599, db.rs:92-99, admin.go, post.go: the pipeline
\* implements the gallery: a post is queued once and finished or dropped once,
\* it shows its own picture from the step that finishes it to the one that
\* begins its deletion, and only a finished post is released.
ImplementsGallery == Gallery!Spec

Twins(p, q) ==
    /\ p # q /\ <<p, q>> \in Similar
    /\ Finished(p) /\ Finished(q) /\ IsImage(p) /\ IsImage(q)

\* queue.rs:506, 536-575: an image is compared before it is finalized, so that
\* no two finished images are similar.
NoTwins == \A p, q \in Posts : ~Twins(p, q)

\* queue.rs:536-600: two similar images are both finished only if one of them
\* was compared in the short time in which the other had passed its comparison
\* and was not yet finalized; in any other order, and through crashes, retries
\* and lost answers, the second is found to be a duplicate.
TwinsOnlySideBySide ==
    \A p, q \in Posts : Twins(p, q) => q \in beside[p] \/ p \in beside[q]

\* queue.rs:155-159: a post that a crash interrupted is picked up again; it is
\* given up only for a post that is like it.
DroppedOnlyAsTwin ==
    [][\A p \in Posts : row[p] = "dirty" /\ row'[p] = "none" =>
          \E q \in Posts \ {p} : row[q] = "clean" /\ <<p, q>> \in Similar]_vars

\* queue.rs:4-5, 349-350, 490-493: a dirty post does not stay dirty, whatever
\* fails and whenever the worker dies, as long as Postgres and Redis answer and
\* no ffmpeg of a video hangs for ever.
DirtyEnds ==
    /\ "db" \notin faults
    /\ \A v \in Posts : []<>(at[v] # "probe")
    => \A p \in Posts : row[p] = "dirty" ~> row[p] # "dirty" \/ p \in deleted
=============================================================================
