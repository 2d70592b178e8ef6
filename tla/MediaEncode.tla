---------------------------- MODULE MediaEncode ----------------------------
(***************************************************************************)
(* The media pipelines of the worker (src/worker/src/processing.rs): the   *)
(* calls that turn an upload or a stored file into a full-size AVIF and a  *)
(* thumbnail, with the blocking tasks they spawn, the ffmpeg children they *)
(* wait for, the files they write, and the redirection of stdout that all  *)
(* SVT-AV1 encoders of the process share (src/worker/src/avif.rs).         *)
(*                                                                         *)
(* A call is an async function; it is suspended between its stages and may *)
(* be dropped there.  A blocking task, once spawned, runs to its end       *)
(* whatever becomes of the call.  Which bytes a picture has is left out:   *)
(* ImageFrame is about sizes and pixels.  Calls have different file names. *)
(***************************************************************************)
EXTENDS Naturals

CONSTANTS Calls,  \* calls that run in one process
          Works   \* choices of what each call is and gets

Forms ==
    { "jpeg420",  \* at most 1058 pixels wide, chroma 4:2:0
      "jpeg444",  \* at most 1058 pixels wide, other chroma
      "wide",     \* a wider JPEG
      "native",   \* another format of the image crate
      "exotic" }  \* a format only ffmpeg reads

Inputs ==
    [route : {"image", "regen", "b", "c", "d"}, form : Forms]
      \cup {[route |-> "video", form |-> "video"]}

ASSUME MediaAssumption == Works \subseteq [Calls -> Inputs]

Stages == {"start", "read", "move", "normalize", "extract", "decode", "planes",
           "small", "prepare", "encode", "cleanup", "probe", "end"}
Encoders == {"thumb", "full"}
TaskNames == {"decode", "planes", "rgb", "small", "prepare"} \cup Encoders
Files == {"tmp"} \cup Encoders
Over == {"ok", "failed"}
Active == {"queued", "running", "retry", "init", "svt", "ravif", "writing"}
Free == <<"nobody", "none">>

VARIABLES
    input,  \* [Calls -> what the call is and gets]
    at,     \* [Calls -> the stage the call is in, or "end"]
    result, \* [Calls -> "running", or how the call ended]
    task,   \* [Calls -> [TaskNames -> state of the blocking task]]
    child,  \* [Calls -> state of its ffmpeg]
    file,   \* [Calls -> [temporary JPEG and outputs -> what is on the disk]]
    lock,   \* who holds FD_LOCK
    stdout, \* what descriptor 1 is
    saved   \* [Calls -> [Encoders -> what the task's dup of it is]]

fdVars == <<lock, stdout, saved>>
vars == <<input, at, result, task, child, file, fdVars>>

---------------------------------------------------------------------------
(* Which stage follows which, for each of the pipelines *)

IsJpeg(i) == i.form \in {"jpeg420", "jpeg444", "wide"}

(* load_image: what is not decoded natively goes through ffmpeg first. *)
LoadStage(i) == IF i.form = "exotic" THEN "normalize" ELSE "decode"

(* The YUV route of process_image. *)
FastStages == [start |-> "read", read |-> "planes", planes |-> "encode", encode |-> "end"]

(* process_image_fallback *)
FallbackStages(i) ==
    [start |-> LoadStage(i), read |-> LoadStage(i), normalize |-> "decode",
     decode |-> "small", small |-> "encode", encode |-> "cleanup", cleanup |-> "end"]

(* process_image: narrow JPEGs with 4:2:0 chroma take the YUV route. *)
ImageStages(i) ==
    IF i.form = "jpeg420" THEN FastStages
    ELSE IF IsJpeg(i) THEN [FallbackStages(i) EXCEPT !.start = "read"]
    ELSE FallbackStages(i)

(* regenerate_image: the stages of the fallback, to files of fresh names. *)
RegenStages(i) == FallbackStages(i)

(* process_image_v_b: hash and crop are a stage of their own. *)
VariantBStages(i) ==
    [start |-> LoadStage(i), normalize |-> "decode", decode |-> "small",
     small |-> "prepare", prepare |-> "encode", encode |-> "cleanup", cleanup |-> "end"]

(* process_image_v_c *)
VariantCStages(i) == FallbackStages(i)

(* process_image_v_d looks at the width of a JPEG and not at its chroma. *)
VariantDStages(i) ==
    IF i.form \in {"jpeg420", "jpeg444"} THEN FastStages
    ELSE IF IsJpeg(i) THEN [VariantCStages(i) EXCEPT !.start = "read"]
    ELSE VariantCStages(i)

(* process_video, with create_thumbnail *)
VideoStages ==
    [start |-> "move", move |-> "extract", extract |-> "decode", decode |-> "encode",
     encode |-> "cleanup", cleanup |-> "probe", probe |-> "end"]

After(i) ==
    CASE i.route = "image" -> ImageStages(i)
      [] i.route = "regen" -> RegenStages(i)
      [] i.route = "b"     -> VariantBStages(i)
      [] i.route = "c"     -> VariantCStages(i)
      [] i.route = "d"     -> VariantDStages(i)
      [] i.route = "video" -> VideoStages

(* The blocking tasks a stage spawns at once and awaits together. *)
StageTasks(i, s) ==
    CASE s = "decode"  -> {"decode"}
      [] s = "planes"  -> {"planes", "rgb"}
      [] s = "small"   -> {"small"}
      [] s = "prepare" -> {"prepare"}
      [] s = "encode"  -> IF i.route = "video" THEN {"thumb"} ELSE Encoders
      [] OTHER         -> {}

TasksOf(c) == StageTasks(input[c], at[c])

---------------------------------------------------------------------------
(* The call *)

Advance(c) ==
    LET next == After(input[c])[at[c]]
    IN  /\ at' = [at EXCEPT ![c] = next]
        /\ result' = [result EXCEPT ![c] = IF next = "end" THEN "ok" ELSE "running"]

Fail(c) ==
    /\ result' = [result EXCEPT ![c] = "failed"]
    /\ UNCHANGED at

Start(c) ==
    /\ result[c] = "running"
    /\ at[c] = "start"
    /\ Advance(c)
    /\ UNCHANGED <<input, task, child, file, fdVars>>

(* The upload is read into memory, or moved to the video directory. *)
ReadInput(c) ==
    /\ result[c] = "running"
    /\ at[c] \in {"read", "move"}
    /\ Advance(c) \/ Fail(c)
    /\ UNCHANGED <<input, task, child, file, fdVars>>

(* remove_file of the temporary JPEG, where there is one *)
Cleanup(c) ==
    /\ result[c] = "running"
    /\ at[c] = "cleanup"
    /\ file' = [file EXCEPT ![c]["tmp"] = "none"]
    /\ Advance(c)
    /\ UNCHANGED <<input, task, child, fdVars>>

(* get_dimensions of the video has an answer even when ffprobe fails, but   *)
(* waits for it without a time limit: when the answer comes is up to        *)
(* ffprobe.                                                                 *)
Probe(c) ==
    /\ result[c] = "running"
    /\ at[c] = "probe"
    /\ Advance(c)
    /\ UNCHANGED <<input, task, child, file, fdVars>>

(* spawn_blocking of the tasks of a stage *)
Spawn(c) ==
    /\ result[c] = "running"
    /\ TasksOf(c) # {}
    /\ \A t \in TasksOf(c) : task[c][t] = "none"
    /\ task' = [task EXCEPT ![c] =
                   [t \in TaskNames |-> IF t \in TasksOf(c) THEN "queued" ELSE @[t]]]
    /\ UNCHANGED <<input, at, result, child, file, fdVars>>

\* Mutants of the next: tokio::try_join! returns with the first error;
\* the result of the thumbnail is not looked at.
JoinFirstError(c) ==
    /\ result[c] = "running"
    /\ TasksOf(c) # {}
    /\ IF \E t \in TasksOf(c) : task[c][t] = "failed" THEN Fail(c)
       ELSE (\A t \in TasksOf(c) : task[c][t] = "ok") /\ Advance(c)
    /\ UNCHANGED <<input, task, child, file, fdVars>>
JoinThumbIgnored(c) ==
    /\ result[c] = "running"
    /\ TasksOf(c) # {}
    /\ \A t \in TasksOf(c) : task[c][t] \in Over
    /\ IF \A t \in TasksOf(c) \ {"thumb"} : task[c][t] = "ok" THEN Advance(c) ELSE Fail(c)
    /\ UNCHANGED <<input, task, child, file, fdVars>>

(* tokio::join!: every task has ended before the first result is looked at. *)
Join(c) ==
    /\ result[c] = "running"
    /\ TasksOf(c) # {}
    /\ \A t \in TasksOf(c) : task[c][t] \in Over
    /\ IF \A t \in TasksOf(c) : task[c][t] = "ok" THEN Advance(c) ELSE Fail(c)
    /\ UNCHANGED <<input, task, child, file, fdVars>>

(* timeout(ITEM_TIMEOUT) of drain_regen_queue drops the call wherever it    *)
(* waits.  Its child is killed, its tasks go on.                            *)
Deadline(c) ==
    /\ result[c] = "running"
    /\ input[c].route = "regen"
    /\ result' = [result EXCEPT ![c] = "dropped"]
    /\ child' = [child EXCEPT ![c] = IF @ = "running" THEN "killed" ELSE @]
    /\ UNCHANGED <<input, at, task, file, fdVars>>

---------------------------------------------------------------------------
(* ffmpeg *)

(* normalize_to_jpeg and extract_video_frame *)
Launch(c) ==
    /\ result[c] = "running"
    /\ at[c] \in {"normalize", "extract"}
    /\ child[c] = "none"
    /\ \/ child' = [child EXCEPT ![c] = "running"] /\ UNCHANGED <<at, result>>
       \/ Fail(c) /\ UNCHANGED child
    /\ UNCHANGED <<input, task, file, fdVars>>

(* The child writes the temporary JPEG and ends.  It also ends well without *)
(* a frame, as when a video is shorter than a second.                       *)
ChildWrites(c) ==
    /\ child[c] = "running"
    /\ file[c]["tmp"] = "none"
    /\ file' = [file EXCEPT ![c]["tmp"] = "part"]
    /\ UNCHANGED <<input, at, result, task, child, fdVars>>

ChildExits(c) ==
    /\ child[c] = "running"
    /\ \/ /\ child' = [child EXCEPT ![c] = "good"]
          /\ file' = [file EXCEPT ![c]["tmp"] = IF @ = "part" THEN "whole" ELSE @]
       \/ /\ child' = [child EXCEPT ![c] = "bad"]
          /\ UNCHANGED file
    /\ UNCHANGED <<input, at, result, task, fdVars>>

Collect(c) ==
    /\ result[c] = "running"
    /\ at[c] \in {"normalize", "extract"}
    /\ \/ child[c] = "good" /\ Advance(c)
       \/ child[c] = "bad" /\ Fail(c)
    /\ UNCHANGED <<input, task, child, file, fdVars>>

\* Mutant of the next: there is no timeout.
NoTimeout(c) == FALSE /\ UNCHANGED vars

(* FFMPEG_TIMEOUT of normalize_to_jpeg: kill_on_drop kills the child.  For  *)
(* the frame of a video there is no such limit.                             *)
Timeout(c) ==
    /\ result[c] = "running"
    /\ at[c] = "normalize"
    /\ child[c] \in {"running", "good", "bad"}
    /\ child' = [child EXCEPT ![c] = IF @ = "running" THEN "killed" ELSE @]
    /\ Fail(c)
    /\ UNCHANGED <<input, task, file, fdVars>>

---------------------------------------------------------------------------
(* The blocking tasks *)

SetTask(c, t, s) == task' = [task EXCEPT ![c][t] = s]

Run(c, t) ==
    /\ task[c][t] = "queued"
    /\ SetTask(c, t, "running")
    /\ UNCHANGED <<input, at, result, child, file, fdVars>>

(* What a task needs in order to end well: decoding the temporary JPEG      *)
(* needs it, decode_jpeg_to_yuv_planes refuses other chroma than 4:2:0.     *)
CanSucceed(c, t) ==
    /\ t = "decode" /\ input[c].form \in {"exotic", "video"} => file[c]["tmp"] = "whole"
    /\ t = "planes" => input[c].form = "jpeg420"

(* A decode, the downscale, or hash and crop ends.  After turbojpeg,        *)
(* load_image lets the image crate try the JPEG.                            *)
Compute(c, t) ==
    /\ task[c][t] \in {"running", "retry"}
    /\ \/ CanSucceed(c, t) /\ SetTask(c, t, "ok")
       \/ /\ t = "decode" /\ IsJpeg(input[c]) /\ task[c][t] = "running"
          /\ SetTask(c, t, "retry")
       \/ /\ SetTask(c, t, "failed")
          /\ ~(t = "decode" /\ IsJpeg(input[c]) /\ task[c][t] = "running")
    /\ UNCHANGED <<input, at, result, child, file, fdVars>>

(* encode_avif_from_yuv_planes has no second encoder. *)
HasRavif(c, t) == t = "thumb" \/ After(input[c]) # FastStages

(* encode_avif leaves pictures with a side below 64 to ravif.  Hashing and  *)
(* cropping before it may panic.                                            *)
Prepare(c, t) ==
    /\ task[c][t] = "running"
    /\ \/ HasRavif(c, t) /\ SetTask(c, t, "ravif")
       \/ t = "thumb" /\ SetTask(c, t, "failed")
    /\ UNCHANGED <<input, at, result, child, file, fdVars>>

\* Mutant of the next: there is no FD_LOCK.
SilenceUnlocked(c, t) ==
    /\ task[c][t] = "running"
    /\ lock' = <<c, t>>
    /\ saved' = [saved EXCEPT ![c][t] = stdout]
    /\ stdout' = "null"
    /\ SetTask(c, t, "init")
    /\ UNCHANGED <<input, at, result, child, file>>

(* suppress_stdio_for up to the call of f: the lock, dup, dup2 of /dev/null *)
Silence(c, t) ==
    /\ task[c][t] = "running"
    /\ lock = Free
    /\ lock' = <<c, t>>
    /\ saved' = [saved EXCEPT ![c][t] = stdout]
    /\ stdout' = "null"
    /\ SetTask(c, t, "init")
    /\ UNCHANGED <<input, at, result, child, file>>

(* What follows when SVT-AV1 does not encode the picture *)
Refused(c, t) ==
    IF HasRavif(c, t)
      THEN SetTask(c, t, "ravif") /\ file' = [file EXCEPT ![c][t] = "none"]
      ELSE SetTask(c, t, "failed") /\ UNCHANGED file

\* Mutant of the next: a panic of the encoder's init poisons the lock.
RestorePoisoned(c, t) ==
    /\ task[c][t] = "init"
    /\ stdout' = saved[c][t]
    /\ \/ SetTask(c, t, "svt") /\ lock' = Free /\ UNCHANGED file
       \/ Refused(c, t) /\ lock' = Free
       \/ SetTask(c, t, "failed") /\ UNCHANGED <<file, lock>>
    /\ UNCHANGED <<input, at, result, child, saved>>

(* f returns an encoder or an error, or panics; Restore is dropped and then *)
(* the guard of the lock, which takes no notice of poison.                  *)
Restore(c, t) ==
    /\ task[c][t] = "init"
    /\ stdout' = saved[c][t]
    /\ lock' = Free
    /\ \/ SetTask(c, t, "svt") /\ UNCHANGED file
       \/ Refused(c, t)
       \/ SetTask(c, t, "failed") /\ UNCHANGED file
    /\ UNCHANGED <<input, at, result, child, saved>>

(* send_picture, send_eos or get_packet fails. *)
EncodeFails(c, t) ==
    /\ task[c][t] = "svt"
    /\ Refused(c, t)
    /\ UNCHANGED <<input, at, result, child, fdVars>>

RavifFails(c, t) ==
    /\ task[c][t] = "ravif"
    /\ SetTask(c, t, "failed")
    /\ UNCHANGED <<input, at, result, child, file, fdVars>>

(* std::fs::write truncates the file and then fills it. *)
Write(c, t) ==
    /\ task[c][t] \in {"svt", "ravif"}
    /\ \/ SetTask(c, t, "writing") /\ file' = [file EXCEPT ![c][t] = "part"]
       \/ SetTask(c, t, "failed") /\ UNCHANGED file
    /\ UNCHANGED <<input, at, result, child, fdVars>>

WriteEnds(c, t) ==
    /\ task[c][t] = "writing"
    /\ \/ SetTask(c, t, "ok") /\ file' = [file EXCEPT ![c][t] = "whole"]
       \/ SetTask(c, t, "failed") /\ UNCHANGED file
    /\ UNCHANGED <<input, at, result, child, fdVars>>

---------------------------------------------------------------------------
Init ==
    /\ input \in Works
    /\ at = [c \in Calls |-> "start"]
    /\ result = [c \in Calls |-> "running"]
    /\ task = [c \in Calls |-> [t \in TaskNames |-> "none"]]
    /\ child = [c \in Calls |-> "none"]
    /\ file = [c \in Calls |-> [f \in Files |-> "none"]]
    /\ lock = Free
    /\ stdout = "console"
    /\ saved = [c \in Calls |-> [t \in Encoders |-> "none"]]

CallStep(c) ==
    \/ Start(c) \/ ReadInput(c) \/ Cleanup(c) \/ Spawn(c) \/ Join(c)
    \/ Launch(c) \/ Collect(c) \/ Timeout(c)

EncoderStep(c, t) ==
    \/ Prepare(c, t) \/ Silence(c, t) \/ Restore(c, t)
    \/ EncodeFails(c, t) \/ RavifFails(c, t) \/ Write(c, t) \/ WriteEnds(c, t)

Worker ==
    \E c \in Calls :
        \/ CallStep(c)
        \/ \E t \in TaskNames : Run(c, t)
        \/ \E t \in TaskNames \ Encoders : Compute(c, t)
        \/ \E t \in Encoders : EncoderStep(c, t)

Outside == \E c \in Calls : ChildWrites(c) \/ ChildExits(c) \/ Probe(c) \/ Deadline(c)

Next == Worker \/ Outside

Spec == Init /\ [][Next]_vars

(* The worker goes on while a call can be polled, a timer has fired or a    *)
(* task can run; that is less than a fair runtime.  ffmpeg and ffprobe may  *)
(* hang.                                                                    *)
FairSpec == Spec /\ WF_vars(Worker)

---------------------------------------------------------------------------
(* Properties *)

(* Type correctness. *)
TypeOK ==
    /\ input \in [Calls -> Inputs]
    /\ at \in [Calls -> Stages]
    /\ result \in [Calls -> {"running", "ok", "failed", "dropped"}]
    /\ task \in [Calls -> [TaskNames -> {"none"} \cup Active \cup Over]]
    /\ child \in [Calls -> {"none", "running", "good", "bad", "killed"}]
    /\ file \in [Calls -> [Files -> {"none", "part", "whole"}]]
    /\ lock \in {Free} \cup (Calls \X Encoders)
    /\ stdout \in {"console", "null"}
    /\ saved \in [Calls -> [Encoders -> {"none", "console", "null"}]]

(* A pipeline that answers with file names has written these files, and to  *)
(* their end: neither a picture that fell back to ravif nor a thumbnail     *)
(* whose task ended first is missing or cut off.                            *)
FilesWhole ==
    \A c \in Calls :
        result[c] = "ok" =>
            \A t \in StageTasks(input[c], "encode") : file[c][t] = "whole"

(* A pipeline that has answered, well or not, has nothing running: no task  *)
(* of its own still writes a file that the caller removes or names, and no  *)
(* ffmpeg still reads the upload.  (A call dropped by the deadline of the   *)
(* regeneration leaves its tasks behind.)                                   *)
NothingLeftRunning ==
    \A c \in Calls :
        result[c] \in {"ok", "failed"} =>
            /\ \A t \in TaskNames : task[c][t] \notin Active
            /\ child[c] # "running"

(* Whenever no encoder is being set up, the log goes where it went before:  *)
(* two encoders that start together do not leave stdout in /dev/null.       *)
OutputRestored == lock = Free => stdout = "console"

(* A pipeline for pictures ends, however long ffmpeg takes; one for videos  *)
(* ends unless its ffmpeg or its ffprobe, which have no time limit, runs    *)
(* for ever.                                                                *)
CallsEnd ==
    <>[](\A c \in Calls :
            \/ result[c] # "running"
            \/ input[c].route = "video" /\ (child[c] = "running" \/ at[c] = "probe"))

(* Every task that was spawned ends, also when its call was dropped and     *)
(* though all encoders wait for one lock that a panicking one may have      *)
(* held.                                                                    *)
TasksEnd == <>[](\A c \in Calls, t \in TaskNames : task[c][t] \notin Active)
=============================================================================
