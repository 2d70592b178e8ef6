# Verification of wallium (ginbar)

TLA+ specifications of the image board in `src/`: a Go/Fiber backend, a Rust
worker, a React frontend, with Postgres for what lasts and Redis for votes,
queues and notices. Modules are checked with TLC on small instances and the
main invariants are proved with TLAPS for every value of the constants. Paths
below are relative to `src/src/`; line numbers are in the module comments.

## 1. Inventory

| Component | State | Operations | Talks to | What is hard |
|---|---|---|---|---|
| **Vote buffer** `backend/cache` | Redis: `votes`, `score`, `dirty`, `deleted` per entity; Postgres: vote rows and the score column | vote script; flush worker (grab, clear mark, read, write, re-mark, acknowledge); preload; shutdown | vote handlers, `main.go`, Postgres | votes between any two commands of a flush; failed and half-failed transactions; a cancelled context; crash; lost Redis |
| **Job manager** `backend/api/jobs.go`, `jobs_handlers.go` | job status, progress and context; the registry map; subscribers and their channels | register, start, progress, complete, fail, cancel, clean-up, broadcast, two event streams | every long admin handler, browsers | several locks and no order between broadcasts; full channels; cancel against complete |
| **Image regeneration** `api/admin.go`, `worker/src/queue.rs` | two Redis lists, one counter per job, image files, rows | enqueue, follow (messages and poll), pop, re-encode, swap, count, publish, acknowledge, recover | job manager, Redis, files, Postgres | at-least-once queue; crash at any step; messages against the counter; old files removed while others use them |
| **Post pipeline** `api/post.go`, `queue.go`, worker | rows (dirty, clean, released, deleted), download/upload/image/video directories, duplicate notices, the upload dialog | create, upload, release, delete; drain, download, encode, compare, reject, finalize, fail | browsers, import, Redis, Postgres, files | files named by their origin; check then insert; two transactions on one row; crash between moving a file and updating the row |
| **Media pipelines** `worker/src/processing.rs`, `avif.rs`, `ffmpeg.rs` | blocking tasks, ffmpeg children, temporary and output files, the process's stdout; planes, strides and sizes of a picture | decode (turbojpeg, image crate, ffmpeg), slice, resize, convert, encode (SVT-AV1, ravif), thumbnail, hash | post pipeline, regeneration, ffmpeg, files | two tasks of which one fails; time limits; a redirected descriptor all encoders share; strides and rounding at the boundaries |
| **pr0gramm import** `api/import.go` | cursor, per-page results, job | paging, rate limit and retries, filter, insert | job manager, post pipeline, remote API | end of feed, retries, partial pages |
| **Tags and filter** `api/tag.go`, `comment.go` | tags, post_tags, `posts.filter` | add, remove, restore, recompute | votes, post lists | read tags, then write the filter: two statements |
| **Users and invitations** `api/user.go`, `invite.go` | users, levels, invitations, sessions | register, log in, invite, change level | every handler | an invitation spent twice or with a failed registration; levels cached in sessions and streams |
| **Lists and paging** `db/store.go`, `stores/postStore.js` | cursor, merged pages | newer, older, around a post | posts, filter, votes | pages of a moving list; late answers |
| **Messages** `api/message.go`, `messageStore.js` | messages, read marks, unread count | send, list, open a thread | users | a thread opened while messages arrive |
| **Frontend stores** `stores/*.js` | optimistic copies of votes, comments, tags, jobs | change, roll back, merge | all of the API | late answers overwrite newer state |
| **Queue status** `queue.rs`, `api/queue.go` | counters of the batch, a Redis copy | count, publish, read | worker, dialog | counters that miss failed downloads |

Routing, configuration, logging, generated SQL, pages and deployment
keep no state whose order of change matters and are not modelled; section 7
says what else is not.

What makes each correct:

- *Votes*: a vote takes effect once, in the score and in the row; a retraction
  removes the row; whatever fails, the entity stays marked until it is saved.
- *Jobs*: a job ends once and leaves; a client ends up with the present state
  and is never shown work or an end that did not happen.
- *Regeneration*: no item is lost, none is reported updated that is not, a row
  always names an existing file, the handler ends.
- *Posts*: a finished post shows its own picture; a finalized row stays; a
  dirty row does not; two finished images are alike only if they were processed
  side by side.
- *Media*: a pipeline that answers has whole files and nothing running; a file
  shows the picture, cropped or resized and not otherwise changed; the log
  survives the encoders.

## 2. Modules

| Module | Models | Proofs | TLC instances |
|---|---|---|---|
| `VoteLedger` | what the buffer promises: a live ledger, a stored copy, the pending entities | | |
| `VoteBuffer` | `cache/vote.go`, `cache/flush.go`, start and stop in `main.go`; implements `VoteLedger` | `VoteBufferProofs`, `SumTheorems` (sums over finite sets) | `MCVoteBuffer` |
| `JobBoard` | what the job manager promises: jobs only move forward, a client is shown states they have been in, a user in order | | |
| `JobManager` | `jobs.go`, `jobs_handlers.go`, the runner pattern of `admin.go` and `import.go`; implements `JobBoard` | `JobManagerProofs` | `MCJobManager` |
| `RegenStore` | what the regeneration promises: an item is held until it has a result, no file goes that a post shows | | |
| `RegenQueue` | `RegenerateImages` and the worker's regeneration queue; implements `RegenStore` | `RegenQueueProofs` | `MCRegenQueue` |
| `PostGallery` | what the post pipeline promises: a post is queued, finished or dropped once, and shows its own picture | | |
| `PostPipeline` | posts from request to release or removal; implements `PostGallery` | `PostPipelineProofs` | `MCPostPipeline` |
| `MediaEncode` | the pipelines of `processing.rs` as concurrent calls, tasks and children; the lock of `avif.rs` | `MediaEncodeProofs` | `MCMediaEncode` |
| `ImageFrame` | sizes, planes, strides and colours of one full-size encode | `ImageFrameProofs` | `MCImageFrame` |

The two media modules look into the step that `PostPipeline` and `RegenQueue`
take as one: there an encode has an outcome, here is how it comes about.
`FilesWhole` and `NothingLeftRunning` are what the other two rely on when they
let an encode that succeeded have written its file, and one that failed be
followed by the removal of what it wrote.

Definitions whose comment begins with "Mutant" are defective variants of the
definition after them. No specification uses them; they are there to show that
the properties notice such a defect.

Possible failures are a parameter: the constant `Faults` of `RegenQueue`, or the
variable `faults` of `VoteBuffer` and `PostPipeline`, which `Init` takes from
`FaultSets` and no step changes, so that one run covers several fault models
and a property or a theorem names the faults under which it holds.

### VoteBuffer

An entity is a post, a comment or a post tag; its type decides when the flush
worker reaches it. `CastVote` is the Lua script: one atomic step. The worker is
a program counter `pc`: `Tick` or `FinalFlush`, then for each type `Grab`
(SMEMBERS), `ClearDirty` (SREM), `ReadVotes`/`ReadScore`/`ReadDeleted` for each
entity (the pipeline is no transaction, so votes fall in between), and for each
entity `WriteCommits` or `WriteFails` (the transaction), then `Ack` (SREM of the
processed retractions) or `Remark` (SADD). The order in which the pipeline reads
the entities of a batch, and in which they are written, is left open: the code
goes through a Go slice whose order is that of SMEMBERS.

`Alive` is the context: `CancelWorker` comes at any moment once the server has
stopped accepting requests, and after it every call of a flush that is not the
final one may fail. The history variable `cut` holds the entities such a flush had
taken from the dirty set and had neither saved nor marked again when the signal
came; a later vote takes an entity out of it. `Gone` are entities whose parent row
is missing: the foreign key refuses their votes for ever. `Restart` is a new
process, after an orderly stop or a crash, with `PreloadScores`.

Each property begins with the faults it is about: `CleanAgrees` and
`ImplementsLedger` hold while failing transactions are the only fault
(`OnlySavesFail`), `RetractionsRemembered` while Redis keeps its data
(`RedisKeeps`), `CachedVotesSaved` while the worker neither dies nor loses a
call (`WorkerLives`), even if Redis loses its data. What the signal cut off is
excepted by name, as `cut`, in `CleanAgrees`, `CachedVotesSaved`, `SavedAtExit` and
`VotesReachDatabase`, and stays pending in the ledger.

### JobManager

Runners and cancelling requests are *actors*: the program counter `pc` says
where one is, `cast` how far its broadcast is. A broadcast, and every list a
stream makes, holds the map's read lock and reads one job after the other
(`left`, `view`); `MapUnlocked` is the writer's lock. `seen` is what the client
was last sent. Any number of cancellations of a job are one actor, because
every later one finds the job terminal. The rate and the ETA, and the paths that
no code outside the tests reaches (`IncrementProgress`, `SetTotal`), are left
out, and so is `Unsubscribe`: it is deferred in a loop that ends only if the
channel is closed, and only `Unsubscribe` closes it.

`Board` maps a job to its phase (the three ways to end are one) and its
progress, and what a client saw to the same of each snapshot. Locks, channels,
broadcasts and lists under way have no counterpart: all their steps stutter, but
the one in which the browser is sent a list, which is `Show`.

### RegenQueue

An item is one post of one run. The lists are sets, since items are unique and
the worker takes all of them at once. A worker's item goes `wait`, `encode`,
`update`, `remove`, `count`, `publish`, `ack`. `pushed` and `finished` are
history variables. File names are numbers handed out in order (UUIDs in the
code); number 1 is the file a post had from the pipeline, which posts of the same
name share (`FirstFile`). Timeouts are `ItemFails` with both outcomes of the
call that was under way. The job registry is not composed with the handler:
its progress calls do not feed back.

`Store` maps what either Redis list holds to `held`, the items with a result to
`settled` (a history variable of the queue), the rows to `shows` and the disk to
`files`. A crash, a recovery, a counter or a message changes none of them. An item
may be worked on again while it is held, and by a worker that was started anew;
what the store rules out is work for an item nobody holds, a row that changes
over to a missing or a foreign file, and the removal of a file that is shown.

### PostPipeline

The content of a file is the post whose picture it holds, `"part"` for a file
being written. `row`, `released` and `deleted` are the columns; `at` is where the
worker is with a post. Which files collide is decided by `NameOf`: the last part
of the url. `Similar` is the distance of hashes, `Flat` the pictures near the zero
hash that videos carry. `beside` is an observation the code does not make: the
images that waited for their finalization when a post was compared. `Probe`, the
ffmpeg and ffprobe of a video, has no time limit: it is a step of its own, and no
fairness is assumed of it. A picture and its thumbnail, which have one name in two
directories, are one file. Abstractions to know of: a crash in the middle of an
encoder leaves the old file or the new one and not a part, since the next drain
writes it again; a file of an unknown kind is deleted once and not twice; the
removal of the download and of the row at the end of a failed post are one step,
as no other step of a model with distinct names sees the state in between; an
insert that fails (and takes its upload back) is not modelled.

`Gallery` maps a post to its life: absent before its request, queued while its
row is dirty, finished when it is clean, dropped when the row is gone. A post is
doomed from the step that begins its deletion, `Shows` is the content of the file
of a finished post that is not doomed (`Finished`). The promise has teeth where a
step of another post touches files: it must leave `Shows` as it is.

### MediaEncode

A *call* is one invocation of a pipeline: `process_image` (by the YUV route or its
fallback), `regenerate_image`, the benchmark variants `_v_b`, `_v_c`, `_v_d` and
`process_video`. `After(i)` is the table of its stages; `at` is the stage it is
in. `Start`, `ReadInput`, `Cleanup` are what the async function does itself;
`Probe` is the ffprobe of a video, which like the ffmpeg of its frame is awaited
without a limit and is external; `Spawn` and `Join` are `spawn_blocking` and
`join!`; `Launch`, `Collect` and `Timeout` its dealings with ffmpeg
(`ChildWrites`, `ChildExits`, external). `Deadline` is the 30 second limit of the
regeneration, which drops the future: `kill_on_drop` takes the child, nothing
takes the tasks.

A blocking task is `queued`, `running`, then, if it encodes, `init` (it holds
`FD_LOCK` and stdout is `/dev/null`), `svt`, `ravif` (the fallback), `writing`,
and `ok` or `failed`. Silencing is one step (the lock is held from its first
instruction, and no other code changes descriptor 1), restoring is another, so
that everything else happens in between. A call that fails to make `/dev/null`
or a copy of a descriptor is not modelled (section 7).

What a picture is made of is left to `ImageFrame`; here a decode, a resize or an
encode may fail at any time, and a JPEG that turbojpeg refuses goes to the image
crate (`retry`). The hash and crop threads inside a task are part of its step.

### ImageFrame

`Init` chooses a picture: its sides and what decodes it. The steps follow the code
from the route to the result: `DecodePlanes`, `SlicePlanes`, `Repack`, `EncodeYuv`
for a narrow 4:2:0 JPEG; `DecodeRgb` (whole, or half by turbojpeg), `Crop` or
`Resize`, then `EncodeSmall` or `Convert` and `EncodeRgb`; `Probe` and `Filter`
for `convert_to_avif`, whose result `FileDims` computes from the documentation of
ffmpeg's filters; no pipeline calls it, only tests and benchmarks do. `SvtEncodes`
is what SVT-AV1 accepts: at least the minimum side and at most `MaxHeight` rows,
of which the YUV route looks at neither. No pixel has a value on the YUV route: a
pixel is its row and column, and `InPlace(written, read, ..)` says that a plane
written with one stride and read with another shows every pixel where it belongs.
The colour conversion is done for a block of four equal pixels. The floating-point
scale of the resize is an exact fraction here, rounded half up as `f64::round`
does; the two differ only where the `f64` error crosses a half.

## 3. Runs

Deadlock is not checked where the system may come to rest (jobs have ended, no
post is dirty); it is checked for the vote buffer, whose ticker never stops.

| Run | Instance | Question |
|---|---|---|
| `vote_faults` | 1 entity, 2 users, three sets of faults: failing transactions; those with failing calls and crashes; those with a Redis that loses its data; the shutdown at any command | is a clean entity saved, is the score the sum of the votes, is a retraction ever forgotten, does the next flush repair its entity, are votes cast since a loss saved, is the buffer a ledger? |
| `vote_live` | 2 entities in one batch, one gone, an empty second type | does every vote reach Postgres, does a shutdown at any moment end, is everything saved then that it did not cut off? |
| `jobs` | 1 job, 2 items, a user's or an admin's stream, capacity 1 | does a user end up with the present state and see the end, is a client ever ahead, is the manager a board, does a job leave? |
| `regen_report` | 1 run, 2 posts, 2 at a time, 1 crash; every fault but a file that cannot be removed | is the queue a store (is an item lost, does a row change over to a missing file, does a file go that is shown), is an item reported as updated that is not? |
| `regen_live` | 2 runs over 1 post, 2 at a time, 1 crash; lost messages, failed removals | is the row's file there, does the handler end, is every item acknowledged? |
| `pipe_files` | an image by url and an uploaded video, 2 at a time, 1 crash, with and without database faults | does a finished post have its own picture, is the pipeline a gallery, does a dirty post stay dirty while Postgres answers and no ffmpeg of a video hangs? |
| `pipe_twins` | 3 similar images (2 imports, 1 upload), 2 at a time, 1 crash, lost notices | are two finished posts alike that were not processed side by side, is a post given up without a twin? |
| `frame_sizes` | every picture of 1..52 by 1..20, 33, 40, 61 through every route; the limits scaled down (width 20, alignment 4, sides from 8, height to 40); 5 values of a sample | are all slices in their planes, is a picture of even width read in place, do size and shape fit, what is refused, are colours sound, is the foretold size right? |
| `encode` | 5 pairs of calls side by side, which between them take every pipeline and every kind of input | are the files of an answer whole, is anything left running, is stdout given back, do calls and tasks end? |
| `pipe_names` | a user's post and an imported one with one url | **violated**: see section 6 |
| `pipe_side` | 2 similar images, 2 at a time, no crash and no fault | **violated**: see section 6 |
| `frame_pixels` | the pictures of `frame_sizes` | **violated** by odd widths: see section 6 |

Why the bounds are enough. *Two users* on one entity are one who votes and one who
retracts in the same transaction; entities share nothing but the batch, which
`vote_live` has two in. *Capacity 1* fills a subscriber's channel with one
message; eight only takes more broadcasts. `MaxStreams` bounds how many streams a
behaviour opens: streams share only the registry, which they read. One job has two
actors, its runner and its canceller, each with a clean-up, whose broadcasts
overtake each other. *Two runs on one post* are what makes a file name stale, *two
posts* what makes a batch. *One crash* finds every step of an item and its second
processing. *Three posts* are needed for a twin that is queued while another is
compared and a third is finished.

*Two calls* are what FD_LOCK is for; each has two encoders, so up to four ask for
it. The pairs of `encode` put every pipeline beside another; a call has no other
state in common with its neighbour. In `frame_sizes` the widths pass the target
(20), the threshold (23) and twice the target (40), in every remainder of the
alignment, and the heights pass the minimum and the maximum; the arithmetic has no
other thresholds, and the theorems of section 4 cover the real limits.

`UpdatedTruthful` is checked without failing removals. When the old file cannot
be removed, an item that is done again after a crash finds its source still
there, and is reported as updated a second time; only the removal makes the
second attempt fail at its source check.

The stale sources of `regen_live` do not need failing items: with them the run
grows several times over. Failing and timed-out items are in
`regen_report`, and `RowHasFileSafe` (section 4) covers every fault.

Two posts at a time are the fewest at which one is compared beside another; the
worker takes four by default (`config.rs:33`), and six in `docker-compose.yml`.
`TwinsOnlySideBySide` says what the comparison then guarantees, and `pipe_side`
keeps what it does not: twins compared before either is finalized are both
shown. `DroppedOnlyAsTwin` is about images without failing tools or statements: a
video that a crash interrupts is lost (section 6).

### Fairness

- `VoteBuffer`: weak for the flush worker (a ticker, and a flush that does not
  block for ever); strong for `FinalFlush`, because Go's `select` picks at random
  between a tick and `Done` when both are ready. None for votes, failures or
  shutdown.
- `JobManager`: weak for every goroutine step; strong for the clean-up, which
  waits for a write lock: `sync.RWMutex` keeps new readers out while a writer
  waits. None for registering or cancelling.
- `RegenQueue`: weak for recovery, taking items (the worker polls the queue) and
  each item's task, and for the handler's two-way `select`. A worker that died is
  started again (`restart: unless-stopped` in `docker-compose.yml`); crashes are
  bounded by `MaxCrashes`.
- `PostPipeline`: weak for the drain (ticker), for each post's task and for the
  dialog's poll every two seconds. None for `Probe`: `extract_video_frame`
  (`ffmpeg.rs:243-274`) and `get_dimensions` (59-82) await ffmpeg and ffprobe without
  a limit, while a download (`download.rs:14`) and the ffmpeg of an image
  (`ffmpeg.rs:198`) have 30 seconds. `DirtyEnds` therefore is about behaviours in
  which no video stays at its probe for ever, and about those without database
  faults: a delete that fails for ever keeps a dirty row for ever, and its error is
  ignored.
- `MediaEncode`: weak for `Worker`, the union of every step of a call and of a
  task: the worker does something while it can. That is less than tokio gives
  each task, and it is enough, because every call and every task takes finitely
  many steps (`EveryStepSpends`) and one is possible while anything is left to do
  (`NeverStuck`, section 4). None for ffmpeg and ffprobe, which may
  hang, and none for `Deadline`; `CallsEnd` leaves out the calls that wait for
  those of a video, which have no time limit.

## 4. Proofs

Every theorem is for all values of the constants that satisfy the module's
`ASSUME`, which state no more than their types (and that posts and users are
finite, concurrency and capacity positive). A fault under which a theorem holds
is named by the property or by an assumption of the theorem.

- **VoteBufferProofs.** `TypeCorrect` holds under all faults; that a score stays
  an integer when a preload sums the rows is `SumType`. `LosslessSafe` (`"loss"
  \notin faults`) is the inductive invariant of the next four: besides types, that
  Redis has a score for whatever has votes (`Seeded`, so that a preload writes
  nothing), that what the pipeline read is up to date for an entity no vote has
  marked since (`Fresh`), and that marks read, rows and the deleted set agree at
  each stage. From it `RetractionsSafe` and `FlushRepairsSafe`, and
  `ScoreIsSumSafe`: a preload writes nothing, and a vote moves score and sum
  alike. `CleanAgreesSafe` (`faults \subseteq {"db"}`) adds that a flush begun
  with a live context keeps it, or what it holds is in `cut` (`CutHeld`,
  `CutApart`): otherwise the re-mark can be lost. `BufferImplementsLedger` (the
  same faults) maps each step to `Cast`, `Save`, `SaveOvertaken` or a stutter.
  Entities whose parent is gone are included: `GoneUnsaved` says that Postgres
  never has anything of them, so that they stay pending. `SavedAtExitSafe`
  (nothing else fails, but the signal comes at any moment, also in the middle of a
  flush) follows the last flush: no vote is cast after it begins, of the types it
  has passed nothing is dirty, and what an interrupted flush took is saved, marked
  again or in `cut`. `CachedVotesSavedSafe` is about the worker that lives while
  Redis comes and goes: what was read of an entity that is not dirty and not cut
  off holds every vote Redis has, and retracts none of them (`CachedCut`).
- **SumTheorems.** The fold `SumFunction` of the community modules over a finite
  domain: it exists, is an integer, is zero for zeros, and moves with the one
  value that changes. The induction over subsets is stated with a set in place of
  an operator and proved from the well-foundedness of strict inclusion.
- **JobManagerProofs.** `TypeCorrect` needs `RunnerInv` (a runner that works on an
  item has progress to make). `UserStreamSafe`: while no broadcast is pending and
  a user's channel is empty, its list is being built from present snapshots and
  what it shows is the registry; the key lemma is that whatever changes the
  registry leaves a broadcast pending, and a full channel still holds a message
  that makes the stream list again. `EndedStaysEndedSafe` is an action property:
  `Start` looks before it writes, and a job is registered once.
  `StreamsNeverAheadSafe`, from `BehindInv`: a job in the registry only moves
  forward, so a list that was behind it when made stays behind, in a channel, in a
  stream and in the browser. `ManagerImplementsBoard` adds that a listed job, or
  one in a list being made, was registered (`BegunInv`) and that a list a user's
  stream is making, or has made, is no older than the one the user saw last
  (`ForwardInv`): the stream makes its lists one after the other, and each reads
  the present.
- **RegenQueueProofs.** `NothingLostSafe` from `HeldInv`: an item at work is in
  the processing list, and an item about to be acknowledged has a result.
  `RowHasFileSafe` assumes `OwnFiles` (no two posts began with one file): names
  are handed out once, an output is nobody's source until its row is updated, and
  a source about to be removed is no longer the row's file. `UpdatedTruthfulSafe`
  assumes besides that a removal does not fail. An item *earns* its report once,
  when its post has another file and its source is gone; what is counted,
  published, heard or polled is bounded by the number of posts that have earned it
  (`ReportInv`). `QueueImplementsStore` (`OwnFiles`) rests on `StoreInv` besides:
  a name that was not handed out yet is on no disk, so that what an encoder writes
  is new, and only an item that was pushed has a result.
- **PostPipelineProofs.** `CleanStaysSafe` needs only that a request inserts its
  row once. `OwnFileSafe` assumes `DistinctNames`; its invariant `Own(p)` follows
  one picture from the download through the encoder to the row and says of each
  stage which file holds it, so that a step of another post, which touches files
  of its own name only, cannot disturb it. `TypeCorrect` includes the bound on
  posts at work, by counting the set before and after `Take`. `TwinsOnlySideBySideSafe`
  (`DistinctNames`, a similarity that goes both ways, any concurrency, any faults)
  follows the posts between `Compare` and
  `Finalize`: two that wait there were compared side by side (`WaitingBeside`), and
  what became similar to one since its comparison had waited beside it
  (`LateBeside`). `PipelineImplementsGallery`
  (`DistinctNames`, any faults and crashes) needs of the files only that a
  finished post shows its own picture, before and after a step, which is `OwnInv`;
  so a step of the worker or a request is a step of the gallery by what it does to
  rows alone. `GalleryInv` adds that only a clean post is being released and that
  a deleted one was doomed. `DroppedOnlyAsTwinSafe`
  (`DistinctNames`, images only, at most lost notices) keeps the twin of a post on
  its way out (`TwinKnown`), for any concurrency and any number of crashes.
- **ImageFrameProofs.** For all sizes and all limits (the alignment is even and
  divides the target width and the minimum side). `FrameInv` says at each step what
  the rectangle, the planes and the strides are in terms of the picture. The
  rest is arithmetic, in lemmas on rounding (`RoundFacts`, `ResizeShrinks`),
  alignment (`AlignFacts`: the largest multiple below), strides (`DivMod`,
  `SameStride`) and products. All the safety properties of `frame_sizes` are
  theorems: `ForetoldSizesHold` because the two ways of rounding a height to an
  even number differ by one pair of rows at most (`EvenHeights`);
  `ColoursAlwaysSound` for all 2^24 colours where the run tries 125.
- **MediaEncodeProofs.** For any number of calls and any inputs. The inductive
  invariant is `TypeOK` and five parts: a call stays in the stages of its own
  table (`OnPlan`), a call past its encode stage has both encoders' tasks ended
  well (`Encoded`), a task that ended well has a whole file (`Written`), a task of
  a call that has not been dropped is one of the stage it is in, or over, and
  likewise the child (`Tended`), and exactly the holder of the lock is in `init`
  and has saved the console (`LockHeld`). `FilesWhole` follows from `Encoded` and
  `Written`, `NothingLeftRunning` from `Tended`, `OutputRestored` from `LockHeld`;
  none of the three is inductive without them. `EveryStepSpends` and `NeverStuck`
  are what the liveness of the component rests on without fairness. Stages,
  children and tasks have ranks, and every step, also one of ffmpeg or the
  deadline, lowers one of one call and raises none: no execution takes infinitely
  many steps. `NeverStuck` says that while anything is not over a step of the
  worker is possible, but for a call that waits for the ffmpeg or ffprobe of a
  video. Its invariant `Order` adds four facts: only encoders are ever silenced
  (`Apart`); the tasks of a stage are spawned together and not before the call is
  there (`Together`), so no call waits for a task nobody spawned; the holder of
  the lock is in `init`, from which a step leads on (`Holder`); a child is killed
  only with its call (`Killed`). `Ready` stands for ENABLED of the union `Worker`,
  which the prover cannot expand: it is its guards written out, and TLC finds the
  two equal in the states of `encode`.

The three abstract specifications took over what used to be single properties:
`EndedStaysEnded` (a job that ended does not run again) is part of the board,
`NothingLost` (an item without a result is in a list) of the store, `CleanStays` (a
finalized row stays) of the gallery. They remain as theorems; the last
two need no assumption on file names, which their refinements do.

Only model-checked: everything under fairness (`VotesReachDatabase`,
`ShutdownEnds`, `JobsLeave`, `UserSeesEnd`, `RunsEnd`, `ItemsAcknowledged`,
`DirtyEnds`, `CallsEnd`, `TasksEnd`): liveness is outside the prover. For
`CallsEnd` and `TasksEnd` the parts that need no fairness are proved
(`EveryStepSpends`, `NeverStuck`). Every other property of the passing runs is
stated by a theorem. No module declares a RECURSIVE operator.

## 5. Hazards

`PROJECT.json` lists the places where this code is hard to test, each with the
properties that watch it or the reason why none does.

## 6. Known divergences

The models show where the code does something its comments, or a neighbouring
part, do not expect. `pipe_names`, `pipe_side` and `frame_pixels` are kept as
runs; the others are described here, with the state the model reaches.

- *Shared names* (`processing.rs:373-379`, `download.rs:36-40`). An image is
  stored under the last part of its url. Another post whose url ends in the same
  name overwrites it, or removes it when it is rejected as a duplicate, and a
  regeneration of one removes the file of both.
- *Shutdown during a flush* (`flush.go:182-189`). Under the cancelled context the
  transaction fails and the SADD that would mark the entity again fails too; the
  final flush finds nothing marked. These entities stay apart until the next vote on
  them. `SavedAtExit` holds for all others: it excepts `cut`.
- *Twins side by side* (`queue.rs:536-600`; run `pipe_side`). An image is compared
  with the finalized ones only, and nothing joins the comparison with the
  finalization: two similar images in work at the same time are both shown.
- *A hung ffmpeg of a video* (`processing.rs:1489`, `1518`, `ffmpeg.rs:59-82`,
  `243-274`) keeps its row dirty, and as a batch ends with its last post, keeps the
  next batch from starting.
- *Preload after a loss of Redis* (`flush.go:64-107`). Scores are seeded, votes
  are not: a user who votes again is counted twice.
- *Cancel against Complete* (`jobs.go:190-221`). `Complete` and `Fail` do not look
  at the status; a cancellation between the last look at the context and
  `Complete` is overwritten. `EndedStaysEnded`, and with it `ImplementsBoard`, is
  what holds.
- *The admin's stream* (`jobs.go:457-467`, `jobs_handlers.go:35-65`) writes the list
  it receives. Two broadcasts may be sent in the opposite order of their lists,
  so the last one shown can be the older. `UserStreamCurrent` holds because a
  user's stream lists for itself.
- *Regeneration counts an item twice* (`admin.go:590-603`): a poll between INCR and
  the message charges the item to `failed`, then the message counts it again,
  and the loop ends early. A crash between INCR and LREM counts it twice too
  (`queue.rs:1269-1335`, `948-953`). The heartbeat described in `queue.rs:41-46` is
  not implemented, and a handler that gives up after ten minutes completes its
  job as done.
- *One post per user* (`post.go:314-332`): look and insert are two statements.
- *An interrupted video* (`processing.rs:1466-1481`): the upload is moved before
  anything else, so after a crash the post is given up and the video stays.
- *The upload dialog* (`UploadModal.jsx:150-187`, `queue.go:228-276`) polls on when
  the post's row was deleted, because the status request fails before it looks at
  the duplicate notice.
- *Odd widths* (`processing.rs:440-446`, `515-517`; run `frame_pixels`). A 4:2:0
  JPEG of odd width is encoded from planes whose rows are one or two bytes longer
  than the stride says: the picture is sheared. `EvenWidthsInPlace` is what holds.
- *Temporary JPEGs* (`processing.rs:693-695`, `780-782`) are removed on the way of
  success only: when the decode (341-343) or an encoder (690-691) fails, or ffmpeg
  fails or is killed after it began to write (`ffmpeg.rs:222-237`), the JPEG stays
  in `tmp/thumbnails`, although `processing.rs:269-270` says that it is cleaned up.
  Of videos likewise (`1510`).
- *Small pictures, and very high ones.* A 4:2:0 JPEG below 64 pixels (or below 64
  after the cuts) is refused by the YUV route, which has no ravif behind it
  (`avif.rs:668`), while a PNG of the same size is encoded. A 4:2:0 JPEG that is
  narrow enough for this route and higher than SVT-AV1 takes (8704 rows,
  `ffmpeg.rs:52-53`) is refused likewise: the route looks at the width only
  (`processing.rs:409`). `process_image_v_d` fails on a narrow JPEG with other
  chroma, which `process_image` leaves to its fallback.
- *Resize* (`avif.rs:143-155`) squeezes the picture to the aligned height, by up to
  seven rows, where the other branch crops. `compute_scaled_dims` may report two
  rows less than ffmpeg writes.
- *Threads* (`processing.rs:234-240`): the budget is said to stay within the
  processors, but both shares have a minimum of one, and with fewer processors
  than twice the concurrency it does not.
- *Rate*: the worker publishes no rate with its status, so that the time left in
  `queue.go:113` is never computed.

## 7. Not modelled, and why

- *Tags and filter*: `recalcPostFilter` (`api/tag.go:44-53`) reads the filter tags
  and then writes the filter; two requests that overlap may leave the older
  filter. This is all the concurrency the component has.
- *Users, invitations, messages, lists*: single statements or transactions of
  Postgres in one request. What could go wrong is in Postgres' isolation, which
  this repository does not define, or in presentation.
- *Import*: paging through a remote feed with its limits. What it does to posts
  and jobs is in `PostPipeline` (`Imported`) and `JobManager`.
- *Frontend stores*: copies in a browser tab, replaced by the server's state.
- *Queue status*: counters for display, lowered by processed posts and never by
  failed downloads; they decide nothing.
- *Job manager*: `Unsubscribe`, since no path reaches it while a stream lives (the
  stream ends only with its channel, so subscribers of clients that have gone
  pile up, `jobs_handlers.go:97`); and a level that is taken away from a viewer
  while a stream is open (`jobs_handlers.go:88`).
- *Media*: smart crop, perceptual hash and the bytes of a container, which are
  computations without order; descriptor exhaustion in `suppress_stdio_for`, whose
  calls are unchecked (a failed `dup` would leave stdout in `/dev/null`); a full
  disk other than as a failed write; the thumbnails the backend makes in Go.
- *Composition of regeneration and pipeline over one image directory*: the file
  names the two give out are disjoint (UUIDs against uploads' names); the files
  they share are covered from both sides, by `FirstFile` and by `NameOf`.
