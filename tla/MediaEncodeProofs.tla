------------------------- MODULE MediaEncodeProofs -------------------------
(***************************************************************************)
(* Proofs about MediaEncode, for any number of calls and any choice of     *)
(* what they are and get.                                                  *)
(***************************************************************************)
EXTENDS MediaEncode, TLAPS

Late == {"cleanup", "probe", "end"}

\* Every call is in a stage of its own pipeline.
OnPlan == \A c \in Calls : at[c] \in DOMAIN After(input[c]) \cup {"end"}

\* What comes after the encoders comes only after they have all done well,
\* and a call is done when it has reached the end.
Encoded ==
    \A c \in Calls :
        /\ at[c] \in Late =>
              \A t \in StageTasks(input[c], "encode") : task[c][t] = "ok"
        /\ result[c] = "ok" => at[c] = "end"
        /\ at[c] = "end" => result[c] # "running"

\* An encoder that has done well has filled its file.
Written == \A c \in Calls, t \in Encoders : task[c][t] = "ok" => file[c][t] = "whole"

\* Unless it was dropped, a call has tasks and a child only while it runs,
\* and only those of the stage it is in.
Tended ==
    \A c \in Calls :
        /\ result[c] # "dropped" =>
              \A t \in TaskNames :
                  task[c][t] \in Active => result[c] = "running" /\ t \in TasksOf(c)
        /\ child[c] = "running" => result[c] = "running" /\ at[c] \in {"normalize", "extract"}

\* The encoder that is being set up holds the lock and the way back.
LockHeld ==
    /\ lock = Free => stdout = "console"
    /\ \A c \in Calls, t \in Encoders :
          task[c][t] = "init" => lock = <<c, t>> /\ saved[c][t] = "console"

Inv == TypeOK /\ OnPlan /\ Encoded /\ Written /\ Tended /\ LockHeld

---------------------------------------------------------------------------
(* The pipelines *)

LEMMA InputForms ==
    ASSUME NEW i \in Inputs
    PROVE  /\ i.route \in {"image", "regen", "b", "c", "d", "video"}
           /\ i.form \in Forms \cup {"video"}
  BY DEF Inputs

\* What stages a table of stages may have, and where they may lead.
Table(f) ==
    /\ "start" \in DOMAIN f
    /\ DOMAIN f \subseteq Stages \ {"end"}
    /\ \A s \in DOMAIN f : /\ f[s] \in DOMAIN f \cup {"end"}
                           /\ f[s] \in Late => s \in {"encode", "cleanup", "probe"}

LEMMA FastTable == Table(FastStages)
  BY DEF Table, FastStages, Stages, Late

LEMMA FallbackTable ==
    ASSUME NEW i
    PROVE  /\ Table(FallbackStages(i))
           /\ Table([FallbackStages(i) EXCEPT !.start = "read"])
<1>1. LoadStage(i) \in {"normalize", "decode"}
  BY DEF LoadStage
<1>2. Table(FallbackStages(i))
  BY <1>1 DEF Table, FallbackStages, Stages, Late
<1>3. Table([FallbackStages(i) EXCEPT !.start = "read"])
  BY <1>1 DEF Table, FallbackStages, Stages, Late
<1> QED
  BY <1>2, <1>3

LEMMA VariantBTable == ASSUME NEW i PROVE Table(VariantBStages(i))
<1>1. LoadStage(i) \in {"normalize", "decode"}
  BY DEF LoadStage
<1> QED
  BY <1>1 DEF Table, VariantBStages, Stages, Late

LEMMA VideoTable == Table(VideoStages)
  BY DEF Table, VideoStages, Stages, Late

\* Every pipeline goes on until its end, and passes the encoders before it.
LEMMA AfterTable == ASSUME NEW i \in Inputs PROVE Table(After(i))
<1>1. CASE i.route = "image"
  BY <1>1, FastTable, FallbackTable DEF After, ImageStages
<1>2. CASE i.route = "regen"
  BY <1>2, FallbackTable DEF After, RegenStages
<1>3. CASE i.route = "b"
  BY <1>3, VariantBTable DEF After
<1>4. CASE i.route = "c"
  BY <1>4, FallbackTable DEF After, VariantCStages
<1>5. CASE i.route = "d"
  BY <1>5, FastTable, FallbackTable DEF After, VariantDStages, VariantCStages
<1>6. CASE i.route = "video"
  BY <1>6, VideoTable DEF After
<1> QED
  BY InputForms, <1>1, <1>2, <1>3, <1>4, <1>5, <1>6

LEMMA StageTasksType ==
    ASSUME NEW i, NEW s
    PROVE  /\ StageTasks(i, s) \subseteq TaskNames
           /\ StageTasks(i, s) # {} => s \in {"decode", "planes", "small", "prepare", "encode"}
  BY DEF StageTasks, TaskNames, Encoders

\* How a call goes on.
LEMMA AdvanceFacts ==
    ASSUME TypeOK, OnPlan, Encoded, NEW c \in Calls, result[c] = "running", Advance(c)
    PROVE  \E next \in Stages :
              /\ next \in DOMAIN After(input[c]) \cup {"end"}
              /\ next \in Late => at[c] \in {"encode", "cleanup", "probe"}
              /\ at' = [at EXCEPT ![c] = next]
              /\ result' = [result EXCEPT ![c] = IF next = "end" THEN "ok" ELSE "running"]
<1> DEFINE next == After(input[c])[at[c]]
<1>1. input[c] \in Inputs /\ at[c] \in DOMAIN After(input[c])
  BY DEF TypeOK, OnPlan, Encoded
<1>2. Table(After(input[c]))
  BY <1>1, AfterTable
<1>3. /\ next \in DOMAIN After(input[c]) \cup {"end"}
      /\ next \in Late => at[c] \in {"encode", "cleanup", "probe"}
      /\ next \in Stages
  BY <1>1, <1>2 DEF Table, Stages
<1>4. /\ at' = [at EXCEPT ![c] = next]
      /\ result' = [result EXCEPT ![c] = IF next = "end" THEN "ok" ELSE "running"]
  BY DEF Advance
<1> QED
  BY <1>3, <1>4

---------------------------------------------------------------------------
(* The steps of a call *)

\* What a call does to its own entries of at and result when it goes on or
\* fails: the other calls keep theirs.
Moves(c) ==
    \/ \E next \in Stages :
          /\ next \in DOMAIN After(input[c]) \cup {"end"}
          /\ next \in Late => at[c] \in {"encode", "cleanup", "probe"}
          /\ at' = [at EXCEPT ![c] = next]
          /\ result' = [result EXCEPT ![c] = IF next = "end" THEN "ok" ELSE "running"]
    \/ /\ result' = [result EXCEPT ![c] = "failed"]
       /\ UNCHANGED at

LEMMA MovesFacts ==
    ASSUME TypeOK, OnPlan, Encoded, NEW c \in Calls, result[c] = "running",
           Advance(c) \/ Fail(c)
    PROVE  Moves(c)
<1>1. CASE Advance(c)
  BY <1>1, AdvanceFacts, Zenon DEF Moves
<1>2. CASE Fail(c)
  BY <1>2, Zenon DEF Moves, Fail
<1> QED
  BY <1>1, <1>2

\* A call with nothing running that goes on or fails keeps the invariant, if
\* it leaves its tasks alone and its temporary JPEG is all it changes.
LEMMA MoveKeepsInv ==
    ASSUME Inv, NEW c \in Calls, result[c] = "running", Moves(c),
           UNCHANGED <<input, task, fdVars>>,
           child' = child \/ child' = [child EXCEPT ![c] = "killed"],
           file' = file \/ file' = [file EXCEPT ![c]["tmp"] = "none"],
           child'[c] # "running",
           \A t \in TaskNames : task[c][t] \notin Active,
           at[c] = "encode" /\ at'[c] # "encode" =>
               \A t \in StageTasks(input[c], "encode") : task[c][t] = "ok"
    PROVE  Inv'
<1> USE DEF Inv
<1>1. TypeOK'
  <2>1. /\ at' \in [Calls -> Stages]
        /\ result' \in [Calls -> {"running", "ok", "failed", "dropped"}]
    <3>1. at \in [Calls -> Stages] /\ result \in [Calls -> {"running", "ok", "failed", "dropped"}]
      BY DEF TypeOK
    <3>2. CASE \E next \in Stages :
                  /\ at' = [at EXCEPT ![c] = next]
                  /\ result' = [result EXCEPT ![c] = IF next = "end" THEN "ok" ELSE "running"]
      BY <3>1, <3>2
    <3>3. CASE result' = [result EXCEPT ![c] = "failed"] /\ UNCHANGED at
      BY <3>1, <3>3
    <3> QED
      BY <3>2, <3>3 DEF Moves
  <2>2. child' \in [Calls -> {"none", "running", "good", "bad", "killed"}]
    BY DEF TypeOK
  <2>3. file' \in [Calls -> [Files -> {"none", "part", "whole"}]]
    <3>1. file[c] \in [Files -> {"none", "part", "whole"}] /\ file \in [Calls -> [Files -> {"none", "part", "whole"}]]
      BY DEF TypeOK
    <3>2. [file[c] EXCEPT !["tmp"] = "none"] \in [Files -> {"none", "part", "whole"}]
      BY <3>1
    <3>3. file' = file \/ file' = [file EXCEPT ![c] = [file[c] EXCEPT !["tmp"] = "none"]]
      BY <3>1
    <3> QED
      BY <3>1, <3>2, <3>3
  <2> QED
    BY <2>1, <2>2, <2>3 DEF TypeOK, fdVars
<1>2. OnPlan'
  BY DEF TypeOK, OnPlan, Moves
<1>3. Encoded'
  <2> SUFFICES ASSUME NEW d \in Calls
               PROVE  /\ at'[d] \in Late =>
                             \A t \in StageTasks(input[d], "encode") : task[d][t] = "ok"
                      /\ result'[d] = "ok" => at'[d] = "end"
                      /\ at'[d] = "end" => result'[d] # "running"
    BY DEF Encoded
  <2>1. CASE d # c
    BY <2>1 DEF TypeOK, Encoded, Moves
  <2>2. CASE d = c
    BY <2>2 DEF TypeOK, Encoded, Moves, Late
  <2> QED
    BY <2>1, <2>2
<1>4. Written'
  <2>1. file \in [Calls -> [Files -> {"none", "part", "whole"}]]
    BY DEF TypeOK
  <2>2. \A d \in Calls, t \in Encoders : file'[d][t] = file[d][t]
    BY <2>1 DEF Files, Encoders
  <2> QED
    BY <2>2 DEF Written
<1>5. Tended'
  <2> SUFFICES ASSUME NEW d \in Calls
               PROVE  /\ result'[d] # "dropped" =>
                             \A t \in TaskNames :
                                task[d][t] \in Active =>
                                   result'[d] = "running" /\ t \in StageTasks(input[d], at'[d])
                      /\ child'[d] = "running" =>
                             result'[d] = "running" /\ at'[d] \in {"normalize", "extract"}
    BY DEF Tended, TasksOf
  <2>1. CASE d # c
    BY <2>1 DEF TypeOK, Tended, TasksOf, Moves
  <2>2. CASE d = c
    BY <2>2
  <2> QED
    BY <2>1, <2>2
<1>6. LockHeld'
  BY DEF LockHeld, fdVars
<1> QED
  BY <1>1, <1>2, <1>3, <1>4, <1>5, <1>6

\* In a stage without tasks a call has none that run.
LEMMA NoTasks ==
    ASSUME Inv, NEW c \in Calls, result[c] = "running",
           at[c] \notin {"decode", "planes", "small", "prepare", "encode"}
    PROVE  \A t \in TaskNames : task[c][t] \notin Active
<1>1. TasksOf(c) = {}
  BY StageTasksType DEF TasksOf
<1> QED
  BY <1>1 DEF Inv, Tended

LEMMA StartInv == ASSUME Inv, NEW c \in Calls, Start(c) PROVE Inv'
<1>1. Moves(c)
  BY MovesFacts DEF Inv, Start
<1>2. \A t \in TaskNames : task[c][t] \notin Active
  BY NoTasks DEF Start
<1>3. child'[c] # "running"
  BY DEF Start, Inv, Tended
<1> QED
  BY <1>1, <1>2, <1>3, MoveKeepsInv DEF Start

LEMMA ReadInputInv == ASSUME Inv, NEW c \in Calls, ReadInput(c) PROVE Inv'
<1>1. Moves(c)
  BY MovesFacts DEF Inv, ReadInput
<1>2. \A t \in TaskNames : task[c][t] \notin Active
  BY NoTasks DEF ReadInput
<1>3. child'[c] # "running"
  BY DEF ReadInput, Inv, Tended
<1> QED
  BY <1>1, <1>2, <1>3, MoveKeepsInv DEF ReadInput

LEMMA CleanupInv == ASSUME Inv, NEW c \in Calls, Cleanup(c) PROVE Inv'
<1>1. Moves(c)
  BY MovesFacts DEF Inv, Cleanup
<1>2. \A t \in TaskNames : task[c][t] \notin Active
  BY NoTasks DEF Cleanup
<1>3. child'[c] # "running"
  BY DEF Cleanup, Inv, Tended
<1> QED
  BY <1>1, <1>2, <1>3, MoveKeepsInv DEF Cleanup

LEMMA ProbeInv == ASSUME Inv, NEW c \in Calls, Probe(c) PROVE Inv'
<1>1. Moves(c)
  BY MovesFacts DEF Inv, Probe
<1>2. \A t \in TaskNames : task[c][t] \notin Active
  BY NoTasks DEF Probe
<1>3. child'[c] # "running"
  BY DEF Probe, Inv, Tended
<1> QED
  BY <1>1, <1>2, <1>3, MoveKeepsInv DEF Probe

\* tokio::join! has waited for all the tasks there are.
LEMMA JoinInv == ASSUME Inv, NEW c \in Calls, Join(c) PROVE Inv'
<1>1. Moves(c)
  BY MovesFacts DEF Inv, Join
<1>2. \A t \in TaskNames : task[c][t] \notin Active
  BY DEF Join, Inv, Tended, Active, Over
<1>3. child'[c] # "running"
  <2>1. TasksOf(c) # {}
    BY DEF Join
  <2>2. at[c] \notin {"normalize", "extract"}
    BY <2>1, StageTasksType DEF TasksOf
  <2> QED
    BY <2>2 DEF Join, Inv, Tended
<1>4. at[c] = "encode" /\ at'[c] # "encode" =>
          \A t \in StageTasks(input[c], "encode") : task[c][t] = "ok"
  BY DEF Join, Fail, TasksOf
<1> QED
  BY <1>1, <1>2, <1>3, <1>4, MoveKeepsInv DEF Join

LEMMA CollectInv == ASSUME Inv, NEW c \in Calls, Collect(c) PROVE Inv'
<1>1. Moves(c)
  BY MovesFacts DEF Inv, Collect
<1>2. \A t \in TaskNames : task[c][t] \notin Active
  BY NoTasks DEF Collect
<1>3. child'[c] # "running"
  BY DEF Collect
<1> QED
  BY <1>1, <1>2, <1>3, MoveKeepsInv DEF Collect

LEMMA TimeoutInv == ASSUME Inv, NEW c \in Calls, Timeout(c) PROVE Inv'
<1>1. Moves(c)
  BY MovesFacts DEF Inv, Timeout
<1>2. \A t \in TaskNames : task[c][t] \notin Active
  BY NoTasks DEF Timeout
<1>3. /\ child'[c] # "running"
      /\ child' = child \/ child' = [child EXCEPT ![c] = "killed"]
  BY DEF Timeout, Inv, TypeOK
<1> QED
  BY <1>1, <1>2, <1>3, MoveKeepsInv DEF Timeout

LEMMA LaunchInv == ASSUME Inv, NEW c \in Calls, Launch(c) PROVE Inv'
<1>1. CASE Fail(c) /\ UNCHANGED child
  <2>1. Moves(c)
    BY <1>1, MovesFacts DEF Inv, Launch
  <2>2. \A t \in TaskNames : task[c][t] \notin Active
    BY NoTasks DEF Launch
  <2>3. child'[c] # "running"
    BY <1>1 DEF Launch
  <2> QED
    BY <1>1, <2>1, <2>2, <2>3, MoveKeepsInv DEF Launch
<1>2. CASE child' = [child EXCEPT ![c] = "running"] /\ UNCHANGED <<at, result>>
  <2>1. TypeOK'
    BY <1>2 DEF Launch, Inv, TypeOK, fdVars
  <2>2. OnPlan' /\ Encoded' /\ Written' /\ LockHeld'
    BY <1>2 DEF Launch, Inv, OnPlan, Encoded, Written, LockHeld, fdVars
  <2>3. Tended'
    BY <1>2 DEF Launch, Inv, Tended, TypeOK, TasksOf
  <2> QED
    BY <2>1, <2>2, <2>3 DEF Inv
<1> QED
  BY <1>1, <1>2 DEF Launch

LEMMA SpawnInv == ASSUME Inv, NEW c \in Calls, Spawn(c) PROVE Inv'
<1> DEFINE new == [t \in TaskNames |-> IF t \in TasksOf(c) THEN "queued" ELSE task[c][t]]
<1>1. /\ task' = [task EXCEPT ![c] = new]
      /\ \A t \in TasksOf(c) : task[c][t] = "none"
      /\ UNCHANGED <<input, at, result, child, file, fdVars>>
      /\ result[c] = "running" /\ TasksOf(c) # {}
  BY DEF Spawn
<1>2. task \in [Calls -> [TaskNames -> {"none"} \cup Active \cup Over]]
  BY DEF Inv, TypeOK
<1>3. new \in [TaskNames -> {"none"} \cup Active \cup Over]
  BY <1>2 DEF Active
<1>4. task'[c] = new /\ \A d \in Calls : d # c => task'[d] = task[d]
  BY <1>1, <1>2
<1>5. \A t \in TaskNames : \/ task'[c][t] = task[c][t]
                           \/ t \in TasksOf(c) /\ task[c][t] = "none" /\ task'[c][t] = "queued"
  BY <1>1, <1>4
<1> HIDE DEF new
<1>6. TypeOK'
  BY <1>1, <1>2, <1>3 DEF Inv, TypeOK, fdVars
<1>7. OnPlan'
  BY <1>1 DEF Inv, OnPlan
<1>8. Encoded'
  <2> SUFFICES ASSUME NEW d \in Calls, at[d] \in Late, NEW t \in StageTasks(input[d], "encode")
               PROVE  task'[d][t] = "ok"
    BY <1>1 DEF Inv, Encoded
  <2>1. t \in TaskNames /\ task[d][t] = "ok"
    BY StageTasksType DEF Inv, Encoded
  <2> QED
    BY <1>4, <1>5, <2>1
<1>9. Written'
  <2> SUFFICES ASSUME NEW d \in Calls, NEW t \in Encoders, task'[d][t] = "ok"
               PROVE  file[d][t] = "whole"
    BY <1>1 DEF Written
  <2>1. t \in TaskNames
    BY DEF TaskNames
  <2>2. task[d][t] = "ok"
    BY <1>4, <1>5, <2>1
  <2> QED
    BY <2>2 DEF Inv, Written
<1>10. Tended'
  <2> SUFFICES ASSUME NEW d \in Calls, result[d] # "dropped", NEW t \in TaskNames,
                      task'[d][t] \in Active
               PROVE  result[d] = "running" /\ t \in TasksOf(d)
    BY <1>1 DEF Inv, Tended, TasksOf
  <2> QED
    BY <1>1, <1>4, <1>5 DEF Inv, Tended
<1>11. LockHeld'
  <2>1. \A d \in Calls, t \in Encoders : task'[d][t] = "init" => task[d][t] = "init"
    <3> SUFFICES ASSUME NEW d \in Calls, NEW t \in Encoders, task'[d][t] = "init"
                 PROVE  task[d][t] = "init"
      OBVIOUS
    <3>1. t \in TaskNames
      BY DEF TaskNames
    <3> QED
      BY <1>4, <1>5, <3>1
  <2> QED
    BY <1>1, <2>1 DEF Inv, LockHeld, fdVars
<1> QED
  BY <1>6, <1>7, <1>8, <1>9, <1>10, <1>11 DEF Inv

LEMMA DeadlineInv == ASSUME Inv, NEW c \in Calls, Deadline(c) PROVE Inv'
<1>1. /\ result' = [result EXCEPT ![c] = "dropped"]
      /\ child' = [child EXCEPT ![c] = IF @ = "running" THEN "killed" ELSE @]
      /\ UNCHANGED <<input, at, task, file, fdVars>>
  BY DEF Deadline
<1>2. TypeOK'
  BY <1>1 DEF Inv, TypeOK, fdVars
<1>3. OnPlan' /\ Written' /\ LockHeld'
  BY <1>1 DEF Inv, OnPlan, Written, LockHeld, fdVars
<1>4. Encoded'
  BY <1>1 DEF Inv, TypeOK, Encoded
<1>5. Tended'
  BY <1>1 DEF Inv, TypeOK, Tended, TasksOf
<1> QED
  BY <1>2, <1>3, <1>4, <1>5 DEF Inv

---------------------------------------------------------------------------
(* The steps of ffmpeg *)

LEMMA TmpWritten ==
    ASSUME NEW f \in [Calls -> [Files -> {"none", "part", "whole"}]], NEW c \in Calls,
           NEW v \in {"none", "part", "whole"}, NEW g,
           g = [f EXCEPT ![c]["tmp"] = v]
    PROVE  /\ g \in [Calls -> [Files -> {"none", "part", "whole"}]]
           /\ \A d \in Calls, t \in Encoders : g[d][t] = f[d][t]
<1>1. f[c] \in [Files -> {"none", "part", "whole"}]
  OBVIOUS
<1>2. [f[c] EXCEPT !["tmp"] = v] \in [Files -> {"none", "part", "whole"}]
  BY <1>1
<1>3. g = [f EXCEPT ![c] = [f[c] EXCEPT !["tmp"] = v]]
  OBVIOUS
<1>4. g \in [Calls -> [Files -> {"none", "part", "whole"}]]
  BY <1>2, <1>3
<1>5. \A t \in Encoders : t \in Files /\ t # "tmp"
  BY DEF Encoders, Files
<1> QED
  BY <1>3, <1>4, <1>5

LEMMA ChildWritesInv == ASSUME Inv, NEW c \in Calls, ChildWrites(c) PROVE Inv'
<1>1. /\ file' = [file EXCEPT ![c]["tmp"] = "part"]
      /\ UNCHANGED <<input, at, result, task, child, fdVars>>
      /\ file \in [Calls -> [Files -> {"none", "part", "whole"}]]
  BY DEF ChildWrites, Inv, TypeOK
<1>2. file' \in [Calls -> [Files -> {"none", "part", "whole"}]]
  BY <1>1, TmpWritten
<1>3. \A d \in Calls, t \in Encoders : file'[d][t] = file[d][t]
  BY <1>1, TmpWritten
<1>4. TypeOK' /\ OnPlan' /\ Encoded' /\ Tended' /\ LockHeld'
  BY <1>1, <1>2 DEF Inv, TypeOK, OnPlan, Encoded, Tended, LockHeld, TasksOf, fdVars
<1>5. Written'
  BY <1>1, <1>3 DEF Inv, Written
<1> QED
  BY <1>4, <1>5 DEF Inv

LEMMA ChildExitsInv == ASSUME Inv, NEW c \in Calls, ChildExits(c) PROVE Inv'
<1>1. /\ child' = [child EXCEPT ![c] = "good"] \/ child' = [child EXCEPT ![c] = "bad"]
      /\ \/ \E v \in {"none", "part", "whole"} : file' = [file EXCEPT ![c]["tmp"] = v]
         \/ UNCHANGED file
      /\ UNCHANGED <<input, at, result, task, fdVars>>
  <2>1. CASE child' = [child EXCEPT ![c] = "bad"] /\ UNCHANGED file
    BY <2>1 DEF ChildExits
  <2>2. CASE /\ child' = [child EXCEPT ![c] = "good"]
             /\ file' = [file EXCEPT ![c]["tmp"] = IF @ = "part" THEN "whole" ELSE @]
    <3> DEFINE v == IF file[c]["tmp"] = "part" THEN "whole" ELSE file[c]["tmp"]
    <3>1. v \in {"none", "part", "whole"}
      BY DEF Inv, TypeOK, Files
    <3>2. file' = [file EXCEPT ![c]["tmp"] = v]
      BY <2>2
    <3> QED
      BY <2>2, <3>1, <3>2 DEF ChildExits
  <2> QED
    BY <2>1, <2>2 DEF ChildExits
<1>2. /\ file \in [Calls -> [Files -> {"none", "part", "whole"}]]
      /\ child \in [Calls -> {"none", "running", "good", "bad", "killed"}]
  BY DEF Inv, TypeOK
<1>3. /\ file' \in [Calls -> [Files -> {"none", "part", "whole"}]]
      /\ \A d \in Calls, t \in Encoders : file'[d][t] = file[d][t]
  <2>1. CASE UNCHANGED file
    BY <1>2, <2>1
  <2>2. CASE \E v \in {"none", "part", "whole"} : file' = [file EXCEPT ![c]["tmp"] = v]
    <3>1. PICK v \in {"none", "part", "whole"} : file' = [file EXCEPT ![c]["tmp"] = v]
      BY <2>2
    <3>2. [file[c] EXCEPT !["tmp"] = v] \in [Files -> {"none", "part", "whole"}]
      BY <1>2
    <3>3. file' = [file EXCEPT ![c] = [file[c] EXCEPT !["tmp"] = v]]
      BY <3>1
    <3>4. \A t \in Encoders : t \in Files /\ t # "tmp"
      BY DEF Encoders, Files
    <3>5. file' \in [Calls -> [Files -> {"none", "part", "whole"}]]
      BY <1>2, <3>2, <3>3
    <3>6. \A d \in Calls, t \in Encoders : file'[d][t] = file[d][t]
      BY <1>2, <3>3, <3>4
    <3> QED
      BY <3>5, <3>6
  <2> QED
    BY <1>1, <2>1, <2>2
<1>4. child' \in [Calls -> {"none", "running", "good", "bad", "killed"}]
  BY <1>1, <1>2
<1>5. TypeOK' /\ OnPlan' /\ Encoded' /\ LockHeld'
  BY <1>1, <1>3, <1>4 DEF Inv, TypeOK, OnPlan, Encoded, LockHeld, fdVars
<1>6. Tended'
  BY <1>1, <1>2 DEF Inv, Tended, TasksOf
<1>7. Written'
  BY <1>1, <1>3 DEF Inv, Written
<1> QED
  BY <1>5, <1>6, <1>7 DEF Inv

---------------------------------------------------------------------------
(* The steps of the tasks *)

\* A task that has not ended takes a step of its own.
TaskMoves(c, t, s) ==
    /\ task[c][t] \in Active
    /\ SetTask(c, t, s)
    /\ UNCHANGED <<input, at, result, child>>

LEMMA TaskMoveFacts ==
    ASSUME Inv, NEW c \in Calls, NEW t \in TaskNames, NEW s \in Active \cup Over,
           TaskMoves(c, t, s)
    PROVE  /\ task' \in [Calls -> [TaskNames -> {"none"} \cup Active \cup Over]]
           /\ task'[c][t] = s
           /\ \A d \in Calls, u \in TaskNames :
                 d # c \/ u # t => task'[d][u] = task[d][u]
           /\ OnPlan' /\ Encoded' /\ Tended'
<1>1. /\ task \in [Calls -> [TaskNames -> {"none"} \cup Active \cup Over]]
      /\ task' = [task EXCEPT ![c][t] = s]
      /\ UNCHANGED <<input, at, result, child>>
  BY DEF Inv, TypeOK, TaskMoves, SetTask
<1>2. /\ task' \in [Calls -> [TaskNames -> {"none"} \cup Active \cup Over]]
      /\ task'[c][t] = s
      /\ \A d \in Calls, u \in TaskNames : d # c \/ u # t => task'[d][u] = task[d][u]
  BY <1>1
<1>3. OnPlan'
  BY <1>1 DEF Inv, OnPlan
<1>4. Encoded'
  <2> SUFFICES ASSUME NEW d \in Calls, at[d] \in Late, NEW u \in StageTasks(input[d], "encode")
               PROVE  task'[d][u] = "ok"
    BY <1>1 DEF Inv, Encoded
  <2>1. u \in TaskNames /\ task[d][u] = "ok"
    BY StageTasksType DEF Inv, Encoded
  <2>2. ~(d = c /\ u = t)
    BY <2>1 DEF TaskMoves, Active
  <2> QED
    BY <1>2, <2>1, <2>2
<1>5. Tended'
  <2> SUFFICES ASSUME NEW d \in Calls, result[d] # "dropped", NEW u \in TaskNames,
                      task'[d][u] \in Active
               PROVE  result[d] = "running" /\ u \in TasksOf(d)
    BY <1>1 DEF Inv, Tended, TasksOf
  <2>1. task[d][u] \in Active
    BY <1>2 DEF TaskMoves
  <2> QED
    BY <2>1 DEF Inv, Tended
<1> QED
  BY <1>2, <1>3, <1>4, <1>5

\* A task that leaves the descriptors alone, and writes no other file than its own.
LEMMA QuietTaskInv ==
    ASSUME Inv, NEW c \in Calls, NEW t \in TaskNames, NEW s \in Active \cup Over,
           TaskMoves(c, t, s), UNCHANGED fdVars, s # "init",
           \/ UNCHANGED file /\ (t \in Encoders => s # "ok")
           \/ /\ t \in Encoders
              /\ \E v \in {"none", "part", "whole"} :
                    /\ file' = [file EXCEPT ![c][t] = v]
                    /\ s = "ok" => v = "whole"
    PROVE  Inv'
<1>1. /\ task' \in [Calls -> [TaskNames -> {"none"} \cup Active \cup Over]]
      /\ task'[c][t] = s
      /\ \A d \in Calls, u \in TaskNames : d # c \/ u # t => task'[d][u] = task[d][u]
      /\ OnPlan' /\ Encoded' /\ Tended'
  BY TaskMoveFacts, Zenon
<1>2. file \in [Calls -> [Files -> {"none", "part", "whole"}]]
  BY DEF Inv, TypeOK
<1>3. Encoders \subseteq TaskNames /\ Encoders \subseteq Files
  BY DEF TaskNames, Files
<1>4. file' \in [Calls -> [Files -> {"none", "part", "whole"}]]
  BY <1>2, <1>3
<1>5. \A d \in Calls, u \in Encoders : d # c \/ u # t => file'[d][u] = file[d][u]
  BY <1>2, <1>3
<1>6. t \in Encoders /\ s = "ok" => file'[c][t] = "whole"
  BY <1>2, <1>3
<1>7. TypeOK'
  BY <1>1, <1>4 DEF Inv, TypeOK, TaskMoves, fdVars
<1>8. Written'
  <2> SUFFICES ASSUME NEW d \in Calls, NEW u \in Encoders, task'[d][u] = "ok"
               PROVE  file'[d][u] = "whole"
    BY DEF Written
  <2>1. CASE d = c /\ u = t
    BY <1>1, <1>6, <2>1
  <2>2. CASE d # c \/ u # t
    BY <1>1, <1>3, <1>5, <2>2 DEF Inv, Written
  <2> QED
    BY <2>1, <2>2
<1>9. LockHeld'
  BY <1>1, <1>3 DEF Inv, LockHeld, fdVars
<1> QED
  BY <1>1, <1>7, <1>8, <1>9 DEF Inv

LEMMA RunInv == ASSUME Inv, NEW c \in Calls, NEW t \in TaskNames, Run(c, t) PROVE Inv'
<1>1. TaskMoves(c, t, "running") /\ UNCHANGED <<file, fdVars>>
  BY DEF Run, TaskMoves, Active
<1> QED
  BY <1>1, QuietTaskInv DEF Active, fdVars

LEMMA ComputeInv ==
    ASSUME Inv, NEW c \in Calls, NEW t \in TaskNames \ Encoders, Compute(c, t)
    PROVE  Inv'
<1>1. /\ \E s \in {"ok", "retry", "failed"} : TaskMoves(c, t, s)
      /\ UNCHANGED <<file, fdVars>>
  BY DEF Compute, TaskMoves, Active
<1> QED
  BY <1>1, QuietTaskInv DEF Active, Over, fdVars

LEMMA EncoderIsTask == ASSUME NEW t \in Encoders PROVE t \in TaskNames
  BY DEF TaskNames

LEMMA PrepareInv == ASSUME Inv, NEW c \in Calls, NEW t \in Encoders, Prepare(c, t) PROVE Inv'
<1>1. /\ \E s \in {"ravif", "failed"} : TaskMoves(c, t, s)
      /\ UNCHANGED <<file, fdVars>>
  BY DEF Prepare, TaskMoves, Active
<1> QED
  BY <1>1, EncoderIsTask, QuietTaskInv DEF Active, Over, fdVars

\* Where SVT-AV1 is given up, the file is removed and ravif goes on, or the
\* task fails.
LEMMA RefusedFacts ==
    ASSUME NEW c \in Calls, NEW t \in Encoders, Refused(c, t)
    PROVE  \/ SetTask(c, t, "ravif") /\ file' = [file EXCEPT ![c][t] = "none"]
           \/ SetTask(c, t, "failed") /\ UNCHANGED file
  BY DEF Refused

LEMMA EncodeFailsInv ==
    ASSUME Inv, NEW c \in Calls, NEW t \in Encoders, EncodeFails(c, t) PROVE Inv'
<1>1. /\ \E s \in {"ravif", "failed"} : TaskMoves(c, t, s)
      /\ UNCHANGED fdVars
      /\ UNCHANGED file \/ file' = [file EXCEPT ![c][t] = "none"]
  BY RefusedFacts DEF EncodeFails, TaskMoves, Active
<1> QED
  BY <1>1, EncoderIsTask, QuietTaskInv DEF Active, Over

LEMMA RavifFailsInv ==
    ASSUME Inv, NEW c \in Calls, NEW t \in Encoders, RavifFails(c, t) PROVE Inv'
<1>1. TaskMoves(c, t, "failed") /\ UNCHANGED <<file, fdVars>>
  BY DEF RavifFails, TaskMoves, Active
<1> QED
  BY <1>1, EncoderIsTask, QuietTaskInv DEF Over, fdVars

LEMMA WriteInv == ASSUME Inv, NEW c \in Calls, NEW t \in Encoders, Write(c, t) PROVE Inv'
<1>1. /\ \E s \in {"writing", "failed"} : TaskMoves(c, t, s)
      /\ UNCHANGED fdVars
      /\ UNCHANGED file \/ file' = [file EXCEPT ![c][t] = "part"]
  BY DEF Write, TaskMoves, Active
<1> QED
  BY <1>1, EncoderIsTask, QuietTaskInv DEF Active, Over

LEMMA WriteEndsInv ==
    ASSUME Inv, NEW c \in Calls, NEW t \in Encoders, WriteEnds(c, t) PROVE Inv'
<1>1. CASE SetTask(c, t, "ok") /\ file' = [file EXCEPT ![c][t] = "whole"]
  <2>1. TaskMoves(c, t, "ok") /\ UNCHANGED fdVars
    BY <1>1 DEF WriteEnds, TaskMoves, Active
  <2> QED
    BY <1>1, <2>1, EncoderIsTask, QuietTaskInv DEF Over
<1>2. CASE SetTask(c, t, "failed") /\ UNCHANGED file
  <2>1. TaskMoves(c, t, "failed") /\ UNCHANGED fdVars
    BY <1>2 DEF WriteEnds, TaskMoves, Active
  <2> QED
    BY <1>2, <2>1, EncoderIsTask, QuietTaskInv DEF Over
<1> QED
  BY <1>1, <1>2 DEF WriteEnds

\* The lock keeps all other encoders out, so what is saved is the console.
LEMMA SilenceInv == ASSUME Inv, NEW c \in Calls, NEW t \in Encoders, Silence(c, t) PROVE Inv'
<1>1. /\ TaskMoves(c, t, "init") /\ UNCHANGED file
      /\ lock = Free /\ lock' = <<c, t>> /\ stdout' = "null"
      /\ saved' = [saved EXCEPT ![c][t] = stdout]
  BY DEF Silence, TaskMoves, Active
<1>2. /\ task' \in [Calls -> [TaskNames -> {"none"} \cup Active \cup Over]]
      /\ task'[c][t] = "init"
      /\ \A d \in Calls, u \in TaskNames : d # c \/ u # t => task'[d][u] = task[d][u]
      /\ OnPlan' /\ Encoded' /\ Tended'
  <2>1. "init" \in Active \cup Over
    BY DEF Active
  <2> QED
    BY <1>1, <2>1, EncoderIsTask, TaskMoveFacts, Zenon
<1>3. stdout = "console" /\ saved \in [Calls -> [Encoders -> {"none", "console", "null"}]]
  BY <1>1 DEF Inv, LockHeld, TypeOK
<1>4. /\ saved' \in [Calls -> [Encoders -> {"none", "console", "null"}]]
      /\ saved'[c][t] = "console"
  BY <1>1, <1>3
<1>5. TypeOK'
  BY <1>1, <1>2, <1>4 DEF Inv, TypeOK, TaskMoves
<1>6. Written'
  BY <1>1, <1>2, EncoderIsTask DEF Inv, Written
<1>7. \A d \in Calls, u \in Encoders : task[d][u] # "init"
  BY <1>1 DEF Inv, LockHeld, Free, Encoders
<1>8. lock' # Free
  BY <1>1 DEF Free, Encoders
<1>9. LockHeld'
  BY <1>1, <1>2, <1>4, <1>7, <1>8, EncoderIsTask DEF LockHeld
<1> QED
  BY <1>2, <1>5, <1>6, <1>9 DEF Inv

LEMMA RestoreInv == ASSUME Inv, NEW c \in Calls, NEW t \in Encoders, Restore(c, t) PROVE Inv'
<1>1. /\ \E s \in {"svt", "ravif", "failed"} : TaskMoves(c, t, s)
      /\ task[c][t] = "init" /\ lock' = Free
      /\ stdout' = saved[c][t] /\ UNCHANGED saved
      /\ UNCHANGED file \/ file' = [file EXCEPT ![c][t] = "none"]
  BY RefusedFacts DEF Restore, TaskMoves, Active
<1>2. PICK s \in {"svt", "ravif", "failed"} : TaskMoves(c, t, s)
  BY <1>1
<1>3. /\ task' \in [Calls -> [TaskNames -> {"none"} \cup Active \cup Over]]
      /\ task'[c][t] = s
      /\ \A d \in Calls, u \in TaskNames : d # c \/ u # t => task'[d][u] = task[d][u]
      /\ OnPlan' /\ Encoded' /\ Tended'
  <2>1. s \in Active \cup Over
    BY DEF Active, Over
  <2> QED
    BY <1>2, <2>1, EncoderIsTask, TaskMoveFacts, Zenon
<1>4. lock = <<c, t>> /\ stdout' = "console"
  BY <1>1 DEF Inv, LockHeld
<1>5. /\ file' \in [Calls -> [Files -> {"none", "part", "whole"}]]
      /\ \A d \in Calls, u \in Encoders : d # c \/ u # t => file'[d][u] = file[d][u]
  <2>1. file \in [Calls -> [Files -> {"none", "part", "whole"}]] /\ Encoders \subseteq Files
    BY DEF Inv, TypeOK, Files
  <2>2. CASE UNCHANGED file
    BY <2>1, <2>2
  <2>3. CASE file' = [file EXCEPT ![c][t] = "none"]
    BY <2>1, <2>3
  <2> QED
    BY <1>1, <2>2, <2>3
<1>6. TypeOK'
  BY <1>1, <1>2, <1>3, <1>4, <1>5 DEF Inv, TypeOK, TaskMoves
<1>7. Written'
  BY <1>3, <1>5, EncoderIsTask DEF Inv, Written
<1>8. \A d \in Calls, u \in Encoders : task'[d][u] # "init"
  <2> SUFFICES ASSUME NEW d \in Calls, NEW u \in Encoders, d # c \/ u # t
               PROVE  task[d][u] # "init"
    BY <1>2, <1>3, EncoderIsTask
  <2> QED
    BY <1>4 DEF Inv, LockHeld
<1>9. LockHeld'
  BY <1>4, <1>8 DEF LockHeld
<1> QED
  BY <1>3, <1>6, <1>7, <1>9 DEF Inv

---------------------------------------------------------------------------
(* The theorems *)

LEMMA InitInv == ASSUME Init PROVE Inv
<1>1. input \in [Calls -> Inputs]
  BY MediaAssumption DEF Init
<1>2. \A c \in Calls : "start" \in DOMAIN After(input[c])
  BY <1>1, AfterTable DEF Table
<1>3. TypeOK
  BY <1>1 DEF Init, TypeOK, Stages
<1>4. OnPlan /\ Encoded
  BY <1>2 DEF Init, OnPlan, Encoded, Late
<1>5. \A c \in Calls, t \in TaskNames : task[c][t] = "none"
  BY DEF Init
<1>6. Written /\ Tended
  BY <1>5, EncoderIsTask DEF Init, Written, Tended, Active
<1>7. LockHeld
  BY <1>5, EncoderIsTask DEF Init, LockHeld
<1> QED
  BY <1>3, <1>4, <1>6, <1>7 DEF Inv

LEMMA NextInv == ASSUME Inv, [Next]_vars PROVE Inv'
<1>1. CASE Worker
  <2>1. PICK c \in Calls :
            \/ CallStep(c)
            \/ \E t \in TaskNames : Run(c, t)
            \/ \E t \in TaskNames \ Encoders : Compute(c, t)
            \/ \E t \in Encoders : EncoderStep(c, t)
    BY <1>1 DEF Worker
  <2>2. CASE CallStep(c)
    BY <2>2, StartInv, ReadInputInv, CleanupInv, SpawnInv, JoinInv, LaunchInv,
       CollectInv, TimeoutInv, Zenon DEF CallStep
  <2>3. CASE \E t \in TaskNames : Run(c, t)
    BY <2>3, RunInv, Zenon
  <2>4. CASE \E t \in TaskNames \ Encoders : Compute(c, t)
    BY <2>4, ComputeInv, Zenon
  <2>5. CASE \E t \in Encoders : EncoderStep(c, t)
    BY <2>5, PrepareInv, SilenceInv, RestoreInv, EncodeFailsInv, RavifFailsInv, WriteInv,
       WriteEndsInv, Zenon DEF EncoderStep
  <2> QED
    BY <2>1, <2>2, <2>3, <2>4, <2>5
<1>2. CASE Outside
  BY <1>2, ChildWritesInv, ChildExitsInv, ProbeInv, DeadlineInv, Zenon DEF Outside
<1>3. CASE UNCHANGED vars
  BY <1>3 DEF vars, fdVars, Inv, TypeOK, OnPlan, Encoded, Written, Tended, TasksOf, LockHeld
<1> QED
  BY <1>1, <1>2, <1>3 DEF Next

LEMMA MediaSafe == Spec => []Inv
<1>1. Init => Inv
  BY InitInv
<1>2. Inv /\ [Next]_vars => Inv'
  BY NextInv
<1> QED
  BY <1>1, <1>2, PTL DEF Spec

(* Types are right: every call stays in a stage of its own pipeline.        *)
THEOREM MediaTypeCorrect == Spec => []TypeOK
<1>1. Inv => TypeOK
  BY DEF Inv
<1> QED
  BY <1>1, MediaSafe, PTL

(* A pipeline that answers with file names has written them to their end.   *)
THEOREM FilesAlwaysWhole == Spec => []FilesWhole
<1>1. Inv => FilesWhole
  <2> SUFFICES ASSUME Inv, NEW c \in Calls, result[c] = "ok",
                      NEW t \in StageTasks(input[c], "encode")
               PROVE  file[c][t] = "whole"
    BY DEF FilesWhole
  <2>1. task[c][t] = "ok"
    BY DEF Inv, Encoded, Late
  <2>2. t \in Encoders
    BY DEF StageTasks, Encoders
  <2> QED
    BY <2>1, <2>2 DEF Inv, Written
<1> QED
  BY <1>1, MediaSafe, PTL

(* A pipeline that has answered has no task and no ffmpeg running.          *)
THEOREM NothingIsLeftRunning == Spec => []NothingLeftRunning
<1>1. Inv => NothingLeftRunning
  BY DEF Inv, Tended, NothingLeftRunning
<1> QED
  BY <1>1, MediaSafe, PTL

(* Whenever no encoder is being set up, stdout is the console again.        *)
THEOREM OutputAlwaysRestored == Spec => []OutputRestored
<1>1. Inv => OutputRestored
  BY DEF Inv, LockHeld, OutputRestored
<1> QED
  BY <1>1, MediaSafe, PTL
---------------------------------------------------------------------------
(* Termination, up to fairness: every step uses up something there is only  *)
(* a finite amount of, and until all is done a step of the worker is        *)
(* possible.                                                                *)

\* The longest way from a stage, and from a state of a task, to its end.
StageRank == [start |-> 10, read |-> 9, move |-> 9, normalize |-> 8, extract |-> 8, decode |-> 7,
              planes |-> 6, small |-> 6, prepare |-> 5, encode |-> 4, cleanup |-> 3, probe |-> 2,
              end |-> 0]
TaskRank == [none |-> 8, queued |-> 7, running |-> 6, retry |-> 5, init |-> 5, svt |-> 4,
             ravif |-> 3, writing |-> 2, ok |-> 0, failed |-> 0]

\* What a call, its child and each of its tasks still have before them.
StagesLeft(c) == IF result[c] = "running" THEN StageRank[at[c]] ELSE 0
ChildLeft(c) == CASE child[c] = "none"    -> 3
                  [] child[c] = "running" -> (IF file[c]["tmp"] = "none" THEN 2 ELSE 1)
                  [] OTHER                -> 0
TaskLeft(c, t) == TaskRank[task[c][t]]

Spends(c) ==
    /\ StagesLeft(c)' <= StagesLeft(c)
    /\ ChildLeft(c)' <= ChildLeft(c)
    /\ \A t \in TaskNames : TaskLeft(c, t)' <= TaskLeft(c, t)
    /\ \/ StagesLeft(c)' < StagesLeft(c)
       \/ ChildLeft(c)' < ChildLeft(c)
       \/ \E t \in TaskNames : TaskLeft(c, t)' < TaskLeft(c, t)

Keeps(c) ==
    /\ StagesLeft(c)' = StagesLeft(c)
    /\ ChildLeft(c)' = ChildLeft(c)
    /\ \A t \in TaskNames : TaskLeft(c, t)' = TaskLeft(c, t)

OneSpends == \E c \in Calls : Spends(c) /\ \A d \in Calls \ {c} : Keeps(d)

\* A step of the worker is possible: the guards of its actions.
CallReady(c) ==
    /\ result[c] = "running"
    /\ \/ at[c] \in {"start", "read", "move", "cleanup"}
       \/ /\ TasksOf(c) # {}
          /\ \/ \A t \in TasksOf(c) : task[c][t] = "none"
             \/ \A t \in TasksOf(c) : task[c][t] \in Over
       \/ at[c] \in {"normalize", "extract"} /\ child[c] \in {"none", "good", "bad"}
       \/ at[c] = "normalize" /\ child[c] = "running"

TaskReady(c, t) ==
    \/ task[c][t] = "queued"
    \/ t \notin Encoders /\ task[c][t] \in {"running", "retry"}
    \/ t \in Encoders /\ task[c][t] \in {"init", "svt", "ravif", "writing"}
    \/ t \in Encoders /\ task[c][t] = "running" /\ (lock = Free \/ HasRavif(c, t))

Ready == \E c \in Calls : CallReady(c) \/ \E t \in TaskNames : TaskReady(c, t)

Unstuck ==
    \A c \in Calls :
        result[c] = "running" \/ (\E t \in TaskNames : task[c][t] \in Active)
            => Ready \/ (at[c] = "extract" /\ child[c] = "running") \/ at[c] = "probe"

\* The stage that spawns a task.
StageOf == [decode |-> "decode", planes |-> "planes", rgb |-> "planes", small |-> "small",
            prepare |-> "prepare", thumb |-> "encode", full |-> "encode"]

\* Only encoders are silenced, and only decoders try twice.
Apart ==
    \A c \in Calls :
        /\ \A t \in TaskNames \ Encoders : task[c][t] \notin {"init", "svt", "ravif", "writing"}
        /\ \A t \in Encoders : task[c][t] # "retry"

\* The tasks of a stage are spawned together, and when the call is there.
Together ==
    \A c \in Calls :
        /\ \A t, u \in TasksOf(c) : task[c][t] = "none" => task[c][u] = "none"
        /\ \A t \in TaskNames :
              task[c][t] # "none" => StageRank[StageOf[t]] >= StageRank[at[c]]

\* Who holds the lock is being set up, and will give it back.
Holder == \A c \in Calls, t \in Encoders : lock = <<c, t>> => task[c][t] = "init"

\* A child is killed when its call is given up.
Killed == \A c \in Calls : child[c] = "killed" => result[c] # "running"

Order == Apart /\ Together /\ Holder /\ Killed

LEMMA Ranks ==
    /\ \A s \in Stages : /\ StageRank[s] \in Nat
                         /\ s # "end" => StageRank[s] > 0
    /\ \A s \in {"none"} \cup Active \cup Over : TaskRank[s] \in Nat
  BY DEF StageRank, TaskRank, Stages, Active, Over

\* No stage comes twice.
LEMMA AfterDescends ==
    ASSUME NEW i \in Inputs
    PROVE  \A s \in DOMAIN After(i) : StageRank[After(i)[s]] < StageRank[s]
<1> DEFINE Descends(f) == \A s \in DOMAIN f : StageRank[f[s]] < StageRank[s]
<1>1. LoadStage(i) \in {"normalize", "decode"}
  BY DEF LoadStage
<1>2. Descends(FastStages)
  BY DEF FastStages, StageRank
<1>3. Descends(FallbackStages(i))
  BY <1>1 DEF FallbackStages, StageRank
<1>4. Descends([FallbackStages(i) EXCEPT !.start = "read"])
  BY <1>1 DEF FallbackStages, StageRank
<1>5. Descends(VariantBStages(i))
  BY <1>1 DEF VariantBStages, StageRank
<1>6. Descends(VideoStages)
  BY DEF VideoStages, StageRank
<1> HIDE DEF Descends
<1>7. Descends(After(i))
  BY InputForms, <1>2, <1>3, <1>4, <1>5, <1>6
     DEF After, ImageStages, RegenStages, VariantCStages, VariantDStages
<1> QED
  BY <1>7 DEF Descends

LEMMA TaskStage ==
    ASSUME NEW i, NEW s
    PROVE  \A t \in StageTasks(i, s) : t \in TaskNames /\ StageOf[t] = s
  BY DEF StageTasks, TaskNames, Encoders, StageOf

\* A call that goes on comes nearer to its end, one that fails is there.
Nearer(c) ==
    \/ \E next \in Stages :
          /\ StageRank[next] < StageRank[at[c]]
          /\ at' = [at EXCEPT ![c] = next]
          /\ result' = [result EXCEPT ![c] = IF next = "end" THEN "ok" ELSE "running"]
          /\ child' = child
    \/ /\ result' = [result EXCEPT ![c] = "failed"]
       /\ at' = at
       /\ child' = child \/ child' = [child EXCEPT ![c] = "killed"]

LEMMA AdvanceNearer ==
    ASSUME Inv, NEW c \in Calls, result[c] = "running", Advance(c), UNCHANGED child
    PROVE  Nearer(c)
<1> DEFINE next == After(input[c])[at[c]]
<1>1. input[c] \in Inputs /\ at[c] \in DOMAIN After(input[c])
  BY DEF Inv, TypeOK, OnPlan, Encoded
<1>2. next \in Stages /\ StageRank[next] < StageRank[at[c]]
  BY <1>1, AfterTable, AfterDescends DEF Table, Stages
<1>3. /\ at' = [at EXCEPT ![c] = next]
      /\ result' = [result EXCEPT ![c] = IF next = "end" THEN "ok" ELSE "running"]
  BY DEF Advance
<1> QED
  BY <1>2, <1>3 DEF Nearer

\* The steps of a call that goes on or fails.
Moving(c) ==
    /\ result[c] = "running"
    /\ Nearer(c)
    /\ child'[c] # "running"
    /\ \A d \in Calls \ {c} : file'[d]["tmp"] = file[d]["tmp"]
    /\ UNCHANGED <<input, task, fdVars>>

LEMMA MovingSteps ==
    ASSUME Inv, NEW c \in Calls,
           \/ Start(c) \/ ReadInput(c) \/ Cleanup(c) \/ Probe(c) \/ Join(c)
           \/ Collect(c) \/ Timeout(c) \/ (Launch(c) /\ Fail(c) /\ UNCHANGED child)
    PROVE  Moving(c)
<1> USE DEF fdVars
<1>1. child[c] = "running" => at[c] \in {"normalize", "extract"}
  BY DEF Inv, Tended
<1>2. child \in [Calls -> {"none", "running", "good", "bad", "killed"}]
  BY DEF Inv, TypeOK
<1>3. CASE Start(c)
  BY <1>1, <1>3, AdvanceNearer DEF Start, Moving
<1>4. CASE ReadInput(c)
  BY <1>1, <1>4, AdvanceNearer DEF ReadInput, Moving, Fail, Nearer
<1>5. CASE Cleanup(c)
  <2>1. file \in [Calls -> [Files -> {"none", "part", "whole"}]]
    BY DEF Inv, TypeOK
  <2> QED
    BY <1>1, <1>5, <2>1, AdvanceNearer DEF Cleanup, Moving
<1>6. CASE Probe(c)
  BY <1>1, <1>6, AdvanceNearer DEF Probe, Moving
<1>7. CASE Join(c)
  <2>1. at[c] \notin {"normalize", "extract"}
    BY <1>7, StageTasksType DEF Join, TasksOf
  <2> QED
    BY <1>1, <1>7, <2>1, AdvanceNearer DEF Join, Moving, Fail, Nearer
<1>8. CASE Collect(c)
  BY <1>8, AdvanceNearer DEF Collect, Moving, Fail, Nearer
<1>9. CASE Timeout(c)
  BY <1>2, <1>9 DEF Timeout, Moving, Fail, Nearer
<1>10. CASE Launch(c) /\ Fail(c) /\ UNCHANGED child
  BY <1>10 DEF Launch, Moving, Fail, Nearer
<1> QED
  BY <1>3, <1>4, <1>5, <1>6, <1>7, <1>8, <1>9, <1>10
LEMMA KeepsFacts ==
    ASSUME NEW d, at'[d] = at[d], result'[d] = result[d], child'[d] = child[d],
           child[d] = "running" => file'[d]["tmp"] = file[d]["tmp"],
           \A t \in TaskNames : task'[d][t] = task[d][t]
    PROVE  Keeps(d)
<1>1. StagesLeft(d)' = StagesLeft(d)
  BY DEF StagesLeft
<1>2. ChildLeft(d)' = ChildLeft(d)
  BY DEF ChildLeft
<1>3. \A t \in TaskNames : TaskLeft(d, t)' = TaskLeft(d, t)
  BY DEF TaskLeft
<1> QED
  BY <1>1, <1>2, <1>3 DEF Keeps

\* What is left is a number.
LEMMA LeftIsNat ==
    ASSUME TypeOK, NEW c \in Calls
    PROVE  /\ StagesLeft(c) \in Nat
           /\ ChildLeft(c) \in Nat
           /\ \A t \in TaskNames : TaskLeft(c, t) \in Nat
<1>1. at[c] \in Stages /\ \A t \in TaskNames : task[c][t] \in {"none"} \cup Active \cup Over
  BY DEF TypeOK
<1> QED
  BY <1>1, Ranks DEF StagesLeft, ChildLeft, TaskLeft

LEMMA MovingSpends ==
    ASSUME Inv, NEW c \in Calls, Moving(c)
    PROVE  OneSpends
<1>1. /\ at \in [Calls -> Stages] /\ at[c] # "end"
      /\ result \in [Calls -> {"running", "ok", "failed", "dropped"}]
      /\ child \in [Calls -> {"none", "running", "good", "bad", "killed"}]
  BY DEF Inv, TypeOK, Encoded, Moving
<1>2. StagesLeft(c)' < StagesLeft(c)
  BY <1>1, Ranks DEF Moving, Nearer, StagesLeft
<1>3. ChildLeft(c)' <= ChildLeft(c)
  <2>1. child'[c] = child[c] \/ child'[c] = "killed"
    BY <1>1 DEF Moving, Nearer
  <2> QED
    BY <2>1 DEF Moving, ChildLeft
<1>4. \A t \in TaskNames : TaskLeft(c, t)' <= TaskLeft(c, t)
  BY LeftIsNat DEF Inv, Moving, TaskLeft
<1>5. ASSUME NEW d \in Calls \ {c} PROVE Keeps(d)
  <2>1. at'[d] = at[d] /\ result'[d] = result[d] /\ child'[d] = child[d]
    BY <1>1 DEF Moving, Nearer
  <2> QED
    BY <2>1, KeepsFacts DEF Moving
<1>6. Spends(c)
  <2>1. StagesLeft(c)' <= StagesLeft(c)
    BY <1>1, Ranks DEF Moving, Nearer, StagesLeft
  <2> QED
    BY <1>2, <1>3, <1>4, <2>1 DEF Spends
<1> QED
  BY <1>5, <1>6 DEF OneSpends

LEMMA MovingOrder ==
    ASSUME Inv, Order, NEW c \in Calls, Moving(c)
    PROVE  Order'
<1>1. /\ at \in [Calls -> Stages]
      /\ result \in [Calls -> {"running", "ok", "failed", "dropped"}]
      /\ child \in [Calls -> {"none", "running", "good", "bad", "killed"}]
      /\ UNCHANGED <<input, task, lock>>
  BY DEF Inv, TypeOK, Moving, fdVars
<1>2. Apart' /\ Holder'
  BY <1>1 DEF Order, Apart, Holder
<1>3. Killed'
  BY <1>1 DEF Order, Killed, Moving, Nearer
<1>4. ASSUME NEW d \in Calls
      PROVE  /\ \A t, u \in StageTasks(input[d], at'[d]) : task[d][t] = "none" => task[d][u] = "none"
             /\ \A t \in TaskNames :
                   task[d][t] # "none" => StageRank[StageOf[t]] >= StageRank[at'[d]]
  <2>1. CASE at'[d] = at[d]
    BY <2>1 DEF Order, Together, TasksOf
  <2>2. CASE at'[d] # at[d]
    <3>1. d = c /\ at'[d] \in Stages /\ StageRank[at'[d]] < StageRank[at[d]]
      BY <1>1, <2>2 DEF Moving, Nearer
    <3>2. \A t \in TaskNames :
             task[d][t] # "none" => StageRank[StageOf[t]] >= StageRank[at[d]]
      BY DEF Order, Together
    <3>3. \A t \in TaskNames : StageRank[StageOf[t]] \in Nat
      BY DEF TaskNames, Encoders, StageOf, StageRank
    <3>4. StageRank[at'[d]] \in Nat /\ StageRank[at[d]] \in Nat
      BY <1>1, <3>1, Ranks
    <3>5. \A t \in StageTasks(input[d], at'[d]) : task[d][t] = "none"
      BY <3>1, <3>2, <3>3, <3>4, TaskStage
    <3> QED
      BY <3>1, <3>2, <3>3, <3>4, <3>5
  <2> QED
    BY <2>1, <2>2
<1>5. Together'
  BY <1>1, <1>4 DEF Together, TasksOf
<1> QED
  BY <1>2, <1>3, <1>5 DEF Order

LEMMA SpawnEnds == ASSUME Inv, Order, NEW c \in Calls, Spawn(c) PROVE Order' /\ OneSpends
<1>1. /\ task \in [Calls -> [TaskNames -> {"none"} \cup Active \cup Over]]
      /\ UNCHANGED <<input, at, result, child, file, lock>>
      /\ TasksOf(c) # {} /\ \A t \in TasksOf(c) : task[c][t] = "none"
  BY DEF Inv, TypeOK, Spawn, fdVars
<1>2. /\ \A t \in TaskNames :
            task'[c][t] = IF t \in TasksOf(c) THEN "queued" ELSE task[c][t]
      /\ \A d \in Calls \ {c} : task'[d] = task[d]
  BY <1>1 DEF Spawn
<1>3. \A t \in TasksOf(c) : t \in TaskNames /\ StageOf[t] = at[c]
  BY TaskStage DEF TasksOf
<1>4. \A d \in Calls, t \in TaskNames :
         \/ task'[d][t] = task[d][t]
         \/ d = c /\ t \in TasksOf(c) /\ task[d][t] = "none" /\ task'[d][t] = "queued"
  BY <1>1, <1>2
<1>5. Apart'
  BY <1>4, EncoderIsTask DEF Order, Apart
<1>6. Holder'
  <2> SUFFICES ASSUME NEW d \in Calls, NEW t \in Encoders, lock = <<d, t>>
               PROVE  task'[d][t] = "init"
    BY <1>1 DEF Holder
  <2>1. task[d][t] = "init" /\ t \in TaskNames
    BY EncoderIsTask DEF Order, Holder
  <2> QED
    BY <1>4, <2>1
<1>7. Killed'
  BY <1>1 DEF Order, Killed
<1>8. Together'
  <2> SUFFICES ASSUME NEW d \in Calls
               PROVE  /\ \A t, u \in TasksOf(d) : task'[d][t] = "none" => task'[d][u] = "none"
                      /\ \A t \in TaskNames :
                            task'[d][t] # "none" => StageRank[StageOf[t]] >= StageRank[at[d]]
    BY <1>1 DEF Together, TasksOf
  <2>1. CASE d # c
    BY <1>2, <2>1 DEF Order, Together
  <2>2. CASE d = c
    <3>1. \A t \in TasksOf(c) : task'[c][t] = "queued"
      BY <1>2, <1>3
    <3>2. StageRank[at[c]] >= StageRank[at[c]]
      BY Ranks DEF Inv, TypeOK
    <3> QED
      BY <1>2, <1>3, <2>2, <3>1, <3>2 DEF Order, Together
  <2> QED
    BY <2>1, <2>2
<1>9. Spends(c)
  <2>1. StagesLeft(c)' <= StagesLeft(c) /\ ChildLeft(c)' <= ChildLeft(c)
    BY <1>1, LeftIsNat DEF Inv, StagesLeft, ChildLeft
  <2>2. \A t \in TaskNames : TaskLeft(c, t)' <= TaskLeft(c, t)
    <3> SUFFICES ASSUME NEW t \in TaskNames PROVE TaskRank[task'[c][t]] <= TaskRank[task[c][t]]
      BY DEF TaskLeft
    <3>1. CASE task'[c][t] = task[c][t]
      BY <3>1, LeftIsNat DEF Inv, TaskLeft
    <3>2. CASE task[c][t] = "none" /\ task'[c][t] = "queued"
      BY <3>2 DEF TaskRank
    <3> QED
      BY <1>4, <3>1, <3>2
  <2>3. \E t \in TaskNames : TaskLeft(c, t)' < TaskLeft(c, t)
    <3>1. PICK t \in TasksOf(c) : TRUE
      BY <1>1
    <3>2. t \in TaskNames /\ task[c][t] = "none" /\ task'[c][t] = "queued"
      BY <1>1, <1>2, <1>3
    <3>3. TaskLeft(c, t)' < TaskLeft(c, t)
      BY <3>2 DEF TaskLeft, TaskRank
    <3> QED
      BY <3>2, <3>3
  <2> QED
    BY <2>1, <2>2, <2>3 DEF Spends
<1>10. \A d \in Calls \ {c} : Keeps(d)
  BY <1>1, <1>2, KeepsFacts
<1> QED
  BY <1>5, <1>6, <1>7, <1>8, <1>9, <1>10 DEF Order, OneSpends

\* The steps of a child, and the end of a call by its deadline.
ChildMoves(c) ==
    /\ UNCHANGED <<input, at, task, fdVars>>
    /\ \A d \in Calls \ {c} : /\ result'[d] = result[d] /\ child'[d] = child[d]
                              /\ file'[d]["tmp"] = file[d]["tmp"]
    /\ result'[c] = result[c] \/ (result[c] = "running" /\ result'[c] = "dropped")
    /\ child'[c] = "killed" => child[c] = "killed" \/ result'[c] = "dropped"
    /\ ChildLeft(c)' <= ChildLeft(c)
    /\ ChildLeft(c)' < ChildLeft(c) \/ result'[c] # result[c]

LEMMA LaunchMoves ==
    ASSUME Inv, NEW c \in Calls, Launch(c), ~Fail(c)
    PROVE  ChildMoves(c)
<1>1. /\ child \in [Calls -> {"none", "running", "good", "bad", "killed"}]
      /\ child[c] = "none" /\ child' = [child EXCEPT ![c] = "running"]
      /\ UNCHANGED <<input, at, result, task, file, fdVars>>
  BY DEF Launch, Inv, TypeOK
<1>2. ChildLeft(c)' < ChildLeft(c) /\ ChildLeft(c)' <= ChildLeft(c)
  BY <1>1 DEF ChildLeft
<1> QED
  BY <1>1, <1>2 DEF ChildMoves

LEMMA ChildWritesMoves == ASSUME Inv, NEW c \in Calls, ChildWrites(c) PROVE ChildMoves(c)
<1>1. /\ file \in [Calls -> [Files -> {"none", "part", "whole"}]] /\ "tmp" \in Files
      /\ child[c] = "running" /\ file[c]["tmp"] = "none"
      /\ file' = [file EXCEPT ![c]["tmp"] = "part"]
      /\ UNCHANGED <<input, at, result, task, child, fdVars>>
  BY DEF ChildWrites, Inv, TypeOK, Files
<1>2. file'[c]["tmp"] = "part" /\ \A d \in Calls \ {c} : file'[d]["tmp"] = file[d]["tmp"]
  BY <1>1
<1>3. ChildLeft(c)' < ChildLeft(c) /\ ChildLeft(c)' <= ChildLeft(c)
  BY <1>1, <1>2 DEF ChildLeft
<1> QED
  BY <1>1, <1>2, <1>3 DEF ChildMoves

LEMMA ChildExitsMoves == ASSUME Inv, NEW c \in Calls, ChildExits(c) PROVE ChildMoves(c)
<1>1. /\ file \in [Calls -> [Files -> {"none", "part", "whole"}]]
      /\ child \in [Calls -> {"none", "running", "good", "bad", "killed"}]
      /\ child[c] = "running"
      /\ child' = [child EXCEPT ![c] = "good"] \/ child' = [child EXCEPT ![c] = "bad"]
      /\ UNCHANGED <<input, at, result, task, fdVars>>
  BY DEF ChildExits, Inv, TypeOK
<1>2. \A d \in Calls \ {c} : file'[d]["tmp"] = file[d]["tmp"]
  BY <1>1 DEF ChildExits
<1>3. ChildLeft(c)' < ChildLeft(c) /\ ChildLeft(c)' <= ChildLeft(c)
  BY <1>1 DEF ChildLeft
<1> QED
  BY <1>1, <1>2, <1>3 DEF ChildMoves

LEMMA DeadlineMoves == ASSUME Inv, NEW c \in Calls, Deadline(c) PROVE ChildMoves(c)
<1>1. /\ child \in [Calls -> {"none", "running", "good", "bad", "killed"}]
      /\ result \in [Calls -> {"running", "ok", "failed", "dropped"}]
      /\ child' = [child EXCEPT ![c] = IF @ = "running" THEN "killed" ELSE @]
      /\ result[c] = "running" /\ result' = [result EXCEPT ![c] = "dropped"]
      /\ UNCHANGED <<input, at, task, file, fdVars>>
  BY DEF Deadline, Inv, TypeOK
<1>2. ChildLeft(c)' <= ChildLeft(c)
  BY <1>1 DEF ChildLeft
<1> QED
  BY <1>1, <1>2 DEF ChildMoves

LEMMA ChildEnds ==
    ASSUME Inv, Order, NEW c \in Calls, ChildMoves(c)
    PROVE  Order' /\ OneSpends
<1>1. UNCHANGED <<input, at, task, lock>>
  BY DEF ChildMoves, fdVars
<1>2. Apart' /\ Together' /\ Holder'
  BY <1>1 DEF Order, Apart, Together, Holder, TasksOf
<1>3. Killed'
  BY DEF Order, Killed, ChildMoves
<1>4. Spends(c)
  <2>1. at[c] # "end" \/ result[c] # "running"
    BY DEF Inv, Encoded
  <2>2. /\ StagesLeft(c)' <= StagesLeft(c)
        /\ result'[c] # result[c] => StagesLeft(c)' < StagesLeft(c)
    BY <1>1, <2>1, Ranks DEF Inv, TypeOK, ChildMoves, StagesLeft
  <2>3. \A t \in TaskNames : TaskLeft(c, t)' <= TaskLeft(c, t)
    BY <1>1, LeftIsNat DEF Inv, TaskLeft
  <2> QED
    BY <2>2, <2>3 DEF Spends, ChildMoves
<1>5. \A d \in Calls \ {c} : Keeps(d)
  BY <1>1, KeepsFacts DEF ChildMoves
<1> QED
  BY <1>2, <1>3, <1>4, <1>5 DEF Order, OneSpends
\* A task takes a step of its own: down, and out of the lock or into it.
TaskDown(c, t, s) ==
    /\ TaskMoves(c, t, s)
    /\ TaskRank[s] < TaskRank[task[c][t]]
    /\ IF t \in Encoders THEN s # "retry" ELSE s \notin {"init", "svt", "ravif", "writing"}
    /\ \/ lock' = lock /\ (t \in Encoders => task[c][t] # "init" /\ s # "init")
       \/ t \in Encoders /\ lock' = <<c, t>> /\ s = "init"
       \/ lock' = Free
    /\ \A d \in Calls : file'[d]["tmp"] = file[d]["tmp"]

LEMMA TaskEnds ==
    ASSUME Inv, Order, NEW c \in Calls, NEW t \in TaskNames, NEW s \in Active \cup Over,
           TaskDown(c, t, s)
    PROVE  Order' /\ OneSpends
<1>1. /\ task'[c][t] = s /\ task[c][t] \in Active
      /\ \A d \in Calls, u \in TaskNames : d # c \/ u # t => task'[d][u] = task[d][u]
      /\ UNCHANGED <<input, at, result, child>>
  BY TaskMoveFacts DEF TaskDown, TaskMoves
<1>2. s # "none" /\ task[c][t] # "none"
  BY <1>1 DEF Active, Over
<1>3. Apart'
  BY <1>1, EncoderIsTask DEF Order, Apart, TaskDown
<1>4. Killed'
  BY <1>1 DEF Order, Killed
<1>5. Together'
  <2> SUFFICES ASSUME NEW d \in Calls
               PROVE  /\ \A u, v \in TasksOf(d) : task'[d][u] = "none" => task'[d][v] = "none"
                      /\ \A u \in TaskNames :
                            task'[d][u] # "none" => StageRank[StageOf[u]] >= StageRank[at[d]]
    BY <1>1 DEF Together, TasksOf
  <2>1. \A u \in TaskNames : task'[d][u] = "none" <=> task[d][u] = "none"
    BY <1>1, <1>2
  <2>2. TasksOf(d) \subseteq TaskNames
    BY StageTasksType DEF TasksOf
  <2> QED
    BY <2>1, <2>2 DEF Order, Together
<1>6. Holder'
  <2> SUFFICES ASSUME NEW d \in Calls, NEW u \in Encoders, lock' = <<d, u>>
               PROVE  task'[d][u] = "init"
    BY DEF Holder
  <2>1. lock' # Free /\ u \in TaskNames
    BY EncoderIsTask DEF Free, Encoders
  <2>2. CASE lock' = lock /\ (t \in Encoders => task[c][t] # "init" /\ s # "init")
    <3>1. task[d][u] = "init"
      BY <2>2 DEF Order, Holder
    <3>2. d # c \/ u # t
      BY <2>2, <3>1
    <3> QED
      BY <1>1, <2>1, <3>1, <3>2
  <2>3. CASE t \in Encoders /\ lock' = <<c, t>> /\ s = "init"
    BY <1>1, <2>3
  <2> QED
    BY <2>1, <2>2, <2>3 DEF TaskDown
<1>7. Spends(c)
  <2>1. StagesLeft(c)' <= StagesLeft(c)
    BY <1>1, LeftIsNat DEF Inv, StagesLeft
  <2>2. ChildLeft(c)' <= ChildLeft(c)
    <3>1. ChildLeft(c)' = ChildLeft(c)
      BY <1>1 DEF ChildLeft, TaskDown
    <3> QED
      BY <3>1, LeftIsNat DEF Inv
  <2>3. TaskLeft(c, t)' < TaskLeft(c, t)
    BY <1>1 DEF TaskLeft, TaskDown
  <2>4. \A u \in TaskNames : TaskLeft(c, u)' <= TaskLeft(c, u)
    <3> SUFFICES ASSUME NEW u \in TaskNames PROVE TaskLeft(c, u)' <= TaskLeft(c, u)
      OBVIOUS
    <3>1. CASE u = t
      <4>1. TaskRank[s] \in Nat /\ TaskRank[task[c][t]] \in Nat
        BY <1>1, Ranks
      <4> QED
        BY <1>1, <3>1, <4>1 DEF TaskLeft, TaskDown
    <3>2. CASE u # t
      BY <1>1, <3>2, LeftIsNat DEF Inv, TaskLeft
    <3> QED
      BY <3>1, <3>2
  <2> QED
    BY <2>1, <2>2, <2>3, <2>4 DEF Spends
<1>8. \A d \in Calls \ {c} : Keeps(d)
  BY <1>1, KeepsFacts DEF TaskDown
<1> QED
  BY <1>3, <1>4, <1>5, <1>6, <1>7, <1>8 DEF Order, OneSpends

\* A file that a task writes is not the temporary one.
LEMMA TmpKept ==
    ASSUME TypeOK, NEW c \in Calls, NEW t \in Encoders, NEW v,
           file' = file \/ file' = [file EXCEPT ![c][t] = v]
    PROVE  \A d \in Calls : file'[d]["tmp"] = file[d]["tmp"]
<1>1. t # "tmp" /\ "tmp" \in Files /\ file \in [Calls -> [Files -> {"none", "part", "whole"}]]
  BY DEF TypeOK, Encoders, Files
<1> QED
  BY <1>1

LEMMA TaskSteps ==
    ASSUME Inv, Order, NEW c \in Calls, NEW t \in TaskNames,
           \/ Run(c, t)
           \/ t \notin Encoders /\ Compute(c, t)
           \/ t \in Encoders /\ EncoderStep(c, t)
    PROVE  \E s \in Active \cup Over : TaskDown(c, t, s)
<1> USE DEF fdVars, Active, Over, TaskRank
<1>1. CASE Run(c, t)
  <2>1. TaskDown(c, t, "running")
    BY <1>1 DEF Run, TaskMoves, TaskDown
  <2> QED
    BY <2>1
<1>2. CASE t \notin Encoders /\ Compute(c, t)
  <2>1. \E s \in {"ok", "retry", "failed"} : TaskDown(c, t, s)
    BY <1>2 DEF Compute, TaskMoves, TaskDown
  <2> QED
    BY <2>1
<1>3. CASE t \in Encoders /\ Prepare(c, t)
  <2>1. \E s \in {"ravif", "failed"} : TaskDown(c, t, s)
    BY <1>3 DEF Prepare, TaskMoves, TaskDown
  <2> QED
    BY <2>1
<1>4. CASE t \in Encoders /\ Silence(c, t)
  <2>1. TaskDown(c, t, "init")
    BY <1>4 DEF Silence, TaskMoves, TaskDown
  <2> QED
    BY <2>1
<1>5. CASE t \in Encoders /\ Restore(c, t)
  <2>1. \A d \in Calls : file'[d]["tmp"] = file[d]["tmp"]
    BY <1>5, TmpKept, RefusedFacts DEF Restore, Inv
  <2>2. \E s \in {"svt", "ravif", "failed"} : TaskDown(c, t, s)
    BY <1>5, <2>1, RefusedFacts DEF Restore, TaskMoves, TaskDown
  <2> QED
    BY <2>2
<1>6. CASE t \in Encoders /\ EncodeFails(c, t)
  <2>1. \A d \in Calls : file'[d]["tmp"] = file[d]["tmp"]
    BY <1>6, TmpKept, RefusedFacts DEF EncodeFails, Inv
  <2>2. \E s \in {"ravif", "failed"} : TaskDown(c, t, s)
    BY <1>6, <2>1, RefusedFacts DEF EncodeFails, TaskMoves, TaskDown
  <2> QED
    BY <2>2
<1>7. CASE t \in Encoders /\ RavifFails(c, t)
  <2>1. TaskDown(c, t, "failed")
    BY <1>7 DEF RavifFails, TaskMoves, TaskDown
  <2> QED
    BY <2>1
<1>8. CASE t \in Encoders /\ Write(c, t)
  <2>1. \A d \in Calls : file'[d]["tmp"] = file[d]["tmp"]
    BY <1>8, TmpKept DEF Write, Inv
  <2>2. \E s \in {"writing", "failed"} : TaskDown(c, t, s)
    BY <1>8, <2>1 DEF Write, TaskMoves, TaskDown
  <2> QED
    BY <2>2
<1>9. CASE t \in Encoders /\ WriteEnds(c, t)
  <2>1. \A d \in Calls : file'[d]["tmp"] = file[d]["tmp"]
    BY <1>9, TmpKept DEF WriteEnds, Inv
  <2>2. \E s \in {"ok", "failed"} : TaskDown(c, t, s)
    BY <1>9, <2>1 DEF WriteEnds, TaskMoves, TaskDown
  <2> QED
    BY <2>2
<1> QED
  BY <1>1, <1>2, <1>3, <1>4, <1>5, <1>6, <1>7, <1>8, <1>9 DEF EncoderStep

LEMMA StepSpends == ASSUME Inv, Order, Next PROVE Order' /\ OneSpends
<1>1. ASSUME NEW c \in Calls, Moving(c) PROVE Order' /\ OneSpends
  BY <1>1, MovingOrder, MovingSpends
<1>2. ASSUME NEW c \in Calls, CallStep(c) PROVE Order' /\ OneSpends
  <2>1. CASE Spawn(c)
    BY <2>1, SpawnEnds
  <2>2. CASE Launch(c) /\ ~Fail(c)
    BY <2>2, LaunchMoves, ChildEnds
  <2>3. CASE Launch(c) /\ Fail(c) /\ ~UNCHANGED child
    BY <2>3 DEF Launch, Fail, Inv, TypeOK
  <2>4. CASE ~Spawn(c) /\ ~(Launch(c) /\ (~Fail(c) \/ ~UNCHANGED child))
    <3>1. Moving(c)
      BY <1>2, <2>4, MovingSteps DEF CallStep
    <3> QED
      BY <1>1, <3>1
  <2> QED
    BY <2>1, <2>2, <2>3, <2>4
<1>3. ASSUME NEW c \in Calls, NEW t \in TaskNames,
             \/ Run(c, t)
             \/ t \notin Encoders /\ Compute(c, t)
             \/ t \in Encoders /\ EncoderStep(c, t)
      PROVE  Order' /\ OneSpends
  BY <1>3, TaskSteps, TaskEnds
<1>4. ASSUME NEW c \in Calls, ChildWrites(c) \/ ChildExits(c) \/ Deadline(c)
      PROVE  Order' /\ OneSpends
  BY <1>4, ChildWritesMoves, ChildExitsMoves, DeadlineMoves, ChildEnds
<1>5. ASSUME NEW c \in Calls, Probe(c) PROVE Order' /\ OneSpends
  <2>1. Moving(c)
    BY <1>5, MovingSteps
  <2> QED
    BY <1>1, <2>1
<1> QED
  BY <1>2, <1>3, <1>4, <1>5, EncoderIsTask DEF Next, Worker, Outside

LEMMA InitOrder == ASSUME Init PROVE Order
<1>1. \A c \in Calls, t \in TaskNames : task[c][t] = "none"
  BY DEF Init
<1>2. Apart
  BY <1>1, EncoderIsTask DEF Apart
<1>3. Together
  <2>1. \A c \in Calls : TasksOf(c) \subseteq TaskNames
    BY StageTasksType DEF TasksOf
  <2> QED
    BY <1>1, <2>1 DEF Together
<1>4. Holder
  BY DEF Init, Holder, Free, Encoders
<1>5. Killed
  BY DEF Init, Killed
<1> QED
  BY <1>2, <1>3, <1>4, <1>5 DEF Order

LEMMA StutterOrder == ASSUME Order, UNCHANGED vars PROVE Order'
  BY DEF vars, fdVars, Order, Apart, Together, Holder, Killed, TasksOf

\* Where something is not done, the worker can do something, or waits for ffmpeg
\* to give the frame of a video or for ffprobe to give its size.
LEMMA OrderUnstuck == ASSUME Inv, Order PROVE Unstuck
<1> SUFFICES ASSUME NEW c \in Calls,
                    result[c] = "running" \/ (\E t \in TaskNames : task[c][t] \in Active),
                    ~Ready
             PROVE  (at[c] = "extract" /\ child[c] = "running") \/ at[c] = "probe"
  BY DEF Unstuck
<1>1. lock = Free
  <2> SUFFICES ASSUME lock # Free PROVE FALSE
    OBVIOUS
  <2>1. PICK d \in Calls, u \in Encoders : lock = <<d, u>>
    BY DEF Inv, TypeOK
  <2>2. task[d][u] = "init" /\ u \in TaskNames
    BY <2>1, EncoderIsTask DEF Order, Holder
  <2> QED
    BY <2>2 DEF Ready, TaskReady
<1>2. \A d \in Calls, t \in TaskNames : task[d][t] \notin Active
  <2> SUFFICES ASSUME NEW d \in Calls, NEW t \in TaskNames, task[d][t] \in Active PROVE FALSE
    OBVIOUS
  <2>1. TaskReady(d, t)
    BY <1>1 DEF Order, Apart, TaskReady, Active
  <2> QED
    BY <2>1 DEF Ready
<1>3. /\ result[c] = "running" /\ ~CallReady(c)
      /\ at[c] \in Stages \ {"end"}
      /\ child[c] \in {"none", "running", "good", "bad"}
  BY <1>2 DEF Ready, Inv, TypeOK, Encoded, Order, Killed
<1>4. TasksOf(c) = {}
  <2> SUFFICES ASSUME TasksOf(c) # {} PROVE CallReady(c)
    BY <1>3
  <2>1. \A t \in TasksOf(c) : task[c][t] \in {"none"} \cup Over
    BY <1>2, StageTasksType DEF Inv, TypeOK, TasksOf
  <2>2. \/ \A t \in TasksOf(c) : task[c][t] = "none"
        \/ \A t \in TasksOf(c) : task[c][t] \in Over
    BY <2>1 DEF Order, Together
  <2> QED
    BY <1>3, <2>2 DEF CallReady
<1>5. at[c] \in {"start", "read", "move", "normalize", "extract", "cleanup", "probe"}
  BY <1>3, <1>4 DEF Stages, TasksOf, StageTasks, Encoders
<1> QED
  BY <1>3, <1>5 DEF CallReady

(* Every step, also one of ffmpeg or of the deadline, uses up a stage of a   *)
(* call, of its child or of one of its tasks and gives nothing back: calls   *)
(* and tasks take finitely many steps, and no fair scheduling is needed for  *)
(* that (processing.rs has no loop around a stage and no retry but the one   *)
(* of load_image).                                                           *)
THEOREM EveryStepSpends == Spec => [][OneSpends]_vars
<1>1. Init => Inv /\ Order
  BY InitInv, InitOrder
<1>2. Inv /\ Order /\ [Next]_vars => (Inv /\ Order)'
  BY NextInv, StepSpends, StutterOrder
<1>3. Inv /\ Order /\ [Next]_vars => [OneSpends]_vars
  BY StepSpends
<1> QED
  BY <1>1, <1>2, <1>3, PTL DEF Spec

(* As long as a call or a task of any call, dropped ones included, is not    *)
(* done, the worker can take a step, unless that call waits for the frame of *)
(* a video from ffmpeg or for its size from ffprobe (ffmpeg.rs:243 and 59,   *)
(* which have no time limit): neither the lock of avif.rs nor the awaits of  *)
(* two tasks can block for ever.                                             *)
THEOREM NeverStuck == Spec => []Unstuck
<1>1. Init => Inv /\ Order
  BY InitInv, InitOrder
<1>2. Inv /\ Order /\ [Next]_vars => (Inv /\ Order)'
  BY NextInv, StepSpends, StutterOrder
<1>3. Inv /\ Order => Unstuck
  BY OrderUnstuck
<1> QED
  BY <1>1, <1>2, <1>3, PTL DEF Spec
=============================================================================
