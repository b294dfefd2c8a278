----------------------- MODULE KnowledgeProcessingProofs -----------------------
(***************************************************************************)
(* What a search finds is the document's current file, the file is kept,   *)
(* and late runs and editors spare each other's results: for any number of *)
(* workers, requests, editors, jobs and mishaps, in both modes.            *)
(***************************************************************************)
EXTENDS KnowledgeProcessing, FiniteSetTheorems, TLAPS

USE DEF trouble

-----------------------------------------------------------------------------
(* The invariant *)

RequestSteps ==
  {"idle", "adding", "unqueued", "clearing", "loading", "replacing", "finishing", "done",
   "failing", "failDocument"}
WorkerSteps ==
  {"idle", "activating", "checking", "stale", "clearing", "loading", "replacing", "finishing",
   "done", "recorded", "failing", "failDocument", "return", "throw"}

\* A runner at work on a Bull job's behalf.
OnJob(r) == task[r].at \in {"adding", "unqueued"} \/ (r \in Workers /\ task[r].at # "idle")

TaskInv(r) ==
  /\ r \in Requests => task[r].at \in RequestSteps
  /\ r \in Requests /\ mode = "queue" => task[r].at \in {"idle", "adding", "unqueued", "failDocument"}
  /\ r \in Workers => task[r].at \in WorkerSteps
  /\ OnJob(r) => mode = "queue" /\ task[r].job \in Jobs /\ jobs[task[r].job].status # "NONE"
  /\ task[r].at = "adding" => bull[task[r].job].state = "ABSENT"

BullInv(j) ==
  /\ bull[j].state = "RUNNING" <=> bull[j].owner # Nobody
  /\ bull[j].state # "ABSENT" => jobs[j].status # "NONE"
  /\ bull[j].state \in {"ABSENT", "WAITING", "RUNNING"} => bull[j].made < MaxAttempts

\* A job is added by the request that created it, and one job is active at a time.
QueueInv ==
  /\ \A r \in Runners : TaskInv(r)
  /\ \A j \in Jobs : BullInv(j) /\ (jobs[j].status # "NONE" => mode = "queue")
  /\ \A q, s \in Runners :
       task[q].at = "adding" /\ task[s].at = "adding" /\ task[q].job = task[s].job => q = s
  /\ \A i, j \in Jobs :
       jobs[i].status \in ActiveStatuses /\ jobs[j].status \in ActiveStatuses => i = j

\* An unchanged row is the row that was read; a file not yet swapped in is nobody
\* else's; what a clean-up takes away is not the row's file.
EditInv(e) ==
  /\ edit[e].old <= uploaded /\ edit[e].new <= uploaded
  /\ edit[e].fresh => doc \in {"PENDING", "DONE", "FAILED"} /\ edit[e].old = version
  /\ edit[e].at = "swapping" =>
       /\ edit[e].new \in files /\ edit[e].new # version /\ edit[e].new # 0
       /\ \A f \in Editors :
            edit[f].old # edit[e].new /\ (edit[f].new = edit[e].new => f = e)
  /\ edit[e].at = "dropOld" => edit[e].old # version
  /\ edit[e].at = "dropNew" /\ "dbError" \notin mishaps => edit[e].new # version

StorageInv ==
  /\ version <= uploaded
  /\ \A e \in Editors : EditInv(e)
  /\ FileKept

Calm ==
  mishaps \subseteq {"apiCrash", "workerCrash"} \cup (IF mode = "queue" THEN {"dbError"} ELSE {})

\* Where a request in inline mode holds the document, and a worker an active job.
Holding == {"clearing", "loading", "replacing", "finishing", "failing", "failDocument"}
Working == {"checking", "clearing", "loading", "replacing", "finishing"}

AloneInv(r) ==
  /\ "lockLost" \notin mishaps =>
       (r \in Workers /\ task[r].at # "idle" => bull[task[r].job].owner = r)
  /\ "queueError" \notin mishaps => task[r].at # "unqueued"
  /\ mishaps \cap {"lockLost", "queueError"} = {} =>
       (r \in Workers /\ task[r].at \in Working => jobs[task[r].job].status = "ACTIVE")
  /\ mode = "inline" /\ Calm /\ doc # "DELETED" =>
       (r \in Requests /\ task[r].at \in Holding =>
          doc = "PROCESSING" /\ \A s \in Requests : task[s].at \in Holding => s = r)

Alone == \A r \in Runners : AloneInv(r)

ChunksInv ==
  /\ ChunksOfVersion
  /\ Calm => (doc = "DONE" => chunks = version)
  /\ Calm /\ doc = "PROCESSING" =>
       \A r \in Runners :
         task[r].at = "finishing" /\ task[r].version = version => chunks = version

IInv ==
  TypeOK /\ IsFiniteSet(mishaps) /\ QueueInv /\ StorageInv /\ Alone /\ ChunksInv

-----------------------------------------------------------------------------
(* What the parts of an action do to a runner and to a job *)

Steps ==
  {"idle", "adding", "unqueued", "activating", "checking", "stale", "clearing", "loading",
   "replacing", "finishing", "done", "recorded", "failing", "failDocument", "return", "throw"}
Errors == {"none", "conflict", "permanent", "retryable"}
Tasks == [at : Steps, job : 0 .. MaxJobs, version : 0 .. MaxVersions, made : 0 .. MaxAttempts, error : Errors]
Statuses == {"NONE"} \cup ActiveStatuses \cup Ended
JobRows == [status : Statuses, version : 0 .. MaxVersions]

\* Runner r is at another step, for the same job and version; the others are not touched.
Moves(r, step) ==
  /\ \A s \in Runners : s # r => task'[s] = task[s]
  /\ task'[r].at = step /\ task'[r].job = task[r].job /\ task'[r].version = task[r].version

\* A runner's task is given out or ended.
Takes(r, t) == task'[r] = t /\ \A s \in Runners : s # r => task'[s] = task[s]

LEMMA Goes ==
  ASSUME TypeOK, NEW r \in Runners, NEW step \in Steps, Goto(r, step)
  PROVE  Moves(r, step) /\ task'[r].error = task[r].error /\ task' \in [Runners -> Tasks]
  <1>1. task \in [Runners -> Tasks]
    BY DEF TypeOK, Tasks, Steps, Errors
  <1>2. task' = [task EXCEPT ![r].at = step]
    BY DEF Goto
  <1>3. [task[r] EXCEPT !.at = step] \in Tasks
    BY <1>1 DEF Tasks
  <1>. QED BY <1>1, <1>2, <1>3 DEF Moves, Tasks

LEMMA Fails ==
  ASSUME TypeOK, NEW r \in Runners, NEW error \in Errors, Fail(r, error)
  PROVE  Moves(r, "failing") /\ task'[r].error = error /\ task' \in [Runners -> Tasks]
  <1>. DEFINE moved == [task[r] EXCEPT !.at = "failing"]
  <1>1. task \in [Runners -> Tasks]
    BY DEF TypeOK, Tasks, Steps, Errors
  <1>2. task' = [task EXCEPT ![r] = [moved EXCEPT !.error = error]]
    BY <1>1 DEF Fail
  <1>3. moved \in Tasks /\ moved.at = "failing" /\ moved.job = task[r].job
          /\ moved.version = task[r].version
    BY <1>1 DEF Tasks, Steps
  <1>. HIDE DEF moved
  <1>4. /\ [moved EXCEPT !.error = error] \in Tasks
        /\ [moved EXCEPT !.error = error].error = error
        /\ [moved EXCEPT !.error = error].at = moved.at
        /\ [moved EXCEPT !.error = error].job = moved.job
        /\ [moved EXCEPT !.error = error].version = moved.version
    BY <1>3 DEF Tasks
  <1>. QED BY <1>1, <1>2, <1>3, <1>4 DEF Moves

LEMMA Leaves ==
  ASSUME TypeOK, NEW r \in Runners, Leave(r)
  PROVE  Takes(r, NoTask) /\ task' \in [Runners -> Tasks]
  <1>1. task \in [Runners -> Tasks]
    BY DEF TypeOK, Tasks, Steps, Errors
  <1>2. NoTask \in Tasks
    BY KnowledgeAssumption DEF NoTask, Tasks, Steps, Errors
  <1>. QED BY <1>1, <1>2 DEF Leave, Takes

LEMMA JobFields ==
  ASSUME TypeOK, NEW j \in Jobs, NEW status \in Statuses, SetJob(j, status)
  PROVE  /\ jobs' \in [Jobs -> JobRows]
         /\ jobs'[j].status = status /\ jobs'[j].version = jobs[j].version
         /\ \A i \in Jobs : i # j => jobs'[i] = jobs[i]
  <1>1. jobs \in [Jobs -> JobRows]
    BY DEF TypeOK, JobRows, Statuses
  <1>2. [jobs[j] EXCEPT !.status = status] \in JobRows
    BY <1>1 DEF JobRows
  <1>. QED BY <1>1, <1>2 DEF SetJob, JobRows

LEMMA Finishes ==
  ASSUME TypeOK, NEW j \in Jobs, NEW status \in Ended, FinishJob(j, status)
  PROVE  /\ jobs' \in [Jobs -> JobRows]
         /\ jobs'[j].status = IF jobs[j].status \in ActiveStatuses THEN status ELSE jobs[j].status
         /\ jobs[j].status \notin ActiveStatuses => jobs'[j] = jobs[j]
         /\ \A i \in Jobs : i # j => jobs'[i] = jobs[i]
  <1>1. jobs \in [Jobs -> JobRows]
    BY DEF TypeOK, JobRows, Statuses
  <1>2. CASE jobs[j].status \in ActiveStatuses
    <2>1. SetJob(j, status) /\ status \in Statuses
      BY <1>2 DEF FinishJob, SetJob, Statuses
    <2>. QED BY <1>2, <2>1, JobFields
  <1>3. CASE jobs[j].status \notin ActiveStatuses
    BY <1>1, <1>3 DEF FinishJob
  <1>. QED BY <1>2, <1>3

LEMMA HappensOnce ==
  ASSUME TypeOK, IsFiniteSet(mishaps), NEW kind \in Mishaps, Mishap(kind)
  PROVE  /\ mishaps' = mishaps \cup {kind}
         /\ mishaps' \subseteq Mishaps /\ faults' \in 0 .. MaxFaults
         /\ IsFiniteSet(mishaps')
  <1>1. IsFiniteSet(mishaps \cup {kind})
    BY FS_AddElement
  <1>. QED BY <1>1, KnowledgeAssumption DEF Mishap, TypeOK

-----------------------------------------------------------------------------
(* What runs and Bull do to the row and to the editors *)

RunnerStep ==
  \/ \E q \in Requests : ClaimAndCreateJob(q) \/ ClaimInline(q) \/ Request(q)
  \/ \E w \in Workers : Fetch(w) \/ Process(w)
  \/ \E r \in Runners : Run(r) \/ DatabaseFails(r) \/ Crash(r)
  \/ \E j \in Jobs : Stall(j)

EditorStep(e) ==
  \/ ReadForReplace(e) \/ Upload(e) \/ Swap(e) \/ SwapFails(e) \/ DropNew(e) \/ DropOld(e)
  \/ ReadForDelete(e) \/ DeleteFile(e) \/ DeleteRow(e) \/ EditEnds(e)

LEMMA NextIs == Next <=> RunnerStep \/ \E e \in Editors : EditorStep(e)
  BY DEF Next, RunnerStep, EditorStep

\* A mishap of this kind may have happened in the step.
Mishaped ==
  \/ UNCHANGED trouble
  \/ \E kind \in Mishaps : Mishap(kind)

\* A run gives the document another status, or leaves row and editors alone.
RowStep ==
  /\ UNCHANGED <<mode, version, storage>> /\ Mishaped
  /\ \/ UNCHANGED <<doc, edit>>
     \/ doc # "DELETED" /\ doc' \in {"PROCESSING", "DONE", "FAILED"} /\ edit' = Touched

LEMMA RunsKeepTheFile ==
  ASSUME RunnerStep
  PROVE  RowStep
  <1>. USE DEF RowStep, row, storage, SetStatus, Mishaped, Mishaps
  <1>1. ASSUME NEW q \in Requests, ClaimAndCreateJob(q) \/ ClaimInline(q)
        PROVE  RowStep
    BY <1>1 DEF ClaimAndCreateJob, ClaimInline
  <1>2. ASSUME NEW q \in Requests, Request(q)
        PROVE  RowStep
    BY <1>2 DEF Request, AddToQueue, MarkEnqueueFailed, InlineFails
  <1>3. ASSUME NEW w \in Workers, Fetch(w)
        PROVE  RowStep
    BY <1>3 DEF Fetch
  <1>4. ASSUME NEW w \in Workers, Process(w)
        PROVE  RowStep
    BY <1>4 DEF Process, MarkActive, CheckDocument, MarkStaleSkipped, HandleConflict,
                HandleRetryable, MarkJobFailed, Return, Throw
  <1>5. ASSUME NEW r \in Runners, Run(r)
        PROVE  RowStep
    BY <1>5 DEF Run, ClearChunks, Load, ReplaceChunks, MarkDone, MarkSucceeded,
                MarkDocumentFailed, Writable
  <1>6. ASSUME NEW r \in Runners, DatabaseFails(r) \/ Crash(r)
        PROVE  RowStep
    BY <1>6 DEF DatabaseFails, Crash
  <1>7. ASSUME NEW j \in Jobs, Stall(j)
        PROVE  RowStep
    BY <1>7 DEF Stall
  <1>. QED BY <1>1, <1>2, <1>3, <1>4, <1>5, <1>6, <1>7 DEF RunnerStep

\* What an editor remembers.
Edits == [at : {"idle", "uploading", "swapping", "dropOld", "dropNew", "deleting", "removing"},
          old : 0 .. MaxVersions, new : 0 .. MaxVersions, fresh : BOOLEAN]

LEMMA TouchedFields ==
  ASSUME TypeOK
  PROVE  /\ Touched \in [Editors -> Edits]
         /\ \A e \in Editors :
              /\ Touched[e].at = edit[e].at /\ Touched[e].old = edit[e].old
              /\ Touched[e].new = edit[e].new /\ Touched[e].fresh = FALSE
  <1>1. edit \in [Editors -> Edits]
    BY DEF TypeOK, Edits
  <1>2. ASSUME NEW e \in Editors
        PROVE  /\ [edit[e] EXCEPT !.fresh = FALSE] \in Edits
               /\ [edit[e] EXCEPT !.fresh = FALSE].at = edit[e].at
               /\ [edit[e] EXCEPT !.fresh = FALSE].old = edit[e].old
               /\ [edit[e] EXCEPT !.fresh = FALSE].new = edit[e].new
               /\ [edit[e] EXCEPT !.fresh = FALSE].fresh = FALSE
    BY <1>1 DEF Edits
  <1>. QED BY <1>2 DEF Touched

LEMMA EditFields ==
  ASSUME TypeOK, NEW e \in Editors, NEW step, Edit(e, step)
  PROVE  /\ \A f \in Editors : f # e => edit'[f] = edit[f]
         /\ edit'[e].at = step /\ edit'[e].old = edit[e].old
         /\ edit'[e].new = edit[e].new /\ edit'[e].fresh = edit[e].fresh
         /\ step \in {"dropNew", "removing"} => edit' \in [Editors -> Edits]
  <1>1. edit \in [Editors -> Edits]
    BY DEF TypeOK, Edits
  <1>2. edit' = [edit EXCEPT ![e] = [edit[e] EXCEPT !.at = step]]
    BY <1>1 DEF Edit
  <1>3. /\ [edit[e] EXCEPT !.at = step].at = step
        /\ [edit[e] EXCEPT !.at = step].old = edit[e].old
        /\ [edit[e] EXCEPT !.at = step].new = edit[e].new
        /\ [edit[e] EXCEPT !.at = step].fresh = edit[e].fresh
        /\ step \in {"dropNew", "removing"} => [edit[e] EXCEPT !.at = step] \in Edits
    BY <1>1 DEF Edits
  <1>. QED BY <1>1, <1>2, <1>3

LEMMA EndFields ==
  ASSUME TypeOK, NEW e \in Editors, EndEdit(e)
  PROVE  /\ \A f \in Editors : f # e => edit'[f] = edit[f]
         /\ edit'[e].at = "idle" /\ edit'[e].old = 0 /\ edit'[e].new = 0
         /\ edit'[e].fresh = FALSE /\ edit' \in [Editors -> Edits]
  BY KnowledgeAssumption DEF TypeOK, Edits, EndEdit, NoEdit

LEMMA UploadFields ==
  ASSUME TypeOK, NEW e \in Editors, uploaded < MaxVersions,
         edit' = [edit EXCEPT ![e].at = "swapping", ![e].new = uploaded + 1]
  PROVE  /\ \A f \in Editors : f # e => edit'[f] = edit[f]
         /\ edit'[e].at = "swapping" /\ edit'[e].old = edit[e].old
         /\ edit'[e].new = uploaded + 1 /\ edit'[e].fresh = edit[e].fresh
         /\ edit' \in [Editors -> Edits]
  <1>. DEFINE moved == [edit[e] EXCEPT !.at = "swapping"]
              named == [moved EXCEPT !.new = uploaded + 1]
  <1>1. edit \in [Editors -> Edits] /\ uploaded + 1 \in 0 .. MaxVersions
    BY KnowledgeAssumption DEF TypeOK, Edits, Versions
  <1>2. edit' = [edit EXCEPT ![e] = named]
    BY <1>1
  <1>3. moved \in Edits /\ moved.at = "swapping" /\ moved.old = edit[e].old
          /\ moved.fresh = edit[e].fresh
    BY <1>1 DEF Edits
  <1>. HIDE DEF moved
  <1>4. named \in Edits /\ named.at = moved.at /\ named.old = moved.old
          /\ named.fresh = moved.fresh /\ named.new = uploaded + 1
    BY <1>1, <1>3 DEF Edits
  <1>. HIDE DEF named
  <1>. QED BY <1>1, <1>2, <1>3, <1>4

LEMMA SwapFields ==
  ASSUME TypeOK, NEW e \in Editors, edit' = [Touched EXCEPT ![e].at = "dropOld"]
  PROVE  /\ edit' \in [Editors -> Edits]
         /\ \A f \in Editors :
              /\ edit'[f].at = (IF f = e THEN "dropOld" ELSE edit[f].at)
              /\ edit'[f].old = edit[f].old /\ edit'[f].new = edit[f].new
              /\ edit'[f].fresh = FALSE
  <1>1. /\ Touched \in [Editors -> Edits]
        /\ \A f \in Editors :
              /\ Touched[f].at = edit[f].at /\ Touched[f].old = edit[f].old
              /\ Touched[f].new = edit[f].new /\ Touched[f].fresh = FALSE
    BY TouchedFields
  <1>2. edit' = [Touched EXCEPT ![e] = [Touched[e] EXCEPT !.at = "dropOld"]]
    BY <1>1
  <1>3. /\ [Touched[e] EXCEPT !.at = "dropOld"] \in Edits
        /\ [Touched[e] EXCEPT !.at = "dropOld"].at = "dropOld"
        /\ [Touched[e] EXCEPT !.at = "dropOld"].old = Touched[e].old
        /\ [Touched[e] EXCEPT !.at = "dropOld"].new = Touched[e].new
        /\ [Touched[e] EXCEPT !.at = "dropOld"].fresh = Touched[e].fresh
    BY <1>1 DEF Edits
  <1>. QED BY <1>1, <1>2, <1>3

-----------------------------------------------------------------------------
(* The file of the row *)

\* The types of row, storage and editors.
StorageType ==
  /\ doc \in {"PENDING", "PROCESSING", "DONE", "FAILED", "DELETED"}
  /\ version \in Versions /\ uploaded \in Versions /\ files \subseteq 1 .. uploaded
  /\ edit \in [Editors -> Edits]

LEMMA StorageTyped == TypeOK => StorageType
  BY DEF TypeOK, StorageType, Edits

LEMMA RowStepKeepsStorage ==
  ASSUME TypeOK, IsFiniteSet(mishaps), StorageInv, RowStep
  PROVE  StorageType' /\ StorageInv'
  <1>1. StorageType'
    BY StorageTyped, TouchedFields DEF RowStep, StorageType, storage
  <1>2. mishaps \subseteq mishaps'
    BY HappensOnce DEF RowStep, Mishaped
  <1>3. version' = version /\ uploaded' = uploaded /\ files' = files
    BY DEF RowStep, storage
  <1>4. \A f \in Editors : /\ edit'[f].at = edit[f].at /\ edit'[f].old = edit[f].old
                           /\ edit'[f].new = edit[f].new
                           /\ edit'[f].fresh => edit[f].fresh /\ doc' = doc
    BY TouchedFields DEF RowStep
  <1>5. \A e \in Editors : EditInv(e)'
    BY <1>2, <1>3, <1>4 DEF EditInv, StorageInv
  <1>6. FileKept'
    BY <1>2, <1>3, <1>4 DEF FileKept, StorageInv, RowStep
  <1>. QED BY <1>1, <1>3, <1>5, <1>6 DEF StorageInv

LEMMA EditorKeepsStorage ==
  ASSUME TypeOK, IsFiniteSet(mishaps), StorageInv, NEW e \in Editors, EditorStep(e)
  PROVE  StorageType' /\ StorageInv'
  <1>. USE StorageTyped, KnowledgeAssumption
  <1>a. /\ version \in Nat /\ uploaded \in Nat /\ version <= uploaded
        /\ \A f \in Editors : EditInv(f) /\ edit[f].old \in Nat /\ edit[f].new \in Nat
    BY DEF StorageType, StorageInv, Edits, Versions
  <1>1. CASE ReadForReplace(e)
    <2>1. /\ edit' \in [Editors -> Edits]
          /\ \A f \in Editors : f # e => edit'[f] = edit[f]
          /\ edit'[e].at = "uploading" /\ edit'[e].old = version /\ edit'[e].new = 0
      BY <1>1 DEF ReadForReplace, StorageType, Edits, Versions
    <2>2. UNCHANGED <<doc, version, files, uploaded, mishaps>>
            /\ doc \in {"PENDING", "DONE", "FAILED"}
      BY <1>1 DEF ReadForReplace, row, storage
    <2>3. \A f \in Editors : EditInv(f)'
      BY <1>a, <2>1, <2>2 DEF EditInv
    <2>4. FileKept'
      BY <2>1, <2>2, <1>1 DEF FileKept, StorageInv, ReadForReplace
    <2>. QED BY <1>a, <2>1, <2>2, <2>3, <2>4 DEF StorageInv, StorageType
  <1>2. CASE Upload(e)
    <2>1. CASE UNCHANGED storage /\ EndEdit(e)
      <3>1. UNCHANGED <<doc, version, files, uploaded, mishaps>>
        BY <1>2, <2>1 DEF Upload, row, storage
      <3>a. /\ \A f \in Editors : f # e => edit'[f] = edit[f]
            /\ edit'[e].at = "idle" /\ edit'[e].old = 0 /\ edit'[e].new = 0
            /\ edit'[e].fresh = FALSE /\ edit' \in [Editors -> Edits]
        BY <2>1, EndFields
      <3>2. \A f \in Editors : EditInv(f)'
        <4>1. ASSUME NEW f \in Editors, f # e
              PROVE  EditInv(f)'
          BY <1>a, <3>a, <3>1, <4>1 DEF EditInv
        <4>2. EditInv(e)'
          BY <1>a, <3>a, <3>1 DEF EditInv
        <4>. QED BY <4>1, <4>2
      <3>3. FileKept'
        BY <1>2, <2>1, <3>1, EndFields DEF FileKept, StorageInv, Upload
      <3>. QED BY <1>a, <2>1, <3>1, <3>2, <3>3, EndFields DEF StorageInv, StorageType
    <2>2. CASE /\ uploaded < MaxVersions
               /\ uploaded' = uploaded + 1 /\ files' = files \cup {uploaded + 1}
               /\ edit' = [edit EXCEPT ![e].at = "swapping", ![e].new = uploaded + 1]
      <3>1. UNCHANGED <<doc, version, mishaps>>
        BY <1>2 DEF Upload, row
      <3>2. /\ edit' \in [Editors -> Edits]
            /\ \A f \in Editors : f # e => edit'[f] = edit[f]
            /\ edit'[e].at = "swapping" /\ edit'[e].old = edit[e].old
            /\ edit'[e].new = uploaded + 1 /\ edit'[e].fresh = edit[e].fresh
        BY <2>2, UploadFields
      <3>3. \A f \in Editors : EditInv(f)'
        <4>1. ASSUME NEW f \in Editors, f # e
              PROVE  EditInv(f)'
          BY <1>a, <2>2, <3>1, <3>2, <4>1 DEF EditInv
        <4>2. EditInv(e)'
          BY <1>a, <2>2, <3>1, <3>2 DEF EditInv
        <4>. QED BY <4>1, <4>2
      <3>4. FileKept'
        BY <1>2, <2>2, <3>1, <3>2 DEF FileKept, StorageInv, Upload
      <3>5. uploaded' \in Versions /\ files' \subseteq 1 .. uploaded'
        BY <2>2 DEF StorageType, Versions
      <3>. QED BY <1>a, <2>2, <3>1, <3>2, <3>3, <3>4, <3>5 DEF StorageInv, StorageType
    <2>. QED BY <1>2, <2>1, <2>2 DEF Upload
  <1>3. CASE Swap(e)
    <2>1. CASE Edit(e, "dropNew") /\ UNCHANGED row
      <3>1. UNCHANGED <<doc, version, files, uploaded, mishaps>> /\ edit[e].at = "swapping"
        BY <1>3, <2>1 DEF Swap, row, storage
      <3>2. \A f \in Editors : EditInv(f)'
        <4>1. ASSUME NEW f \in Editors, f # e
              PROVE  EditInv(f)'
          BY <1>a, <2>1, <3>1, <4>1, EditFields DEF EditInv
        <4>2. EditInv(e)'
          BY <1>a, <2>1, <3>1, EditFields DEF EditInv
        <4>. QED BY <4>1, <4>2
      <3>3. FileKept'
        BY <2>1, <3>1, EditFields DEF FileKept, StorageInv
      <3>. QED BY <1>a, <2>1, <3>1, <3>2, <3>3, EditFields DEF StorageInv, StorageType
    <2>2. CASE /\ Unchanged(e)
               /\ doc' = "PENDING" /\ version' = edit[e].new /\ chunks' = 0
               /\ edit' = [Touched EXCEPT ![e].at = "dropOld"]
      <3>1. UNCHANGED <<files, uploaded, mishaps>> /\ edit[e].at = "swapping" /\ edit[e].fresh
        BY <1>3, <2>2 DEF Swap, storage, Unchanged
      <3>2. /\ edit[e].new \in files /\ edit[e].new # version /\ edit[e].new # 0
            /\ edit[e].old = version /\ edit[e].new <= uploaded
            /\ \A f \in Editors :
                  edit[f].old # edit[e].new /\ (edit[f].new = edit[e].new => f = e)
        BY <1>a, <3>1 DEF EditInv
      <3>3. /\ edit' \in [Editors -> Edits]
            /\ \A f \in Editors :
                  /\ edit'[f].at = (IF f = e THEN "dropOld" ELSE edit[f].at)
                  /\ edit'[f].old = edit[f].old /\ edit'[f].new = edit[f].new
                  /\ edit'[f].fresh = FALSE
        BY <2>2, SwapFields
      <3>4. \A f \in Editors : EditInv(f)'
        <4>1. ASSUME NEW f \in Editors, f # e
              PROVE  EditInv(f)'
          BY <1>a, <2>2, <3>1, <3>2, <3>3, <4>1 DEF EditInv
        <4>2. EditInv(e)'
          BY <1>a, <2>2, <3>1, <3>2, <3>3 DEF EditInv
        <4>. QED BY <4>1, <4>2
      <3>5. FileKept'
        BY <2>2, <3>1, <3>2 DEF FileKept
      <3>6. version' \in Versions
        BY <1>a, <2>2, <3>2 DEF StorageType, Versions
      <3>. QED BY <1>a, <2>2, <3>1, <3>2, <3>3, <3>4, <3>5, <3>6 DEF StorageInv, StorageType
    <2>. QED BY <1>3, <2>1, <2>2 DEF Swap
  <1>4. CASE SwapFails(e)
    <2>1. /\ UNCHANGED <<doc, version, files, uploaded>> /\ edit[e].at = "dropOld"
          /\ Mishap("dbError") /\ "dbError" \in Mishaps /\ Edit(e, "dropNew")
      BY <1>4 DEF SwapFails, row, storage, Mishaps
    <2>2. mishaps' = mishaps \cup {"dbError"}
      BY <2>1 DEF Mishap
    <2>3. \A f \in Editors : EditInv(f)'
      <3>1. ASSUME NEW f \in Editors, f # e
            PROVE  EditInv(f)'
        BY <1>a, <2>1, <2>2, <3>1, EditFields DEF EditInv
      <3>2. EditInv(e)'
        BY <1>a, <2>1, <2>2, EditFields DEF EditInv
      <3>. QED BY <3>1, <3>2
    <2>4. FileKept'
      BY <2>2 DEF FileKept
    <2>. QED BY <1>a, <2>1, <2>3, <2>4, EditFields DEF StorageInv, StorageType
  <1>5. CASE DropNew(e) \/ DropOld(e)
    <2>1. PICK v : /\ v = IF edit[e].at = "dropNew" THEN edit[e].new ELSE edit[e].old
                   /\ files' = files \ {v}
      BY <1>5 DEF DropNew, DropOld
    <2>2. /\ UNCHANGED <<doc, version, uploaded, mishaps>> /\ EndEdit(e)
          /\ edit[e].at \in {"dropNew", "dropOld"}
      BY <1>5 DEF DropNew, DropOld, row
    <2>3. v # version \/ "dbError" \in mishaps
      BY <1>a, <2>1, <2>2 DEF EditInv
    <2>a. /\ \A f \in Editors : f # e => edit'[f] = edit[f]
          /\ edit'[e].at = "idle" /\ edit'[e].old = 0 /\ edit'[e].new = 0
          /\ edit'[e].fresh = FALSE /\ edit' \in [Editors -> Edits]
      BY <2>2, EndFields
    <2>4. \A f \in Editors : EditInv(f)'
      <3>1. ASSUME NEW f \in Editors, f # e
            PROVE  EditInv(f)'
        BY <1>a, <2>a, <2>1, <2>2, <3>1 DEF EditInv
      <3>2. EditInv(e)'
        BY <1>a, <2>a, <2>1, <2>2 DEF EditInv
      <3>. QED BY <3>1, <3>2
    <2>5. FileKept'
      BY <2>1, <2>2, <2>3, EndFields DEF FileKept, StorageInv
    <2>. QED BY <1>a, <2>1, <2>2, <2>4, <2>5, EndFields DEF StorageInv, StorageType
  <1>6. CASE ReadForDelete(e)
    <2>1. /\ edit' \in [Editors -> Edits]
          /\ \A f \in Editors : f # e => edit'[f] = edit[f]
          /\ edit'[e].at = "deleting" /\ edit'[e].old = version /\ edit'[e].new = 0
          /\ edit'[e].fresh = FALSE
      BY <1>6 DEF ReadForDelete, StorageType, Edits, Versions
    <2>2. UNCHANGED <<doc, version, files, uploaded, mishaps>> /\ edit[e].at = "idle"
      BY <1>6 DEF ReadForDelete, row, storage
    <2>3. \A f \in Editors : EditInv(f)'
      <3>1. ASSUME NEW f \in Editors, f # e
            PROVE  EditInv(f)'
        BY <1>a, <2>1, <2>2, <3>1 DEF EditInv
      <3>2. EditInv(e)'
        BY <1>a, <2>1, <2>2 DEF EditInv
      <3>. QED BY <3>1, <3>2
    <2>4. FileKept'
      BY <2>1, <2>2 DEF FileKept, StorageInv
    <2>. QED BY <1>a, <2>1, <2>2, <2>3, <2>4 DEF StorageInv, StorageType
  <1>7. CASE DeleteFile(e)
    <2>1. /\ UNCHANGED <<doc, version, uploaded, mishaps>> /\ Edit(e, "removing")
          /\ files' = files \ {edit[e].old} /\ edit[e].at = "deleting"
      BY <1>7 DEF DeleteFile, row
    <2>2. \A f \in Editors : EditInv(f)'
      <3>1. ASSUME NEW f \in Editors, f # e
            PROVE  EditInv(f)'
        BY <1>a, <2>1, <3>1, EditFields DEF EditInv
      <3>2. EditInv(e)'
        BY <1>a, <2>1, EditFields DEF EditInv
      <3>. QED BY <3>1, <3>2
    <2>3. FileKept'
      BY <2>1, EditFields DEF FileKept
    <2>. QED BY <1>a, <2>1, <2>2, <2>3, EditFields DEF StorageInv, StorageType
  <1>8. CASE DeleteRow(e)
    <2>1. /\ UNCHANGED <<version, files, uploaded, mishaps>> /\ doc' = "DELETED"
          /\ edit' = [Touched EXCEPT ![e] = NoEdit]
      BY <1>8 DEF DeleteRow, storage
    <2>2. /\ edit' \in [Editors -> Edits]
          /\ \A f \in Editors : f # e => edit'[f] = Touched[f]
          /\ edit'[e].at = "idle" /\ edit'[e].old = 0 /\ edit'[e].new = 0
          /\ edit'[e].fresh = FALSE
      BY <2>1, TouchedFields DEF NoEdit, Edits
    <2>3. \A f \in Editors : EditInv(f)'
      <3>1. ASSUME NEW f \in Editors, f # e
            PROVE  EditInv(f)'
        <4>1. \A g \in Editors :
                /\ edit'[g].old = edit[g].old \/ edit'[g].old = 0
                /\ edit'[g].new = edit[g].new \/ edit'[g].new = 0
          BY <2>2, TouchedFields
        <4>2. /\ edit'[f].at = edit[f].at /\ edit'[f].old = edit[f].old
              /\ edit'[f].new = edit[f].new /\ edit'[f].fresh = FALSE
          BY <2>2, <3>1, TouchedFields
        <4>. QED BY <1>a, <2>1, <4>1, <4>2 DEF EditInv
      <3>2. EditInv(e)'
        BY <1>a, <2>1, <2>2 DEF EditInv
      <3>. QED BY <3>1, <3>2
    <2>4. FileKept'
      BY <2>1 DEF FileKept
    <2>. QED BY <1>a, <2>1, <2>2, <2>3, <2>4 DEF StorageInv, StorageType
  <1>9. CASE EditEnds(e)
    <2>1. /\ UNCHANGED <<doc, version, files, uploaded>> /\ EndEdit(e)
          /\ Mishap("apiCrash") \/ (edit[e].at = "removing" /\ Mishap("dbError"))
      BY <1>9 DEF EditEnds, row, storage
    <2>2. mishaps \subseteq mishaps' /\ mishaps' \cap {"apiCrash", "dbError"} # {}
      BY <2>1 DEF Mishap
    <2>a. /\ \A f \in Editors : f # e => edit'[f] = edit[f]
          /\ edit'[e].at = "idle" /\ edit'[e].old = 0 /\ edit'[e].new = 0
          /\ edit'[e].fresh = FALSE /\ edit' \in [Editors -> Edits]
      BY <2>1, EndFields
    <2>3. \A f \in Editors : EditInv(f)'
      <3>1. ASSUME NEW f \in Editors, f # e
            PROVE  EditInv(f)'
        BY <1>a, <2>a, <2>1, <2>2, <3>1 DEF EditInv
      <3>2. EditInv(e)'
        BY <1>a, <2>a, <2>1, <2>2 DEF EditInv
      <3>. QED BY <3>1, <3>2
    <2>4. FileKept'
      BY <2>2 DEF FileKept
    <2>. QED BY <1>a, <2>1, <2>3, <2>4, EndFields DEF StorageInv, StorageType
  <1>. QED BY <1>1, <1>2, <1>3, <1>4, <1>5, <1>6, <1>7, <1>8, <1>9 DEF EditorStep

-----------------------------------------------------------------------------
(* Bull jobs *)

BullJobs == [state : {"ABSENT", "WAITING", "RUNNING", "COMPLETED", "FAILED"},
             made : 0 .. MaxAttempts, stalls : 0 .. MaxStalled,
             owner : Workers \cup {Nobody, Ghost}]

QueueType ==
  /\ task \in [Runners -> Tasks] /\ jobs \in [Jobs -> JobRows] /\ bull \in [Jobs -> BullJobs]
  /\ mode \in {"inline", "queue"}

LEMMA QueueTyped == TypeOK => QueueType
  BY KnowledgeAssumption
  DEF TypeOK, QueueType, Tasks, Steps, Errors, JobRows, Statuses, BullJobs

\* A Bull job gets another state, owner and counts; the others are not touched.
Becomes(j, state, made, stalls, owner) ==
  /\ bull'[j].state = state /\ bull'[j].made = made /\ bull'[j].stalls = stalls
  /\ bull'[j].owner = owner
  /\ \A i \in Jobs : i # j => bull'[i] = bull[i]

LEMMA BecomesState ==
  ASSUME TypeOK, NEW j \in Jobs, NEW x \in {"WAITING", "COMPLETED"},
         bull' = [bull EXCEPT ![j].state = x]
  PROVE  /\ Becomes(j, x, bull[j].made, bull[j].stalls, bull[j].owner)
         /\ bull' \in [Jobs -> BullJobs]
  <1>1. bull \in [Jobs -> BullJobs]
    BY QueueTyped DEF QueueType
  <1>2. bull' = [bull EXCEPT ![j] = [bull[j] EXCEPT !.state = x]]
    BY <1>1
  <1>. QED BY <1>1, <1>2 DEF Becomes, BullJobs

LEMMA BecomesGhosts ==
  ASSUME TypeOK, NEW j \in Jobs, bull' = [bull EXCEPT ![j].owner = Ghost]
  PROVE  /\ Becomes(j, bull[j].state, bull[j].made, bull[j].stalls, Ghost)
         /\ bull' \in [Jobs -> BullJobs]
  <1>1. bull \in [Jobs -> BullJobs]
    BY QueueTyped DEF QueueType
  <1>2. bull' = [bull EXCEPT ![j] = [bull[j] EXCEPT !.owner = Ghost]]
    BY <1>1
  <1>. QED BY <1>1, <1>2 DEF Becomes, BullJobs

LEMMA BecomesOwned ==
  ASSUME TypeOK, NEW j \in Jobs, NEW x \in {"RUNNING", "COMPLETED"},
         NEW w \in Workers \cup {Nobody},
         bull' = [bull EXCEPT ![j].state = x, ![j].owner = w]
  PROVE  /\ Becomes(j, x, bull[j].made, bull[j].stalls, w)
         /\ bull' \in [Jobs -> BullJobs]
  <1>. DEFINE a == [bull[j] EXCEPT !.state = x]
              b == [a EXCEPT !.owner = w]
  <1>1. bull \in [Jobs -> BullJobs]
    BY QueueTyped DEF QueueType
  <1>2. bull' = [bull EXCEPT ![j] = b]
    BY <1>1
  <1>3. a \in BullJobs /\ a.state = x /\ a.made = bull[j].made /\ a.stalls = bull[j].stalls
    BY <1>1 DEF BullJobs
  <1>. HIDE DEF a
  <1>4. b \in BullJobs /\ b.state = x /\ b.made = bull[j].made /\ b.stalls = bull[j].stalls
          /\ b.owner = w
    BY <1>3 DEF BullJobs
  <1>. HIDE DEF b
  <1>. QED BY <1>1, <1>2, <1>4 DEF Becomes

LEMMA BecomesThrown ==
  ASSUME TypeOK, NEW j \in Jobs, bull[j].made < MaxAttempts,
         bull' = [bull EXCEPT ![j].state = IF bull[j].made + 1 < MaxAttempts
                                             THEN "WAITING" ELSE "FAILED",
                              ![j].made = @ + 1, ![j].owner = Nobody]
  PROVE  /\ Becomes(j, IF bull[j].made + 1 < MaxAttempts THEN "WAITING" ELSE "FAILED",
                    bull[j].made + 1, bull[j].stalls, Nobody)
         /\ bull' \in [Jobs -> BullJobs]
  <1>. DEFINE x == IF bull[j].made + 1 < MaxAttempts THEN "WAITING" ELSE "FAILED"
              a == [bull[j] EXCEPT !.state = x]
              b == [a EXCEPT !.made = a.made + 1]
              c == [b EXCEPT !.owner = Nobody]
  <1>1. bull \in [Jobs -> BullJobs] /\ bull[j] \in BullJobs
    BY QueueTyped DEF QueueType
  <1>2. bull' = [bull EXCEPT ![j] = c]
    BY <1>1
  <1>3. x \in {"WAITING", "FAILED"} /\ bull[j].made + 1 \in 0 .. MaxAttempts
    BY <1>1, KnowledgeAssumption DEF BullJobs
  <1>4. a \in BullJobs /\ a.state = x /\ a.made = bull[j].made /\ a.stalls = bull[j].stalls
    BY <1>1, <1>3 DEF BullJobs
  <1>. HIDE DEF a, x
  <1>5. b \in BullJobs /\ b.state = x /\ b.made = bull[j].made + 1 /\ b.stalls = bull[j].stalls
    BY <1>3, <1>4 DEF BullJobs
  <1>. HIDE DEF b
  <1>6. c \in BullJobs /\ c.state = x /\ c.made = bull[j].made + 1 /\ c.stalls = bull[j].stalls
          /\ c.owner = Nobody
    BY <1>5 DEF BullJobs
  <1>. HIDE DEF c
  <1>. QED BY <1>1, <1>2, <1>6 DEF Becomes, x

LEMMA BecomesStalled ==
  ASSUME TypeOK, NEW j \in Jobs,
         bull' = [bull EXCEPT ![j].owner = Nobody,
                              ![j].state = IF bull[j].stalls < MaxStalled
                                             THEN "WAITING" ELSE "FAILED",
                              ![j].stalls = IF @ < MaxStalled THEN @ + 1 ELSE @]
  PROVE  /\ Becomes(j, IF bull[j].stalls < MaxStalled THEN "WAITING" ELSE "FAILED",
                    bull[j].made,
                    IF bull[j].stalls < MaxStalled THEN bull[j].stalls + 1 ELSE bull[j].stalls,
                    Nobody)
         /\ bull' \in [Jobs -> BullJobs]
  <1>. DEFINE x == IF bull[j].stalls < MaxStalled THEN "WAITING" ELSE "FAILED"
              n == IF bull[j].stalls < MaxStalled THEN bull[j].stalls + 1 ELSE bull[j].stalls
              a == [bull[j] EXCEPT !.owner = Nobody]
              b == [a EXCEPT !.state = x]
              c == [b EXCEPT !.stalls = IF b.stalls < MaxStalled THEN b.stalls + 1 ELSE b.stalls]
  <1>1. bull \in [Jobs -> BullJobs] /\ bull[j] \in BullJobs
    BY QueueTyped DEF QueueType
  <1>2. bull' = [bull EXCEPT ![j] = c]
    BY <1>1
  <1>3. x \in {"WAITING", "FAILED"} /\ n \in 0 .. MaxStalled
    BY <1>1, KnowledgeAssumption DEF BullJobs
  <1>4. a \in BullJobs /\ a.made = bull[j].made /\ a.stalls = bull[j].stalls /\ a.owner = Nobody
    BY <1>1 DEF BullJobs
  <1>. HIDE DEF a
  <1>5. b \in BullJobs /\ b.state = x /\ b.made = bull[j].made /\ b.stalls = bull[j].stalls
          /\ b.owner = Nobody
    BY <1>3, <1>4 DEF BullJobs
  <1>. HIDE DEF b
  <1>6. c = [b EXCEPT !.stalls = n]
    BY <1>5
  <1>7. c \in BullJobs /\ c.state = x /\ c.made = bull[j].made /\ c.stalls = n
          /\ c.owner = Nobody
    BY <1>3, <1>5, <1>6 DEF BullJobs
  <1>. HIDE DEF c
  <1>. QED BY <1>1, <1>2, <1>7 DEF Becomes

-----------------------------------------------------------------------------
(* One runner's step, as the other runners see it *)

\* Jobs keep their verdicts, and nobody but the runner's own job is written.
JobsKept(r) ==
  /\ jobs' \in [Jobs -> JobRows] /\ bull' \in [Jobs -> BullJobs]
  /\ \A j \in Jobs :
       /\ jobs[j].status \in Ended => jobs'[j] = jobs[j]
       /\ jobs[j].status # "NONE" => jobs'[j].status # "NONE"
       /\ jobs'[j].status # "NONE" => jobs[j].status # "NONE" \/ mode = "queue"
       /\ jobs'[j].status \in ActiveStatuses =>
            jobs[j].status \in ActiveStatuses
              \/ \A i \in Jobs : jobs[i].status \notin ActiveStatuses /\ (i # j => jobs'[i] = jobs[i])
       /\ bull[j].state = "ABSENT" =>
            bull'[j].state = "ABSENT" \/ (task[r].at = "adding" /\ j = task[r].job)
       /\ bull'[j].owner # bull[j].owner => bull[j].owner \in {r, Nobody, Ghost}
       /\ jobs'[j] # jobs[j] =>
            \/ jobs[j].status = "NONE"
            \/ OnJob(r) /\ j = task[r].job /\ (r \in Requests => task[r].at = "unqueued")

\* The document is given another status, or a request holds it, only by its holder or
\* when nobody holds it.
Held(r) ==
  doc' # doc \/ (r \in Requests /\ task'[r].at \in Holding) =>
    \/ mode = "queue" \/ "dbError" \in mishaps' \/ doc \in {"PENDING", "DONE", "FAILED", "DELETED"}
    \/ r \in Requests /\ task[r].at \in Holding

Effect(r) ==
  /\ UNCHANGED mode /\ mishaps \subseteq mishaps'
  /\ task' \in [Runners -> Tasks] /\ \A s \in Runners : s # r => task'[s] = task[s]
  /\ task'[r].at = "adding" => jobs[task'[r].job].status = "NONE"
  /\ doc = "DELETED" => doc' = "DELETED"
  /\ JobsKept(r) /\ Held(r)

LEMMA EffectKeepsQueue ==
  ASSUME TypeOK, QueueInv, NEW r \in Runners, Effect(r), TaskInv(r)',
         \A j \in Jobs : BullInv(j)'
  PROVE  QueueInv'
  <1>1. \A s \in Runners : TaskInv(s)'
    <2> SUFFICES ASSUME NEW s \in Runners, s # r
                 PROVE  TaskInv(s)'
      OBVIOUS
    <2>1. TaskInv(s) /\ task'[s] = task[s] /\ mode' = mode
      BY DEF QueueInv, Effect
    <2>2. OnJob(s)' <=> OnJob(s)
      BY <2>1 DEF OnJob
    <2>3. OnJob(s) => jobs'[task[s].job].status # "NONE"
      BY <2>1 DEF TaskInv, Effect, JobsKept
    <2>4. task[s].at = "adding" => bull'[task[s].job].state = "ABSENT"
      <3> SUFFICES ASSUME task[s].at = "adding"
                   PROVE  bull'[task[s].job].state = "ABSENT"
        OBVIOUS
      <3>1. task[s].job \in Jobs /\ bull[task[s].job].state = "ABSENT"
        BY <2>1 DEF TaskInv, OnJob
      <3>2. ~ (task[r].at = "adding" /\ task[s].job = task[r].job)
        BY DEF QueueInv
      <3>. QED BY <3>1, <3>2 DEF Effect, JobsKept
    <2>. QED BY <2>1, <2>2, <2>3, <2>4 DEF TaskInv
  <1>2. \A q, s \in Runners :
          task'[q].at = "adding" /\ task'[s].at = "adding" /\ task'[q].job = task'[s].job => q = s
    <2> SUFFICES ASSUME NEW s \in Runners, s # r, task'[r].at = "adding", task'[s].at = "adding",
                        task'[s].job = task'[r].job
                 PROVE  FALSE
      BY DEF QueueInv, Effect
    <2>1. task[s].at = "adding" /\ task[s].job = task'[r].job
      BY DEF Effect
    <2>2. jobs[task[s].job].status # "NONE"
      BY <2>1 DEF QueueInv, TaskInv, OnJob
    <2>. QED BY <2>1, <2>2 DEF Effect
  <1>3. \A i, j \in Jobs :
          jobs'[i].status \in ActiveStatuses /\ jobs'[j].status \in ActiveStatuses => i = j
    BY DEF QueueInv, Effect, JobsKept
  <1>4. \A j \in Jobs : jobs'[j].status # "NONE" => mode' = "queue"
    BY DEF QueueInv, Effect, JobsKept
  <1>. QED BY <1>1, <1>2, <1>3, <1>4 DEF QueueInv

LEMMA EffectKeepsAlone ==
  ASSUME TypeOK, QueueInv, Alone, NEW r \in Runners, Effect(r), AloneInv(r)'
  PROVE  Alone'
  <1> SUFFICES ASSUME NEW s \in Runners, s # r
               PROVE  AloneInv(s)'
    BY DEF Alone
  <1>1. /\ AloneInv(s) /\ AloneInv(r) /\ TaskInv(s) /\ TaskInv(r)
        /\ task'[s] = task[s] /\ mode' = mode /\ mishaps \subseteq mishaps'
    BY DEF Alone, QueueInv, Effect
  <1>2. r \notin Workers => r \in Requests
    BY DEF Runners
  <1>3. ASSUME "lockLost" \notin mishaps', s \in Workers, task[s].at # "idle"
        PROVE  bull'[task[s].job].owner = s
    <2>1. bull[task[s].job].owner = s /\ task[s].job \in Jobs
      BY <1>1, <1>3 DEF AloneInv, TaskInv, OnJob
    <2>. QED BY <1>3, <2>1, KnowledgeAssumption DEF Effect, JobsKept
  <1>4. ASSUME mishaps' \cap {"lockLost", "queueError"} = {}, s \in Workers,
               task[s].at \in Working
        PROVE  jobs'[task[s].job].status = "ACTIVE"
    <2>1. mishaps \cap {"lockLost", "queueError"} = {} /\ task[s].at # "idle"
      BY <1>1, <1>4 DEF Working
    <2>2. jobs[task[s].job].status = "ACTIVE" /\ task[s].job \in Jobs
            /\ bull[task[s].job].owner = s
      BY <1>1, <1>4, <2>1 DEF AloneInv, TaskInv, OnJob
    <2>3. ~ (OnJob(r) /\ task[s].job = task[r].job /\ (r \in Requests => task[r].at = "unqueued"))
      BY <1>1, <1>2, <1>4, <2>1, <2>2 DEF AloneInv, OnJob
    <2>. QED BY <2>2, <2>3 DEF Effect, JobsKept
  <1>5. ASSUME mode' = "inline", Calm', doc' # "DELETED", s \in Requests, task[s].at \in Holding
        PROVE  doc' = "PROCESSING" /\ \A q \in Requests : task'[q].at \in Holding => q = s
    <2>1. Calm /\ doc # "DELETED" /\ mode = "inline" /\ "dbError" \notin mishaps'
      BY <1>1, <1>5 DEF Calm, Effect
    <2>2. doc = "PROCESSING" /\ \A q \in Requests : task[q].at \in Holding => q = s
      BY <1>1, <1>5, <2>1 DEF AloneInv
    <2>3. doc' = doc /\ ~ (r \in Requests /\ task'[r].at \in Holding)
      BY <2>1, <2>2 DEF Effect, Held
    <2>. QED BY <2>2, <2>3 DEF Effect, Runners
  <1>. QED BY <1>1, <1>3, <1>4, <1>5 DEF AloneInv

-----------------------------------------------------------------------------
(* What one runner's step has to show *)

Good(r) == Effect(r) /\ TaskInv(r)' /\ AloneInv(r)' /\ \A j \in Jobs : BullInv(j)'

LEMMA GoodIsEnough ==
  ASSUME TypeOK, QueueInv, Alone, NEW r \in Runners, Good(r)
  PROVE  QueueInv' /\ Alone' /\ QueueType'
  BY EffectKeepsQueue, EffectKeepsAlone, QueueTyped
  DEF Good, Effect, JobsKept, QueueType

LEMMA RowStepMishaps ==
  ASSUME TypeOK, IsFiniteSet(mishaps), RowStep
  PROVE  /\ UNCHANGED mode /\ mishaps \subseteq mishaps' /\ mishaps' \subseteq Mishaps
         /\ faults' \in 0 .. MaxFaults /\ IsFiniteSet(mishaps')
         /\ doc = "DELETED" => doc' = "DELETED"
  BY HappensOnce DEF RowStep, Mishaped, TypeOK

\* A step of a runner that goes on.
LEMMA MoveIsGood ==
  ASSUME TypeOK, IsFiniteSet(mishaps), QueueInv, Alone, RowStep,
         NEW r \in Runners, NEW step, Moves(r, step), task' \in [Runners -> Tasks],
         UNCHANGED bull, JobsKept(r), task[r].at # "idle",
         step \notin {"idle", "adding", "unqueued"},
         r \in Workers => step \in WorkerSteps,
         r \in Requests => step \in RequestSteps /\ (mode = "queue" => step = "failDocument"),
         step \in Working => \/ task[r].at \in Working /\ UNCHANGED jobs
                             \/ jobs'[task[r].job].status = "ACTIVE",
         r \in Requests /\ step \in Holding =>
           \/ mode = "queue" \/ "dbError" \in mishaps' \/ doc = "DELETED"
           \/ task[r].at \in Holding /\ doc' = doc,
         Held(r)
  PROVE  Good(r)
  <1>1. UNCHANGED mode /\ mishaps \subseteq mishaps' /\ (doc = "DELETED" => doc' = "DELETED")
    BY RowStepMishaps
  <1>2. /\ \A s \in Runners : s # r => task'[s] = task[s]
        /\ task'[r].at = step /\ task'[r].job = task[r].job
    BY DEF Moves
  <1>3. Effect(r)
    BY <1>1, <1>2 DEF Effect
  <1>4. TaskInv(r) /\ AloneInv(r) /\ (\A j \in Jobs : BullInv(j))
    BY DEF QueueInv, Alone
  <1>5. \A j \in Jobs : BullInv(j)'
    BY <1>4 DEF BullInv, JobsKept
  <1>6. OnJob(r)' => OnJob(r)
    BY <1>2 DEF OnJob
  <1>7. TaskInv(r)'
    BY <1>1, <1>2, <1>4, <1>6 DEF TaskInv, JobsKept, RequestSteps
  <1>8. ASSUME mode' = "inline", Calm', doc' # "DELETED", r \in Requests, task'[r].at \in Holding
        PROVE  doc' = "PROCESSING" /\ \A s \in Requests : task'[s].at \in Holding => s = r
    <2>1. Calm /\ doc # "DELETED" /\ mode = "inline" /\ "dbError" \notin mishaps'
      BY <1>1, <1>8 DEF Calm
    <2>2. task[r].at \in Holding /\ doc' = doc
      BY <1>2, <1>8, <2>1
    <2>3. doc = "PROCESSING" /\ \A s \in Requests : task[s].at \in Holding => s = r
      BY <1>4, <1>8, <2>1, <2>2 DEF AloneInv
    <2>. QED BY <1>2, <2>2, <2>3 DEF Runners
  <1>9. AloneInv(r)'
    BY <1>1, <1>2, <1>4, <1>8 DEF AloneInv
  <1>. QED BY <1>3, <1>5, <1>7, <1>9 DEF Good

\* A step that ends a run or a request.
LEMMA LeaveIsGood ==
  ASSUME TypeOK, IsFiniteSet(mishaps), QueueInv, Alone, RowStep,
         NEW r \in Runners, Takes(r, NoTask), task' \in [Runners -> Tasks],
         JobsKept(r), \A j \in Jobs : BullInv(j)', Held(r)
  PROVE  Good(r)
  <1>1. UNCHANGED mode /\ mishaps \subseteq mishaps' /\ (doc = "DELETED" => doc' = "DELETED")
    BY RowStepMishaps
  <1>2. /\ \A s \in Runners : s # r => task'[s] = task[s]
        /\ task'[r].at = "idle" /\ task'[r].job = 0
    BY DEF Takes, NoTask
  <1>3. Effect(r)
    BY <1>1, <1>2 DEF Effect
  <1>4. TaskInv(r)'
    BY <1>2 DEF TaskInv, OnJob, RequestSteps, WorkerSteps
  <1>5. AloneInv(r)'
    BY <1>2 DEF AloneInv, Working, Holding
  <1>. QED BY <1>3, <1>4, <1>5 DEF Good

\* Rows and Bull jobs that nobody writes.
LEMMA QueueUntouched ==
  ASSUME TypeOK, QueueInv, NEW r \in Runners
  PROVE  /\ UNCHANGED <<jobs, bull>> => JobsKept(r) /\ (\A j \in Jobs : BullInv(j)')
         /\ UNCHANGED <<doc, task>> => Held(r)
  BY QueueTyped DEF QueueType, JobsKept, Held, QueueInv, BullInv

\* A runner writes the row of its own job, which it did not give a verdict.
LEMMA OwnJobWritten ==
  ASSUME TypeOK, QueueInv, NEW r \in Runners, UNCHANGED bull,
         OnJob(r), r \in Requests => task[r].at = "unqueued",
         \/ \E status \in Ended : FinishJob(task[r].job, status)
         \/ \E status \in ActiveStatuses :
              SetJob(task[r].job, status) /\ jobs[task[r].job].status \in ActiveStatuses
  PROVE  JobsKept(r)
  <1>1. task[r].job \in Jobs /\ jobs[task[r].job].status # "NONE"
    BY DEF QueueInv, TaskInv
  <1>2. bull' \in [Jobs -> BullJobs]
    BY QueueTyped DEF QueueType
  <1>3. ASSUME NEW status \in Ended, FinishJob(task[r].job, status)
        PROVE  JobsKept(r)
    BY <1>1, <1>2, <1>3, Finishes DEF JobsKept, Ended, ActiveStatuses
  <1>4. ASSUME NEW status \in ActiveStatuses, SetJob(task[r].job, status),
               jobs[task[r].job].status \in ActiveStatuses
        PROVE  JobsKept(r)
    BY <1>1, <1>2, <1>4, JobFields DEF JobsKept, Statuses, ActiveStatuses, Ended
  <1>. QED BY <1>3, <1>4

-----------------------------------------------------------------------------
(* The steps of a worker and of a request *)

Solid == TypeOK /\ IsFiniteSet(mishaps) /\ QueueInv /\ Alone

LEMMA ProcessIsGood ==
  ASSUME Solid, NEW w \in Workers, Process(w), RowStep
  PROVE  Good(w)
  <1>. USE DEF Solid
  <1>0. /\ w \in Runners /\ w \notin Requests /\ TaskInv(w) /\ AloneInv(w)
        /\ \A j \in Jobs : BullInv(j)
    BY KnowledgeAssumption DEF Runners, QueueInv, Alone
  <1>1. ASSUME UNCHANGED <<jobs, bull, doc>>, task[w].at # "idle",
               NEW step \in WorkerSteps \ {"idle"}, Goto(w, step),
               step \in Working => task[w].at \in Working
        PROVE  Good(w)
    BY <1>0, <1>1, Goes, MoveIsGood, QueueUntouched DEF WorkerSteps, Steps, Held
  <1>2. ASSUME UNCHANGED <<bull, doc>>, task[w].at # "idle",
               NEW step \in WorkerSteps \ {"idle"}, Goto(w, step), step \notin Working,
               \/ \E status \in Ended : FinishJob(task[w].job, status)
               \/ \E status \in ActiveStatuses :
                    SetJob(task[w].job, status) /\ jobs[task[w].job].status \in ActiveStatuses
        PROVE  Good(w)
    <2>1. OnJob(w)
      BY <1>2 DEF OnJob
    <2>2. JobsKept(w)
      BY <1>0, <1>2, <2>1, OwnJobWritten
    <2>3. Moves(w, step) /\ task' \in [Runners -> Tasks]
      BY <1>0, <1>2, Goes DEF WorkerSteps, Steps
    <2>. QED BY <1>0, <1>2, <2>2, <2>3, MoveIsGood DEF WorkerSteps, Held
  <1>3. CASE MarkActive(w)
    <2>1. CASE jobs[task[w].job].status \in ActiveStatuses
      <3>1. /\ SetJob(task[w].job, "ACTIVE") /\ Goto(w, "checking") /\ UNCHANGED <<bull, doc>>
            /\ task[w].at = "activating"
        BY <1>3, <2>1 DEF MarkActive, row
      <3>2. OnJob(w) /\ task[w].job \in Jobs
        BY <1>0, <3>1 DEF OnJob, TaskInv
      <3>3. JobsKept(w)
        BY <1>0, <2>1, <3>1, <3>2, OwnJobWritten DEF ActiveStatuses
      <3>4. Moves(w, "checking") /\ task' \in [Runners -> Tasks]
        BY <1>0, <3>1, Goes DEF Steps
      <3>5. jobs'[task[w].job].status = "ACTIVE"
        BY <3>1, <3>2, JobFields DEF Statuses, ActiveStatuses
      <3>. QED BY <1>0, <3>1, <3>3, <3>4, <3>5, MoveIsGood DEF WorkerSteps, Held
    <2>2. CASE jobs[task[w].job].status \notin ActiveStatuses
      BY <1>1, <1>3, <2>2 DEF MarkActive, row, WorkerSteps, Working
    <2>. QED BY <2>1, <2>2
  <1>4. CASE CheckDocument(w)
    BY <1>1, <1>4 DEF CheckDocument, row, queue, WorkerSteps, Working
  <1>5. CASE HandleConflict(w)
    BY <1>1, <1>5 DEF HandleConflict, row, queue, WorkerSteps, Working
  <1>6. CASE MarkStaleSkipped(w)
    BY <1>2, <1>6 DEF MarkStaleSkipped, row, WorkerSteps, Working, Ended
  <1>7. CASE MarkJobFailed(w)
    BY <1>2, <1>7 DEF MarkJobFailed, row, WorkerSteps, Working, Ended
  <1>8. CASE HandleRetryable(w)
    <2>1. CASE jobs[task[w].job].status = "ACTIVE"
      BY <1>2, <1>8, <2>1 DEF HandleRetryable, row, WorkerSteps, Working, ActiveStatuses
    <2>2. CASE jobs[task[w].job].status # "ACTIVE"
      BY <1>1, <1>8, <2>2 DEF HandleRetryable, row, WorkerSteps, Working
    <2>. QED BY <2>1, <2>2
  <1>9. ASSUME UNCHANGED <<jobs, doc>>, Leave(w), task[w].at # "idle",
               bull' \in [Jobs -> BullJobs],
               \/ UNCHANGED bull
               \/ /\ bull[task[w].job].owner = w
                  /\ \E state \in {"WAITING", "COMPLETED", "FAILED"} : \E made : \E stalls :
                       /\ Becomes(task[w].job, state, made, stalls, Nobody)
                       /\ state = "WAITING" => made < MaxAttempts
        PROVE  Good(w)
    <2>1. Takes(w, NoTask) /\ task' \in [Runners -> Tasks]
      BY <1>0, <1>9, Leaves
    <2>2. task[w].job \in Jobs /\ jobs[task[w].job].status # "NONE"
      BY <1>0, <1>9 DEF TaskInv, OnJob
    <2>3. Held(w)
      BY <1>0, <1>9 DEF Held
    <2>4. CASE UNCHANGED bull
      BY <1>0, <1>9, <2>1, <2>3, <2>4, QueueUntouched, LeaveIsGood
    <2>5. ASSUME NEW state \in {"WAITING", "COMPLETED", "FAILED"}, NEW made, NEW stalls,
                 bull[task[w].job].owner = w, Becomes(task[w].job, state, made, stalls, Nobody),
                 state = "WAITING" => made < MaxAttempts
          PROVE  Good(w)
      <3>1. \A j \in Jobs : BullInv(j)'
        BY <1>0, <1>9, <2>2, <2>5 DEF BullInv, Becomes
      <3>2. bull[task[w].job].state # "ABSENT"
        BY <1>0, <2>2, <2>5, KnowledgeAssumption DEF BullInv
      <3>3. JobsKept(w)
        BY <1>0, <1>9, <2>2, <2>5, <3>2, QueueTyped DEF JobsKept, Becomes, QueueType
      <3>. QED BY <1>0, <2>1, <2>3, <3>1, <3>3, LeaveIsGood
    <2>. QED BY <1>9, <2>4, <2>5
  <1>10. CASE Return(w)
    <2>1. UNCHANGED <<jobs, doc>> /\ Leave(w) /\ task[w].at # "idle"
      BY <1>10 DEF Return, row
    <2>2. task[w].job \in Jobs
      BY <1>0, <2>1 DEF TaskInv, OnJob
    <2>3. CASE bull[task[w].job].owner = w
      <3>1. bull' = [bull EXCEPT ![task[w].job].state = "COMPLETED", ![task[w].job].owner = Nobody]
        BY <1>10, <2>3 DEF Return
      <3>2. /\ bull' \in [Jobs -> BullJobs]
            /\ Becomes(task[w].job, "COMPLETED", bull[task[w].job].made, bull[task[w].job].stalls,
                       Nobody)
        BY <2>2, <3>1, BecomesOwned
      <3>. QED BY <1>9, <2>1, <2>3, <3>2
    <2>4. CASE bull[task[w].job].owner # w
      <3>1. UNCHANGED bull
        BY <1>10, <2>4 DEF Return
      <3>. QED BY <1>9, <2>1, <3>1, QueueTyped DEF QueueType
    <2>. QED BY <2>3, <2>4
  <1>11. CASE Throw(w)
    <2>1. UNCHANGED <<jobs, doc>> /\ Leave(w) /\ task[w].at # "idle"
      BY <1>11 DEF Throw, row
    <2>2. task[w].job \in Jobs
      BY <1>0, <2>1 DEF TaskInv, OnJob
    <2>3. CASE bull[task[w].job].owner = w
      <3>1. bull[task[w].job].made < MaxAttempts
        BY <1>0, <2>2, <2>3, KnowledgeAssumption DEF BullInv
      <3>2. /\ bull' \in [Jobs -> BullJobs]
            /\ Becomes(task[w].job,
                       IF bull[task[w].job].made + 1 < MaxAttempts THEN "WAITING" ELSE "FAILED",
                       bull[task[w].job].made + 1, bull[task[w].job].stalls, Nobody)
        BY <1>11, <2>2, <2>3, <3>1, BecomesThrown DEF Throw
      <3>. QED BY <1>9, <2>1, <2>3, <3>2
    <2>4. CASE bull[task[w].job].owner # w
      <3>1. UNCHANGED bull
        BY <1>11, <2>4 DEF Throw
      <3>. QED BY <1>9, <2>1, <3>1, QueueTyped DEF QueueType
    <2>. QED BY <2>3, <2>4
  <1>. QED BY <1>3, <1>4, <1>5, <1>6, <1>7, <1>8, <1>10, <1>11 DEF Process

\* A step inside the pipeline, of a worker or of a request in inline mode.
LEMMA PipelineIsGood ==
  ASSUME Solid, RowStep, NEW r \in Runners, UNCHANGED <<jobs, bull>>,
         NEW step \in {"loading", "replacing", "finishing", "done", "failing"},
         Goto(r, step) \/ \E error \in Errors : step = "failing" /\ Fail(r, error),
         task[r].at \in {"clearing", "loading", "replacing", "finishing", "done"},
         step \in Working => task[r].at \in Working,
         doc' = doc \/ step = "done",
         task[r].at = "done" => doc = "DELETED" \/ "dbError" \in mishaps'
  PROVE  Good(r)
  <1>. USE DEF Solid
  <1>1. Moves(r, step) /\ task' \in [Runners -> Tasks]
    BY Goes, Fails DEF Steps
  <1>2. TaskInv(r) /\ AloneInv(r)
    BY DEF QueueInv, Alone
  <1>3. r \in Requests => mode # "queue"
    BY <1>2 DEF TaskInv
  <1>4. JobsKept(r)
    BY QueueUntouched
  <1>5. r \in Workers => r \notin Requests /\ mode = "queue"
    BY <1>2, KnowledgeAssumption DEF TaskInv, OnJob
  <1>6. Held(r)
    BY <1>1, <1>2, <1>5 DEF Held, Moves, Holding, Runners
  <1>7. r \in Requests /\ step \in Holding =>
           \/ mode = "queue" \/ "dbError" \in mishaps' \/ doc = "DELETED"
           \/ task[r].at \in Holding /\ doc' = doc
    BY DEF Holding
  <1>. QED BY <1>1, <1>3, <1>4, <1>6, <1>7, MoveIsGood DEF WorkerSteps, RequestSteps

LEMMA RunIsGood ==
  ASSUME Solid, NEW r \in Runners, Run(r), RowStep
  PROVE  Good(r)
  <1>. USE DEF Solid
  <1>0. /\ TaskInv(r) /\ AloneInv(r) /\ (\A j \in Jobs : BullInv(j))
        /\ r \in Workers <=> r \notin Requests
    BY KnowledgeAssumption DEF Runners, QueueInv, Alone
  <1>1. CASE ClearChunks(r)
    BY <1>1, PipelineIsGood DEF ClearChunks, Overtaken, queue, Errors, Working
  <1>2. CASE Load(r)
    BY <1>2, PipelineIsGood DEF Load, row, queue, Errors, Working
  <1>3. CASE ReplaceChunks(r)
    BY <1>3, PipelineIsGood DEF ReplaceChunks, queue, Errors, Working
  <1>4. CASE MarkDone(r)
    BY <1>4, PipelineIsGood DEF MarkDone, queue, Errors, Working
  <1>5. CASE MarkSucceeded(r)
    <2>1. task[r].at = "done" /\ UNCHANGED <<bull, doc>>
      BY <1>5 DEF MarkSucceeded, row
    <2>2. CASE r \in Workers /\ FinishJob(task[r].job, "SUCCEEDED") /\ Goto(r, "recorded")
      <3>1. JobsKept(r)
        BY <1>0, <2>1, <2>2, OwnJobWritten DEF OnJob, Ended
      <3>2. Moves(r, "recorded") /\ task' \in [Runners -> Tasks]
        BY <2>2, Goes DEF Steps
      <3>3. Held(r)
        BY <1>0, <2>1, <2>2 DEF Held
      <3>. QED BY <1>0, <2>1, <2>2, <3>1, <3>2, <3>3, MoveIsGood DEF WorkerSteps, Working
    <2>3. CASE r \in Requests /\ Leave(r) /\ UNCHANGED jobs
      <3>1. Takes(r, NoTask) /\ task' \in [Runners -> Tasks]
        BY <2>3, Leaves
      <3>2. Held(r)
        BY <2>1, <3>1 DEF Held, Takes, NoTask, Holding
      <3>. QED BY <2>1, <2>3, <3>1, <3>2, QueueUntouched, LeaveIsGood
    <2>4. CASE doc = "DELETED" /\ Fail(r, "permanent") /\ UNCHANGED jobs
      BY <2>1, <2>4, PipelineIsGood DEF Errors, Working
    <2>. QED BY <1>5, <2>2, <2>3, <2>4 DEF MarkSucceeded
  <1>6. CASE MarkDocumentFailed(r)
    <2>1. task[r].at = "failDocument" /\ UNCHANGED <<bull, jobs>>
      BY <1>6 DEF MarkDocumentFailed, queue
    <2>2. r \in Requests \/ mode = "queue"
      BY <1>0, <2>1 DEF TaskInv, OnJob
    <2>3. Held(r)
      BY <2>1, <2>2 DEF Held, Holding
    <2>4. CASE r \in Requests
      <3>1. Takes(r, NoTask) /\ task' \in [Runners -> Tasks]
        BY <1>6, <2>4, Leaves DEF MarkDocumentFailed
      <3>. QED BY <2>1, <2>3, <3>1, QueueUntouched, LeaveIsGood
    <2>5. CASE r \notin Requests
      <3>1. PICK step \in {"return", "throw"} : Goto(r, step)
        BY <1>6, <2>5 DEF MarkDocumentFailed
      <3>2. Moves(r, step) /\ task' \in [Runners -> Tasks]
        BY <3>1, Goes DEF Steps
      <3>. QED BY <1>0, <2>1, <2>3, <2>5, <3>2, QueueUntouched, MoveIsGood DEF WorkerSteps, Working
    <2>. QED BY <2>4, <2>5
  <1>. QED BY <1>1, <1>2, <1>3, <1>4, <1>5, <1>6 DEF Run

LEMMA MishapIsGood ==
  ASSUME Solid, NEW r \in Runners, DatabaseFails(r) \/ Crash(r), RowStep
  PROVE  Good(r)
  <1>. USE DEF Solid
  <1>0. /\ TaskInv(r) /\ AloneInv(r) /\ (\A j \in Jobs : BullInv(j))
        /\ r \in Workers <=> r \notin Requests
    BY KnowledgeAssumption DEF Runners, QueueInv, Alone
  <1>1. CASE DatabaseFails(r)
    <2>1. UNCHANGED <<doc, jobs, bull>> /\ "dbError" \in mishaps'
      BY <1>1 DEF DatabaseFails, row, queue, Mishap
    <2>2. JobsKept(r) /\ (\A j \in Jobs : BullInv(j)') /\ Held(r)
      BY <2>1, QueueUntouched DEF Held
    <2>3. CASE /\ task[r].at \in {"clearing", "replacing", "finishing", "done"}
                    \cup (IF r \in Workers THEN {"recorded"} ELSE {})
               /\ Fail(r, "retryable")
      <3>1. Moves(r, "failing") /\ task' \in [Runners -> Tasks]
        BY <2>3, Fails DEF Errors
      <3>2. r \in Requests => mode # "queue"
        BY <1>0, <2>3 DEF TaskInv
      <3>. QED BY <2>1, <2>2, <2>3, <3>1, <3>2, MoveIsGood DEF WorkerSteps, RequestSteps, Working
    <2>4. CASE r \in Workers /\ task[r].at # "idle" /\ Goto(r, "throw")
      <3>1. Moves(r, "throw") /\ task' \in [Runners -> Tasks]
        BY <2>4, Goes DEF Steps
      <3>. QED BY <1>0, <2>1, <2>2, <2>4, <3>1, MoveIsGood DEF WorkerSteps, Working
    <2>5. CASE Leave(r)
      BY <2>2, <2>5, Leaves, LeaveIsGood
    <2>. QED BY <1>1, <2>3, <2>4, <2>5 DEF DatabaseFails
  <1>2. CASE Crash(r)
    <2>1. UNCHANGED <<doc, jobs>> /\ Leave(r) /\ task[r].at # "idle"
      BY <1>2 DEF Crash, row
    <2>2. Takes(r, NoTask) /\ task' \in [Runners -> Tasks] /\ Held(r)
      BY <2>1, Leaves DEF Held, Takes, NoTask, Holding
    <2>3. CASE UNCHANGED bull
      BY <2>1, <2>2, <2>3, QueueUntouched, LeaveIsGood
    <2>4. CASE /\ r \in Workers /\ bull[task[r].job].owner = r
               /\ bull' = [bull EXCEPT ![task[r].job].owner = Ghost]
      <3>1. task[r].job \in Jobs /\ jobs[task[r].job].status # "NONE"
        BY <1>0, <2>1, <2>4 DEF TaskInv, OnJob
      <3>2. /\ Becomes(task[r].job, bull[task[r].job].state, bull[task[r].job].made,
                       bull[task[r].job].stalls, Ghost)
            /\ bull' \in [Jobs -> BullJobs]
        BY <2>4, <3>1, BecomesGhosts
      <3>3. \A j \in Jobs : BullInv(j)'
        BY <1>0, <2>1, <2>4, <3>1, <3>2, KnowledgeAssumption DEF BullInv, Becomes
      <3>4. JobsKept(r)
        BY <2>1, <2>4, <3>1, <3>2, QueueTyped DEF JobsKept, Becomes, QueueType
      <3>. QED BY <2>2, <3>3, <3>4, LeaveIsGood
    <2>. QED BY <1>2, <2>3, <2>4 DEF Crash
  <1>. QED BY <1>1, <1>2

LEMMA FetchIsGood ==
  ASSUME Solid, NEW w \in Workers, Fetch(w), RowStep
  PROVE  Good(w)
  <1>. USE DEF Solid
  <1>0. /\ w \in Runners /\ w \notin Requests /\ TaskInv(w) /\ AloneInv(w)
        /\ \A j \in Jobs : BullInv(j)
    BY KnowledgeAssumption DEF Runners, QueueInv, Alone
  <1>1. PICK j \in Jobs :
          /\ bull[j].state = "WAITING"
          /\ bull' = [bull EXCEPT ![j].state = "RUNNING", ![j].owner = w]
          /\ task' = [task EXCEPT ![w] = [at |-> "activating", job |-> j,
                                          version |-> jobs[j].version,
                                          made |-> bull[j].made, error |-> "none"]]
    BY DEF Fetch
  <1>2. /\ Becomes(j, "RUNNING", bull[j].made, bull[j].stalls, w)
        /\ bull' \in [Jobs -> BullJobs]
    BY <1>1, BecomesOwned
  <1>3. UNCHANGED <<jobs, doc, mishaps>>
    BY DEF Fetch, row
  <1>4. [at |-> "activating", job |-> j, version |-> jobs[j].version,
         made |-> bull[j].made, error |-> "none"] \in Tasks
    BY QueueTyped DEF QueueType, JobRows, BullJobs, Tasks, Steps, Errors, Jobs
  <1>5. /\ task' \in [Runners -> Tasks] /\ (\A s \in Runners : s # w => task'[s] = task[s])
        /\ task'[w].at = "activating" /\ task'[w].job = j
    BY <1>0, <1>1, <1>4, QueueTyped DEF QueueType
  <1>6. bull[j].owner = Nobody /\ jobs[j].status # "NONE"
    BY <1>0, <1>1 DEF BullInv
  <1>7. \A i \in Jobs : BullInv(i)'
    BY <1>0, <1>1, <1>2, <1>3, <1>6, KnowledgeAssumption DEF BullInv, Becomes
  <1>8. JobsKept(w)
    BY <1>1, <1>2, <1>3, <1>6, QueueTyped DEF JobsKept, Becomes, QueueType
  <1>9. Held(w)
    BY <1>0, <1>3 DEF Held
  <1>10. UNCHANGED mode
    BY RowStepMishaps
  <1>11. mode = "queue"
    BY <1>6 DEF QueueInv
  <1>12. Effect(w)
    BY <1>5, <1>8, <1>9, <1>10, RowStepMishaps DEF Effect
  <1>13. TaskInv(w)'
    BY <1>0, <1>3, <1>5, <1>6, <1>10, <1>11 DEF TaskInv, WorkerSteps
  <1>14. AloneInv(w)'
    BY <1>0, <1>2, <1>5 DEF AloneInv, Becomes, Working
  <1>. QED BY <1>7, <1>12, <1>13, <1>14 DEF Good

LEMMA ClaimIsGood ==
  ASSUME Solid, NEW q \in Requests, ClaimAndCreateJob(q), RowStep
  PROVE  Good(q)
  <1>. USE DEF Solid
  <1>0. /\ q \in Runners /\ q \notin Workers /\ TaskInv(q) /\ AloneInv(q)
        /\ \A j \in Jobs : BullInv(j)
    BY KnowledgeAssumption DEF Runners, QueueInv, Alone
  <1>1. PICK j \in Jobs :
          /\ jobs[j].status = "NONE"
          /\ jobs' = [jobs EXCEPT ![j] = [status |-> "QUEUED", version |-> version]]
          /\ task' = [task EXCEPT ![q] = [at |-> "adding", job |-> j, version |-> version,
                                          made |-> 0, error |-> "none"]]
    BY DEF ClaimAndCreateJob
  <1>2. /\ UNCHANGED bull /\ mode = "queue" /\ UNCHANGED mode /\ doc # "DELETED"
        /\ \A i \in Jobs : jobs[i].status \notin ActiveStatuses
    BY DEF ClaimAndCreateJob
  <1>3. version \in 0 .. MaxVersions /\ j \in 0 .. MaxJobs
    BY StorageTyped DEF StorageType, Versions, Jobs
  <1>4. /\ [at |-> "adding", job |-> j, version |-> version, made |-> 0, error |-> "none"] \in Tasks
        /\ [status |-> "QUEUED", version |-> version] \in JobRows
    BY <1>3, KnowledgeAssumption DEF Tasks, Steps, Errors, JobRows, Statuses, ActiveStatuses
  <1>5. /\ task' \in [Runners -> Tasks] /\ (\A s \in Runners : s # q => task'[s] = task[s])
        /\ task'[q].at = "adding" /\ task'[q].job = j
    BY <1>0, <1>1, <1>4, QueueTyped DEF QueueType
  <1>6. /\ jobs' \in [Jobs -> JobRows] /\ jobs'[j].status = "QUEUED"
        /\ \A i \in Jobs : i # j => jobs'[i] = jobs[i]
    BY <1>1, <1>4, QueueTyped DEF QueueType
  <1>7. bull[j].state = "ABSENT"
    BY <1>0, <1>1 DEF BullInv
  <1>8. \A i \in Jobs : BullInv(i)'
    BY <1>0, <1>2, <1>6 DEF BullInv
  <1>9. JobsKept(q)
    BY <1>1, <1>2, <1>6, QueueTyped DEF JobsKept, QueueType, Ended
  <1>10. Held(q)
    BY <1>2 DEF Held
  <1>11. Effect(q)
    BY <1>1, <1>5, <1>9, <1>10, RowStepMishaps DEF Effect
  <1>12. TaskInv(q)'
    BY <1>0, <1>2, <1>5, <1>6, <1>7 DEF TaskInv, RequestSteps
  <1>13. AloneInv(q)'
    BY <1>0, <1>5 DEF AloneInv, Holding
  <1>. QED BY <1>8, <1>11, <1>12, <1>13 DEF Good

LEMMA ClaimInlineIsGood ==
  ASSUME Solid, NEW q \in Requests, ClaimInline(q), RowStep
  PROVE  Good(q)
  <1>. USE DEF Solid
  <1>0. /\ q \in Runners /\ q \notin Workers /\ AloneInv(q)
        /\ \A s \in Requests : s \in Runners /\ AloneInv(s)
    BY KnowledgeAssumption DEF Runners, Alone
  <1>1. /\ task' = [task EXCEPT ![q] = [at |-> "clearing", job |-> 0, version |-> version,
                                        made |-> 0, error |-> "none"]]
        /\ UNCHANGED <<jobs, bull, mode, mishaps>> /\ mode = "inline"
        /\ doc \in {"PENDING", "DONE", "FAILED"} /\ doc' = "PROCESSING"
    BY DEF ClaimInline, queue, SetStatus
  <1>2. version \in 0 .. MaxVersions
    BY StorageTyped DEF StorageType, Versions
  <1>3. [at |-> "clearing", job |-> 0, version |-> version, made |-> 0, error |-> "none"] \in Tasks
    BY <1>2, KnowledgeAssumption DEF Tasks, Steps, Errors
  <1>4. /\ task' \in [Runners -> Tasks] /\ (\A s \in Runners : s # q => task'[s] = task[s])
        /\ task'[q].at = "clearing"
    BY <1>0, <1>1, <1>3, QueueTyped DEF QueueType
  <1>5. JobsKept(q) /\ (\A j \in Jobs : BullInv(j)')
    BY <1>0, <1>1, QueueUntouched
  <1>6. Effect(q)
    BY <1>1, <1>4, <1>5, RowStepMishaps DEF Effect, Held
  <1>7. TaskInv(q)'
    BY <1>0, <1>1, <1>4 DEF TaskInv, OnJob, RequestSteps
  <1>8. Calm => \A s \in Requests : task[s].at \notin Holding
    BY <1>0, <1>1 DEF AloneInv
  <1>9. AloneInv(q)'
    BY <1>0, <1>1, <1>4, <1>8 DEF AloneInv, Calm
  <1>. QED BY <1>5, <1>6, <1>7, <1>9 DEF Good

LEMMA RequestIsGood ==
  ASSUME Solid, NEW q \in Requests, Request(q), RowStep
  PROVE  Good(q)
  <1>. USE DEF Solid
  <1>0. /\ q \in Runners /\ q \notin Workers /\ TaskInv(q) /\ AloneInv(q)
        /\ \A j \in Jobs : BullInv(j)
    BY KnowledgeAssumption DEF Runners, QueueInv, Alone
  <1>1. CASE AddToQueue(q)
    <2>1. UNCHANGED <<jobs, doc>> /\ task[q].at = "adding"
      BY <1>1 DEF AddToQueue, row
    <2>2. /\ task[q].job \in Jobs /\ jobs[task[q].job].status # "NONE" /\ mode = "queue"
          /\ bull[task[q].job].state = "ABSENT"
      BY <1>0, <2>1 DEF TaskInv, OnJob
    <2>3. /\ bull' \in [Jobs -> BullJobs]
          /\ \/ UNCHANGED bull
             \/ Becomes(task[q].job, "WAITING", bull[task[q].job].made, bull[task[q].job].stalls,
                        bull[task[q].job].owner)
      <3>1. UNCHANGED bull \/ bull' = [bull EXCEPT ![task[q].job].state = "WAITING"]
        BY <1>1 DEF AddToQueue
      <3>. QED BY <2>2, <3>1, BecomesState, QueueTyped DEF QueueType
    <2>4. \A j \in Jobs : BullInv(j)'
      BY <1>0, <2>1, <2>2, <2>3 DEF BullInv, Becomes
    <2>5. JobsKept(q) /\ Held(q)
      BY <1>0, <2>1, <2>2, <2>3, QueueTyped DEF JobsKept, Becomes, QueueType, Held
    <2>6. CASE Leave(q)
      BY <1>0, <2>4, <2>5, <2>6, Leaves, LeaveIsGood
    <2>7. CASE Goto(q, "unqueued") /\ Mishap("queueError")
      <3>1. Moves(q, "unqueued") /\ task' \in [Runners -> Tasks]
        BY <1>0, <2>7, Goes DEF Steps
      <3>2. "queueError" \in mishaps'
        BY <2>7 DEF Mishap
      <3>3. Effect(q)
        BY <2>5, <3>1, RowStepMishaps DEF Effect, Moves
      <3>4. TaskInv(q)'
        BY <1>0, <2>1, <2>2, <3>1, RowStepMishaps DEF TaskInv, Moves, RequestSteps
      <3>5. AloneInv(q)'
        BY <1>0, <3>1, <3>2 DEF AloneInv, Moves, Holding
      <3>. QED BY <2>4, <3>3, <3>4, <3>5 DEF Good
    <2>. QED BY <1>1, <2>6, <2>7 DEF AddToQueue
  <1>2. CASE MarkEnqueueFailed(q)
    <2>1. /\ UNCHANGED <<bull, doc>> /\ task[q].at = "unqueued" /\ Goto(q, "failDocument")
          /\ FinishJob(task[q].job, "FAILED")
      BY <1>2 DEF MarkEnqueueFailed, row
    <2>2. JobsKept(q) /\ mode = "queue"
      BY <1>0, <2>1, OwnJobWritten DEF OnJob, Ended, TaskInv
    <2>3. Moves(q, "failDocument") /\ task' \in [Runners -> Tasks]
      BY <1>0, <2>1, Goes DEF Steps
    <2>. QED BY <1>0, <2>1, <2>2, <2>3, MoveIsGood DEF RequestSteps, Working, Held
  <1>3. CASE InlineFails(q)
    <2>1. UNCHANGED <<jobs, bull, doc>> /\ task[q].at = "failing" /\ Goto(q, "failDocument")
      BY <1>3 DEF InlineFails, row, queue
    <2>2. Moves(q, "failDocument") /\ task' \in [Runners -> Tasks] /\ JobsKept(q)
      BY <1>0, <2>1, Goes, QueueUntouched DEF Steps
    <2>3. Held(q)
      BY <2>1 DEF Held, Holding
    <2>. QED BY <1>0, <2>1, <2>2, <2>3, MoveIsGood DEF RequestSteps, Working, Holding
  <1>. QED BY <1>1, <1>2, <1>3 DEF Request

\* Bull takes a job away from its holder.
LEMMA StallKeepsQueue ==
  ASSUME Solid, NEW j \in Jobs, Stall(j), RowStep
  PROVE  QueueInv' /\ Alone' /\ QueueType'
  <1>. USE DEF Solid
  <1>1. /\ UNCHANGED <<jobs, task, doc>> /\ bull[j].state = "RUNNING"
        /\ bull[j].owner = Ghost \/ "lockLost" \in mishaps'
    BY DEF Stall, row, Mishap
  <1>2. PICK state \in {"WAITING", "FAILED"} : \E stalls :
          Becomes(j, state, bull[j].made, stalls, Nobody)
    BY BecomesStalled DEF Stall
  <1>3. bull' \in [Jobs -> BullJobs] /\ UNCHANGED mode /\ mishaps \subseteq mishaps'
    BY BecomesStalled, RowStepMishaps DEF Stall
  <1>4. \A i \in Jobs : BullInv(i)'
    BY <1>1, <1>2 DEF QueueInv, BullInv, Becomes
  <1>5. ASSUME NEW r \in Runners
        PROVE  TaskInv(r)' /\ AloneInv(r)'
    <2>1. TaskInv(r) /\ AloneInv(r)
      BY DEF QueueInv, Alone
    <2>2. TaskInv(r)'
      BY <1>1, <1>2, <1>3, <2>1 DEF TaskInv, OnJob, Becomes
    <2>3. ASSUME "lockLost" \notin mishaps', r \in Workers, task[r].at # "idle"
          PROVE  bull'[task[r].job].owner = r
      BY <1>1, <1>2, <1>3, <2>1, <2>3, KnowledgeAssumption DEF TaskInv, OnJob, AloneInv, Becomes
    <2>4. AloneInv(r)'
      BY <1>1, <1>3, <2>1, <2>3 DEF AloneInv, Calm
    <2>. QED BY <2>2, <2>4
  <1>6. QueueInv'
    BY <1>1, <1>3, <1>4, <1>5 DEF QueueInv
  <1>. QED BY <1>1, <1>3, <1>5, <1>6, QueueTyped DEF Alone, QueueType

LEMMA EachStepIsGood ==
  ASSUME Solid, RunnerStep, RowStep
  PROVE  (\E j \in Jobs : Stall(j)) \/ \E r \in Runners : Good(r)
  <1>1. \A q \in Requests : q \in Runners /\
          (ClaimAndCreateJob(q) \/ ClaimInline(q) \/ Request(q) => Good(q))
    BY ClaimIsGood, ClaimInlineIsGood, RequestIsGood DEF Runners
  <1>2. \A w \in Workers : w \in Runners /\ (Fetch(w) \/ Process(w) => Good(w))
    BY FetchIsGood, ProcessIsGood DEF Runners
  <1>3. \A r \in Runners : Run(r) \/ DatabaseFails(r) \/ Crash(r) => Good(r)
    BY RunIsGood, MishapIsGood
  <1>. QED BY <1>1, <1>2, <1>3 DEF RunnerStep

-----------------------------------------------------------------------------
(* The chunks *)

\* The row stays as it is and nobody is newly about to finish.
Quiet ==
  /\ UNCHANGED <<doc, version, chunks>>
  /\ \A r \in Runners : task'[r].at = "finishing" => task'[r] = task[r]

LEMMA ElsewhereIsQuiet ==
  ASSUME TypeOK, NEW r \in Runners, UNCHANGED <<doc, version, chunks>>,
         \/ \E step \in Steps \ {"finishing"} : Goto(r, step)
         \/ \E error \in Errors : Fail(r, error)
         \/ Leave(r)
  PROVE  Quiet
  <1>1. \/ \E step \in Steps \ {"finishing"} : Moves(r, step)
        \/ Takes(r, NoTask)
    BY Goes, Fails, Leaves DEF Steps
  <1>. QED BY <1>1 DEF Quiet, Moves, Takes, NoTask

LEMMA QuietRuns ==
  ASSUME Solid
  PROVE  /\ \A q \in Requests : Request(q) => Quiet
         /\ \A w \in Workers : Fetch(w) \/ Process(w) => Quiet
         /\ \A r \in Runners : Load(r) \/ MarkSucceeded(r) \/ DatabaseFails(r) \/ Crash(r) => Quiet
         /\ \A j \in Jobs : Stall(j) => Quiet
  <1>. USE DEF Solid
  <1>1. ASSUME NEW q \in Requests, Request(q)
        PROVE  Quiet
    BY <1>1, ElsewhereIsQuiet
    DEF Request, AddToQueue, MarkEnqueueFailed, InlineFails, row, Steps, Runners
  <1>2. ASSUME NEW w \in Workers, Process(w)
        PROVE  Quiet
    BY <1>2, ElsewhereIsQuiet
    DEF Process, MarkActive, CheckDocument, MarkStaleSkipped, HandleConflict, HandleRetryable,
        MarkJobFailed, Return, Throw, row, Steps, Runners
  <1>3. ASSUME NEW w \in Workers, Fetch(w)
        PROVE  Quiet
    <2>1. PICK j \in Jobs :
            task' = [task EXCEPT ![w] = [at |-> "activating", job |-> j,
                                         version |-> jobs[j].version,
                                         made |-> bull[j].made, error |-> "none"]]
      BY <1>3 DEF Fetch
    <2>. QED BY <1>3, <2>1, QueueTyped DEF Fetch, Quiet, row, Runners, QueueType
  <1>4. ASSUME NEW r \in Runners, Load(r) \/ MarkSucceeded(r) \/ DatabaseFails(r) \/ Crash(r)
        PROVE  Quiet
    <2>1. UNCHANGED <<doc, version, chunks>>
      BY <1>4 DEF Load, MarkSucceeded, DatabaseFails, Crash, row
    <2>2. \/ Goto(r, "replacing") \/ Goto(r, "recorded") \/ Goto(r, "throw")
          \/ Fail(r, "permanent") \/ Fail(r, "retryable") \/ Leave(r)
      BY <1>4 DEF Load, MarkSucceeded, DatabaseFails, Crash
    <2>. QED BY <2>1, <2>2, ElsewhereIsQuiet DEF Steps, Errors
  <1>5. ASSUME NEW j \in Jobs, Stall(j)
        PROVE  Quiet
    BY <1>5 DEF Stall, Quiet, row
  <1>. QED BY <1>1, <1>2, <1>3, <1>4, <1>5

\* As long as runs do not overlap, only one is in the pipeline of a document in processing.
LEMMA OneInThePipeline ==
  ASSUME Solid, Calm, doc = "PROCESSING", NEW r \in Runners, NEW s \in Runners,
         task[r].at \in {"clearing", "loading", "replacing", "finishing"},
         task[s].at \in {"clearing", "loading", "replacing", "finishing"}
  PROVE  r = s
  <1>1. /\ TaskInv(r) /\ TaskInv(s) /\ AloneInv(r) /\ AloneInv(s)
        /\ mishaps \cap {"lockLost", "queueError"} = {}
    BY DEF Solid, QueueInv, Alone, Calm
  <1>2. CASE mode = "queue"
    <2>1. r \in Workers /\ s \in Workers
      BY <1>1, <1>2 DEF TaskInv, Runners
    <2>2. jobs[task[r].job].status = "ACTIVE" /\ jobs[task[s].job].status = "ACTIVE"
            /\ task[r].job \in Jobs /\ task[s].job \in Jobs
      BY <1>1, <2>1 DEF AloneInv, TaskInv, OnJob, Working
    <2>3. task[r].job = task[s].job
      BY <2>2 DEF Solid, QueueInv, ActiveStatuses
    <2>. QED BY <1>1, <2>1, <2>3 DEF AloneInv
  <1>3. CASE mode = "inline"
    <2>1. r \in Requests /\ s \in Requests
      BY <1>1, <1>3 DEF TaskInv, OnJob, Runners
    <2>. QED BY <1>1, <1>3, <2>1 DEF AloneInv, Holding
  <1>. QED BY <1>2, <1>3, QueueTyped DEF Solid, QueueType

\* Nobody is in the pipeline of a document that is not in processing, but to no effect.
LEMMA NobodyFinishes ==
  ASSUME Solid, Calm, NEW r \in Runners, task[r].at = "finishing", doc # "DELETED"
  PROVE  doc = "PROCESSING" \/ \E j \in Jobs : jobs[j].status \in ActiveStatuses
  <1>1. TaskInv(r) /\ AloneInv(r) /\ mishaps \cap {"lockLost", "queueError"} = {}
    BY DEF Solid, QueueInv, Alone, Calm
  <1>2. CASE r \in Workers
    BY <1>1, <1>2 DEF TaskInv, OnJob, AloneInv, Working, ActiveStatuses
  <1>3. CASE r \in Requests
    BY <1>1, <1>3, QueueTyped DEF TaskInv, AloneInv, Holding, Solid, QueueType
  <1>. QED BY <1>2, <1>3 DEF Runners

LEMMA RunsKeepChunks ==
  ASSUME Solid, ChunksInv, RunnerStep, RowStep
  PROVE  ChunksInv'
  <1>. USE DEF Solid
  <1>0. /\ UNCHANGED <<mode, version>> /\ (Calm' => Calm) /\ ChunksOfVersion
        /\ version # 0
    BY RowStepMishaps, StorageTyped DEF RowStep, Calm, ChunksInv, StorageType, Versions
  <1>1. ASSUME Quiet
        PROVE  ChunksInv'
    BY <1>0, <1>1 DEF ChunksInv, ChunksOfVersion, Quiet
  <1>2. ASSUME NEW q \in Requests, ClaimAndCreateJob(q) \/ ClaimInline(q)
        PROVE  ChunksInv'
    <2>1. doc' = "PROCESSING" /\ UNCHANGED chunks /\ doc \in {"PENDING", "FAILED", "DONE"}
      BY <1>2 DEF ClaimAndCreateJob, ClaimInline, SetStatus
    <2>2. \A r \in Runners : task'[r].at = "finishing" => task[r].at = "finishing"
      BY <1>2, QueueTyped DEF ClaimAndCreateJob, ClaimInline, QueueType, Runners
    <2>3. Calm => \A r \in Runners : task[r].at # "finishing"
      <3>1. CASE ClaimAndCreateJob(q)
        BY <2>1, <3>1, NobodyFinishes DEF ClaimAndCreateJob
      <3>2. CASE ClaimInline(q)
        <4>1. mode = "inline"
          BY <3>2 DEF ClaimInline
        <4>2. \A j \in Jobs : jobs[j].status \notin ActiveStatuses
          BY <4>1 DEF QueueInv, ActiveStatuses
        <4>. QED BY <2>1, <4>2, NobodyFinishes
      <3>. QED BY <1>2, <3>1, <3>2
    <2>. QED BY <1>0, <2>1, <2>2, <2>3 DEF ChunksInv, ChunksOfVersion
  <1>3. ASSUME NEW r \in Runners, ClearChunks(r)
        PROVE  ChunksInv'
    <2>1. task[r].at = "clearing" /\ UNCHANGED doc
      BY <1>3 DEF ClearChunks
    <2>2. CASE Writable(task[r].version)
      <3>1. chunks' = 0 /\ Goto(r, "loading") /\ doc = "PROCESSING"
        BY <1>3, <2>2 DEF ClearChunks, Writable
      <3>2. Moves(r, "loading")
        BY <3>1, Goes DEF Steps
      <3>3. Calm => \A s \in Runners : task'[s].at # "finishing"
        BY <2>1, <3>1, <3>2, OneInThePipeline DEF Moves
      <3>. QED BY <1>0, <2>1, <3>1, <3>3 DEF ChunksInv, ChunksOfVersion
    <2>3. CASE ~Writable(task[r].version)
      BY <1>0, <1>1, <1>3, <2>3, ElsewhereIsQuiet DEF ClearChunks, Overtaken, Errors
    <2>. QED BY <2>2, <2>3
  <1>4. ASSUME NEW r \in Runners, ReplaceChunks(r)
        PROVE  ChunksInv'
    <2>1. task[r].at = "replacing" /\ UNCHANGED doc
      BY <1>4 DEF ReplaceChunks
    <2>2. CASE Writable(task[r].version)
      <3>1. chunks' = version /\ doc = "PROCESSING"
        BY <1>4, <2>2 DEF ReplaceChunks, Writable
      <3>. QED BY <1>0, <2>1, <3>1 DEF ChunksInv, ChunksOfVersion
    <2>3. CASE ~Writable(task[r].version)
      BY <1>0, <1>1, <1>4, <2>3, ElsewhereIsQuiet DEF ReplaceChunks, Errors
    <2>. QED BY <2>2, <2>3
  <1>5. ASSUME NEW r \in Runners, MarkDone(r)
        PROVE  ChunksInv'
    <2>1. task[r].at = "finishing" /\ UNCHANGED chunks
      BY <1>5 DEF MarkDone
    <2>2. CASE Writable(task[r].version)
      <3>1. doc' = "DONE" /\ doc = "PROCESSING" /\ task[r].version = version
        BY <1>5, <2>2 DEF MarkDone, Writable, SetStatus
      <3>2. Calm => chunks = version
        BY <2>1, <3>1 DEF ChunksInv
      <3>. QED BY <1>0, <2>1, <3>1, <3>2 DEF ChunksInv, ChunksOfVersion
    <2>3. CASE ~Writable(task[r].version)
      BY <1>0, <1>1, <1>5, <2>3, ElsewhereIsQuiet DEF MarkDone, Errors
    <2>. QED BY <2>2, <2>3
  <1>6. ASSUME NEW r \in Runners, MarkDocumentFailed(r)
        PROVE  ChunksInv'
    <2>1. UNCHANGED chunks
      BY <1>6 DEF MarkDocumentFailed
    <2>2. CASE Writable(task[r].version)
      BY <1>0, <1>6, <2>1, <2>2 DEF MarkDocumentFailed, SetStatus, ChunksInv, ChunksOfVersion
    <2>3. CASE ~Writable(task[r].version)
      <3>1. UNCHANGED doc
        BY <1>6, <2>3 DEF MarkDocumentFailed
      <3>2. Leave(r) \/ Goto(r, "return") \/ Goto(r, "throw")
        BY <1>6 DEF MarkDocumentFailed
      <3>3. Quiet
        BY <1>0, <2>1, <3>1, <3>2, ElsewhereIsQuiet DEF Steps
      <3>. QED BY <1>1, <3>3
    <2>. QED BY <2>2, <2>3
  <1>. QED BY <1>1, <1>2, <1>3, <1>4, <1>5, <1>6, QuietRuns DEF RunnerStep, Run

-----------------------------------------------------------------------------
(* What an editor does to the queue and to the chunks *)

LEMMA EditorKeepsRuns ==
  ASSUME Solid, StorageInv, ChunksInv, NEW e \in Editors, EditorStep(e)
  PROVE  /\ QueueInv' /\ Alone' /\ QueueType' /\ ChunksInv'
         /\ mishaps' \subseteq Mishaps /\ faults' \in 0 .. MaxFaults
         /\ IsFiniteSet(mishaps') /\ mode' = mode
  <1>. USE DEF Solid
  <1>1. UNCHANGED <<mode, jobs, bull, task>> /\ Mishaped
    BY DEF EditorStep, ReadForReplace, Upload, Swap, SwapFails, DropNew, DropOld, ReadForDelete,
           DeleteFile, DeleteRow, EditEnds, queue, Mishaped, Mishaps
  <1>2. /\ mishaps \subseteq mishaps' /\ mishaps' \subseteq Mishaps
        /\ faults' \in 0 .. MaxFaults /\ IsFiniteSet(mishaps')
    BY <1>1, HappensOnce DEF Mishaped, TypeOK
  <1>3. \/ UNCHANGED row
        \/ doc \in {"PENDING", "DONE", "FAILED"} /\ doc' = "PENDING" /\ chunks' = 0
        \/ doc' = "DELETED" /\ chunks' = 0
    <2>1. CASE Swap(e)
      BY <2>1 DEF Swap, Unchanged, StorageInv, EditInv
    <2>2. CASE ~Swap(e)
      BY <2>2 DEF EditorStep, ReadForReplace, Upload, SwapFails, DropNew, DropOld, ReadForDelete,
                  DeleteFile, DeleteRow, EditEnds
    <2>. QED BY <2>1, <2>2
  <1>4. QueueInv'
    BY <1>1 DEF QueueInv, TaskInv, BullInv, OnJob
  <1>5. Alone'
    <2> SUFFICES ASSUME NEW r \in Runners
                 PROVE  AloneInv(r)'
      BY DEF Alone
    <2>1. AloneInv(r)
      BY DEF Alone
    <2>2. ASSUME mode' = "inline", Calm', doc' # "DELETED", r \in Requests, task[r].at \in Holding
          PROVE  doc' = "PROCESSING" /\ \A s \in Requests : task[s].at \in Holding => s = r
      <3>1. Calm
        BY <1>1, <1>2, <2>2 DEF Calm
      <3>. QED BY <1>1, <1>3, <2>1, <2>2, <3>1 DEF AloneInv, row
    <2>. QED BY <1>1, <1>2, <2>1, <2>2 DEF AloneInv
  <1>6. ChunksInv'
    <2>1. Calm' => Calm
      BY <1>1, <1>2 DEF Calm
    <2>. QED BY <1>1, <1>3, <2>1 DEF ChunksInv, ChunksOfVersion, row
  <1>. QED BY <1>1, <1>2, <1>4, <1>5, <1>6, QueueTyped DEF QueueType

-----------------------------------------------------------------------------
(* The theorems *)

LEMMA InitIsSound == Init => IInv
  <1> SUFFICES ASSUME Init
               PROVE  IInv
    OBVIOUS
  <1>. USE KnowledgeAssumption DEF Init
  <1>1. IsFiniteSet(mishaps)
    BY FS_EmptySet
  <1>2. NoTask \in Tasks /\ NoEdit \in Edits /\ Jobs \in SUBSET Nat
    BY DEF NoTask, Tasks, Steps, Errors, NoEdit, Edits, Jobs
  <1>3. QueueType /\ StorageType
    BY <1>2 DEF QueueType, StorageType, JobRows, BullJobs, Statuses, Versions
  <1>4. TypeOK
    BY <1>1, <1>3 DEF TypeOK, QueueType, StorageType, JobRows, BullJobs, Statuses, Tasks, Steps,
                      Errors, Edits
  <1>5. QueueInv
    BY DEF QueueInv, TaskInv, BullInv, OnJob, NoTask, RequestSteps, WorkerSteps, ActiveStatuses
  <1>6. StorageInv
    BY DEF StorageInv, EditInv, NoEdit, FileKept
  <1>7. Alone
    BY DEF Alone, AloneInv, NoTask, Working, Holding
  <1>8. ChunksInv
    BY DEF ChunksInv, ChunksOfVersion, NoTask
  <1>. QED BY <1>1, <1>4, <1>5, <1>6, <1>7, <1>8 DEF IInv

LEMMA TypesTogether ==
  ASSUME TypeOK, QueueType', StorageType', ChunksInv', mode' = mode,
         mishaps' \subseteq Mishaps, faults' \in 0 .. MaxFaults
  PROVE  TypeOK'
  <1>1. chunks' \in 0 .. version'
    BY DEF ChunksInv, ChunksOfVersion, StorageType, Versions
  <1>. QED BY <1>1 DEF TypeOK, QueueType, StorageType, JobRows, BullJobs, Statuses, Tasks, Steps,
                       Errors, Edits

LEMMA NextIsSound ==
  ASSUME IInv, [Next]_vars
  PROVE  IInv'
  <1>. USE DEF IInv
  <1>0. Solid
    BY DEF Solid
  <1>1. CASE RunnerStep
    <2>1. RowStep
      BY <1>1, RunsKeepTheFile
    <2>2. StorageType' /\ StorageInv'
      BY <2>1, RowStepKeepsStorage
    <2>3. ChunksInv'
      BY <1>0, <1>1, <2>1, RunsKeepChunks
    <2>4. (\E j \in Jobs : Stall(j)) \/ \E r \in Runners : Good(r)
      BY <1>0, <1>1, <2>1, EachStepIsGood
    <2>5. QueueInv' /\ Alone' /\ QueueType'
      BY <1>0, <2>1, <2>4, GoodIsEnough, StallKeepsQueue
    <2>6. TypeOK' /\ IsFiniteSet(mishaps')
      BY <2>1, <2>2, <2>3, <2>5, RowStepMishaps, TypesTogether
    <2>. QED BY <2>2, <2>3, <2>5, <2>6
  <1>2. ASSUME NEW e \in Editors, EditorStep(e)
        PROVE  IInv'
    BY <1>0, <1>2, EditorKeepsStorage, EditorKeepsRuns, TypesTogether
  <1>3. CASE UNCHANGED vars
    BY <1>3 DEF vars, row, storage, queue, TypeOK, QueueInv, TaskInv, BullInv, OnJob, StorageInv,
                EditInv, FileKept, Alone, AloneInv, Calm, ChunksInv, ChunksOfVersion
  <1>. QED BY <1>1, <1>2, <1>3, NextIs

\* The inductive invariant holds for any number of workers, requests, editors,
\* jobs and versions, for any limits on attempts and stalls, whatever crashes,
\* lost locks, queue errors and database errors occur.
THEOREM InvariantHolds == Spec => []IInv
  <1>1. Init => IInv
    BY InitIsSound
  <1>2. IInv /\ [Next]_vars => IInv'
    BY NextIsSound
  <1>. QED BY <1>1, <1>2, PTL DEF Spec

\* Every variable holds a value of its type: attempts and stalls stay within
\* Bull's limits, versions and jobs within those that were given out.
THEOREM TypeCorrect == Spec => []TypeOK
  <1>1. IInv => TypeOK
    BY DEF IInv
  <1>. QED BY <1>1, InvariantHolds, PTL

\* What a search finds is the document's current file, all of it once the document
\* is DONE and no two runs overlapped, and the row's file is in storage
\* (processingSnapshotWhere, the row lock of replaceDocumentChunks, the condition
\* of the swap in replaceUploadDocument).
THEOREM DocumentsSound == Spec => []DocumentsAreSound
  <1>1. IInv => DocumentsAreSound
    BY DEF IInv, ChunksInv, StorageInv, DocumentsAreSound, SearchIsCurrent,
           DoneUnlessOverlapped, Calm
  <1>. QED BY <1>1, InvariantHolds, PTL

LEMMA VerdictStep ==
  ASSUME IInv, [Next]_vars
  PROVE  [\A j \in Jobs : jobs[j].status \in Ended => jobs'[j] = jobs[j]]_vars
  <1>. USE DEF IInv
  <1>0. Solid
    BY DEF Solid
  <1>1. CASE RunnerStep
    <2>1. RowStep
      BY <1>1, RunsKeepTheFile
    <2>2. ASSUME NEW r \in Runners, Good(r)
          PROVE  \A j \in Jobs : jobs[j].status \in Ended => jobs'[j] = jobs[j]
      BY <2>2 DEF Good, Effect, JobsKept
    <2>3. ASSUME NEW j \in Jobs, Stall(j)
          PROVE  UNCHANGED jobs
      BY <2>3 DEF Stall
    <2>4. (\E j \in Jobs : Stall(j)) \/ \E r \in Runners : Good(r)
      BY <1>0, <1>1, <2>1, EachStepIsGood
    <2>. QED BY <2>2, <2>3, <2>4
  <1>2. ASSUME NEW e \in Editors, EditorStep(e)
        PROVE  UNCHANGED jobs
    BY <1>2 DEF EditorStep, ReadForReplace, Upload, Swap, SwapFails, DropNew, DropOld,
                ReadForDelete, DeleteFile, DeleteRow, EditEnds, queue
  <1>3. CASE UNCHANGED vars
    BY <1>3
  <1>. QED BY <1>1, <1>2, <1>3, NextIs

LEMMA PinnedStep ==
  ASSUME IInv, [Next]_vars
  PROVE  [doc = "PROCESSING" /\ doc' # "DELETED"
            => version' = version /\ doc' \in {"PROCESSING", "DONE", "FAILED"}]_vars
  <1>1. CASE RunnerStep
    BY <1>1, RunsKeepTheFile DEF RowStep
  <1>2. ASSUME NEW e \in Editors, EditorStep(e)
        PROVE  doc = "PROCESSING" /\ doc' # "DELETED"
                 => version' = version /\ doc' \in {"PROCESSING", "DONE", "FAILED"}
    <2>1. CASE Swap(e)
      BY <2>1 DEF Swap, Unchanged, IInv, StorageInv, EditInv, row
    <2>2. CASE ~Swap(e)
      BY <1>2, <2>2 DEF EditorStep, ReadForReplace, Upload, SwapFails, DropNew, DropOld,
                        ReadForDelete, DeleteFile, DeleteRow, EditEnds, row
    <2>. QED BY <2>1, <2>2
  <1>. QED BY <1>1, <1>2, NextIs

\* A job that has its verdict keeps it, and while a document is in processing its
\* file is not exchanged: neither a late or repeated delivery nor an editor undoes
\* what the other relies on (finishJob, markActive, the condition of the swap).
THEOREM RunsAndEditsApart == Spec => RunsAndEditsSpareEachOther
  <1>1. IInv /\ [Next]_vars => [\A j \in Jobs : jobs[j].status \in Ended => jobs'[j] = jobs[j]]_vars
    BY VerdictStep
  <1>2. IInv /\ [Next]_vars =>
          [doc = "PROCESSING" /\ doc' # "DELETED"
             => version' = version /\ doc' \in {"PROCESSING", "DONE", "FAILED"}]_vars
    BY PinnedStep
  <1>. QED BY <1>1, <1>2, InvariantHolds, PTL
       DEF Spec, RunsAndEditsSpareEachOther, VerdictIsFinal, ProcessingIsPinned

=============================================================================
