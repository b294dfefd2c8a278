------------------------- MODULE KnowledgeProcessing -------------------------
(* A knowledge document: it is uploaded, replaced, deleted, and turned into      *)
(* searchable chunks either inside the request (inline mode) or by a BullMQ      *)
(* worker (queue mode).  Row, chunks, stored file, BackgroundJob and Bull job    *)
(* live in different systems and are kept in step by compare-and-set writes that *)
(* name the version (storageKey and contentHash) they were decided for.          *)
EXTENDS Naturals

CONSTANTS
  Workers, Requests, Editors,   \* worker slots, process requests, replace or delete requests
  Nobody, Ghost,                \* holders of a Bull lock: none, a dead worker
  Modes,                        \* the values KNOWLEDGE_PROCESSING_MODE may have
  MaxJobs, MaxVersions,         \* bounds: jobs created, files uploaded
  MaxAttempts, MaxStalled,      \* Bull attempts and tolerated stalls
  MaxFaults                     \* bound: mishaps in one behaviour

ASSUME KnowledgeAssumption ==
  /\ Modes \subseteq {"inline", "queue"} /\ Modes # {}
  /\ MaxJobs \in Nat /\ MaxVersions \in Nat \ {0}
  /\ MaxAttempts \in Nat \ {0} /\ MaxStalled \in Nat /\ MaxFaults \in Nat
  /\ Nobody \notin Workers /\ Ghost \notin Workers /\ Nobody # Ghost
  /\ Workers \cap Requests = {}

Jobs == 1 .. MaxJobs
Versions == 1 .. MaxVersions
Runners == Workers \cup Requests
Mishaps == {"apiCrash", "workerCrash", "lockLost", "queueError", "dbError"}

VARIABLES
  mode,        \* KNOWLEDGE_PROCESSING_MODE, fixed
  doc,         \* Document.status, or DELETED
  version,     \* Document.storageKey and contentHash
  chunks,      \* the version the Chunk rows were made from, 0 without rows
  files,       \* versions whose object is in storage
  uploaded,    \* versions given out so far
  jobs,        \* BackgroundJob rows: status and the payload's version
  bull,        \* Bull jobs: state, attempts made, stalls, lock holder
  task,        \* runners: step, job, version, attemptsMade, and the kind of error caught
  edit,        \* editors: step, version read, version uploaded, row unchanged since
  mishaps,     \* the kinds of mishap that happened
  faults       \* and how many there were

row == <<doc, version, chunks>>
storage == <<files, uploaded>>
queue == <<jobs, bull>>
trouble == <<mishaps, faults>>
vars == <<mode, row, storage, queue, task, edit, trouble>>

ActiveStatuses == {"QUEUED", "ACTIVE"}
Ended == {"SUCCEEDED", "FAILED", "STALE_SKIPPED"}
NoTask == [at |-> "idle", job |-> 0, version |-> 0, made |-> 0, error |-> "none"]
NoEdit == [at |-> "idle", old |-> 0, new |-> 0, fresh |-> FALSE]

Init ==
  /\ mode \in Modes
  /\ doc = "PENDING" /\ version = 1 /\ chunks = 0
  /\ files = {1} /\ uploaded = 1
  /\ jobs = [j \in Jobs |-> [status |-> "NONE", version |-> 0]]
  /\ bull = [j \in Jobs |-> [state |-> "ABSENT", made |-> 0, stalls |-> 0, owner |-> Nobody]]
  /\ task = [r \in Runners |-> NoTask]
  /\ edit = [e \in Editors |-> NoEdit]
  /\ mishaps = {} /\ faults = 0

Mishap(kind) ==
  /\ faults < MaxFaults /\ faults' = faults + 1
  /\ mishaps' = mishaps \cup {kind}

Goto(r, step) == task' = [task EXCEPT ![r].at = step]
Fail(r, error) == task' = [task EXCEPT ![r].at = "failing", ![r].error = error]
Leave(r) == task' = [task EXCEPT ![r] = NoTask]

\* Every write of the row moves updatedAt, which a replacement compares.
Touched == [e \in Editors |-> [edit[e] EXCEPT !.fresh = FALSE]]
SetStatus(status) == doc' = status /\ edit' = Touched

\* Mutant of Writable: any file of a document in processing will do.
WritableAnyVersion(v) == doc = "PROCESSING"

\* The snapshot condition of every write of a run: processingSnapshotWhere.
Writable(v) == doc = "PROCESSING" /\ version = v

-----------------------------------------------------------------------------
(* The process request *)

\* claimAndCreateJob, one serializable transaction (of a DONE document when force
\* is set).  The partial unique index over dedupeKey admits one active job per
\* document; the limit per user refuses without a trace.
ClaimAndCreateJob(q) ==
  /\ mode = "queue" /\ task[q].at = "idle"
  /\ doc \in {"PENDING", "FAILED", "DONE"}
  /\ \A j \in Jobs : jobs[j].status \notin ActiveStatuses
  /\ \E j \in Jobs :
       /\ jobs[j].status = "NONE" /\ \A i \in 1 .. j - 1 : jobs[i].status # "NONE"
       /\ jobs' = [jobs EXCEPT ![j] = [status |-> "QUEUED", version |-> version]]
       /\ task' = [task EXCEPT ![q] = [at |-> "adding", job |-> j, version |-> version,
                                       made |-> 0, error |-> "none"]]
  /\ SetStatus("PROCESSING")
  /\ UNCHANGED <<mode, version, chunks, storage, bull, trouble>>

\* Mutant of ClaimInline: the claim does not compare the status.
ClaimInlineAnyStatus(q) ==
  /\ mode = "inline" /\ task[q].at = "idle" /\ doc # "DELETED"
  /\ task' = [task EXCEPT ![q] = [at |-> "clearing", job |-> 0, version |-> version,
                                  made |-> 0, error |-> "none"]]
  /\ SetStatus("PROCESSING")
  /\ UNCHANGED <<mode, version, chunks, storage, queue, trouble>>

\* processDocument in inline mode: the claim names the version that was read.
ClaimInline(q) ==
  /\ mode = "inline" /\ task[q].at = "idle"
  /\ doc \in {"PENDING", "FAILED", "DONE"}
  /\ task' = [task EXCEPT ![q] = [at |-> "clearing", job |-> 0, version |-> version,
                                  made |-> 0, error |-> "none"]]
  /\ SetStatus("PROCESSING")
  /\ UNCHANGED <<mode, version, chunks, storage, queue, trouble>>

\* Mutant of AddToQueue: an error of queue.add is not repaired.
AddToQueueUnrepaired(q) ==
  LET j == task[q].job
      Add == bull' = [bull EXCEPT ![j].state = "WAITING"]
  IN /\ task[q].at = "adding"
     /\ \/ Add /\ Leave(q) /\ UNCHANGED trouble
        \/ (Add \/ UNCHANGED bull) /\ Leave(q) /\ Mishap("queueError")
     /\ UNCHANGED <<mode, row, storage, jobs, edit>>

\* queue.add with jobId = BackgroundJob.id; it may throw, after adding or not.
AddToQueue(q) ==
  LET j == task[q].job
      Add == bull' = [bull EXCEPT ![j].state = "WAITING"]
  IN /\ task[q].at = "adding"
     /\ \/ Add /\ Leave(q) /\ UNCHANGED trouble
        \/ (Add \/ UNCHANGED bull) /\ Goto(q, "unqueued") /\ Mishap("queueError")
     /\ UNCHANGED <<mode, row, storage, jobs, edit>>

\* Mutant of FinishJob: the status of the row is not compared.
FinishJobAnyway(j, status) == jobs' = [jobs EXCEPT ![j].status = status]

\* finishJob: only an active job gets a verdict.
FinishJob(j, status) ==
  jobs' = IF jobs[j].status \in ActiveStatuses
            THEN [jobs EXCEPT ![j].status = status] ELSE jobs

\* markEnqueueFailed, first statement.
MarkEnqueueFailed(q) ==
  /\ task[q].at = "unqueued"
  /\ FinishJob(task[q].job, "FAILED")
  /\ Goto(q, "failDocument")
  /\ UNCHANGED <<mode, row, storage, bull, edit, trouble>>

-----------------------------------------------------------------------------
(* BullMQ (external) *)

Fetch(w) ==
  /\ task[w].at = "idle"
  /\ \E j \in Jobs :
       /\ bull[j].state = "WAITING"
       /\ bull' = [bull EXCEPT ![j].state = "RUNNING", ![j].owner = w]
       /\ task' = [task EXCEPT ![w] = [at |-> "activating", job |-> j, version |-> jobs[j].version,
                                       made |-> bull[j].made, error |-> "none"]]
  /\ UNCHANGED <<mode, row, storage, jobs, edit, trouble>>

\* The lock expired: the job is delivered again, or fails when that happened too
\* often.  A live worker goes on without noticing.
Stall(j) ==
  /\ bull[j].state = "RUNNING"
  /\ \/ bull[j].owner = Ghost /\ UNCHANGED trouble
     \/ bull[j].owner \in Workers /\ Mishap("lockLost")
  /\ bull' = [bull EXCEPT ![j].owner = Nobody,
                          ![j].state = IF bull[j].stalls < MaxStalled THEN "WAITING" ELSE "FAILED",
                          ![j].stalls = IF @ < MaxStalled THEN @ + 1 ELSE @]
  /\ UNCHANGED <<mode, row, storage, jobs, task, edit>>

\* process() resolves.
Return(w) ==
  LET j == task[w].job
  IN /\ task[w].at \in {"return", "recorded"}
     /\ bull' = IF bull[j].owner = w
                  THEN [bull EXCEPT ![j].state = "COMPLETED", ![j].owner = Nobody] ELSE bull
     /\ Leave(w)
     /\ UNCHANGED <<mode, row, storage, jobs, edit, trouble>>

\* Mutant of Throw: the attempt that just failed is not counted.
ThrowUncounted(w) ==
  LET j == task[w].job
  IN /\ task[w].at = "throw"
     /\ bull' = IF bull[j].owner = w
                  THEN [bull EXCEPT ![j].state = IF bull[j].made < MaxAttempts
                                                   THEN "WAITING" ELSE "FAILED",
                                    ![j].made = @ + 1, ![j].owner = Nobody]
                  ELSE bull
     /\ Leave(w)
     /\ UNCHANGED <<mode, row, storage, jobs, edit, trouble>>

\* process() rejects: another attempt, or none left.
Throw(w) ==
  LET j == task[w].job
  IN /\ task[w].at = "throw"
     /\ bull' = IF bull[j].owner = w
                  THEN [bull EXCEPT ![j].state = IF bull[j].made + 1 < MaxAttempts
                                                   THEN "WAITING" ELSE "FAILED",
                                    ![j].made = @ + 1, ![j].owner = Nobody]
                  ELSE bull
     /\ Leave(w)
     /\ UNCHANGED <<mode, row, storage, jobs, edit, trouble>>

-----------------------------------------------------------------------------
(* DocumentProcessingProcessor.process *)

SetJob(j, status) == jobs' = [jobs EXCEPT ![j].status = status]

\* markActive: a job with a verdict is not run again.
MarkActive(w) ==
  LET j == task[w].job
  IN /\ task[w].at = "activating"
     /\ IF jobs[j].status \in ActiveStatuses
          THEN SetJob(j, "ACTIVE") /\ Goto(w, "checking")
          ELSE Goto(w, "return") /\ UNCHANGED jobs
     /\ UNCHANGED <<mode, row, storage, bull, edit, trouble>>

\* The document is read: gone, not in processing, or another version by now.
CheckDocument(w) ==
  /\ task[w].at = "checking"
  /\ Goto(w, IF Writable(task[w].version) THEN "clearing" ELSE "stale")
  /\ UNCHANGED <<mode, row, storage, queue, edit, trouble>>

MarkStaleSkipped(w) ==
  /\ task[w].at = "stale"
  /\ FinishJob(task[w].job, "STALE_SKIPPED")
  /\ Goto(w, "return")
  /\ UNCHANGED <<mode, row, storage, bull, edit, trouble>>

\* The document vanished or changed under a run: findOwned answers 404, the
\* snapshot conditions answer 409.
Overtaken(r) ==
  \/ Fail(r, "conflict")
  \/ doc = "DELETED" /\ Fail(r, "permanent")

\* runProcessingPipeline, clearDocumentChunks.
ClearChunks(r) ==
  /\ task[r].at = "clearing"
  /\ IF Writable(task[r].version)
       THEN chunks' = 0 /\ Goto(r, "loading")
       ELSE Overtaken(r) /\ UNCHANGED chunks
  /\ UNCHANGED <<mode, doc, version, storage, queue, edit, trouble>>

\* The stored file is read, parsed, split and embedded: storage or provider may
\* fail (5xx, retryable), the content may be unusable (4xx).
Load(r) ==
  /\ task[r].at = "loading"
  /\ \/ task[r].version \in files /\ Goto(r, "replacing")
     \/ task[r].version \in files /\ Fail(r, "permanent")
     \/ Fail(r, "retryable")
  /\ UNCHANGED <<mode, row, storage, queue, edit, trouble>>

\* replaceDocumentChunks, one transaction behind a row lock.
ReplaceChunks(r) ==
  /\ task[r].at = "replacing"
  /\ IF Writable(task[r].version)
       THEN chunks' = task[r].version /\ Goto(r, "finishing")
       ELSE Fail(r, "conflict") /\ UNCHANGED chunks
  /\ UNCHANGED <<mode, doc, version, storage, queue, edit, trouble>>

\* markDone, a compare-and-set.
MarkDone(r) ==
  /\ task[r].at = "finishing"
  /\ IF Writable(task[r].version)
       THEN SetStatus("DONE") /\ Goto(r, "done")
       ELSE Fail(r, "conflict") /\ UNCHANGED <<doc, edit>>
  /\ UNCHANGED <<mode, version, chunks, storage, queue, trouble>>

\* The row is read back; the worker records the job's success, a request answers.
MarkSucceeded(r) ==
  /\ task[r].at = "done"
  /\ \/ r \in Workers /\ FinishJob(task[r].job, "SUCCEEDED") /\ Goto(r, "recorded")
     \/ r \in Requests /\ Leave(r) /\ UNCHANGED jobs
     \/ doc = "DELETED" /\ Fail(r, "permanent") /\ UNCHANGED jobs
  /\ UNCHANGED <<mode, row, storage, bull, edit, trouble>>

\* The attempts Bull had counted when it handed the job to this delivery.
LastAttempt(w) == task[w].made + 1 >= MaxAttempts

\* handleProcessingFailure up to its first write.
HandleConflict(w) ==
  /\ task[w].at = "failing" /\ task[w].error = "conflict"
  /\ Goto(w, "stale")
  /\ UNCHANGED <<mode, row, storage, queue, edit, trouble>>

\* Mutant of HandleRetryable: the error is swallowed, Bull sees a success.
HandleRetryableQuietly(w) ==
  LET j == task[w].job
  IN /\ task[w].at = "failing" /\ task[w].error = "retryable" /\ ~LastAttempt(w)
     /\ IF jobs[j].status = "ACTIVE" THEN SetJob(j, "QUEUED") ELSE UNCHANGED jobs
     /\ Goto(w, "return")
     /\ UNCHANGED <<mode, row, storage, bull, edit, trouble>>

\* markRetryableFailure: an active job is queued again.
HandleRetryable(w) ==
  LET j == task[w].job
  IN /\ task[w].at = "failing" /\ task[w].error = "retryable" /\ ~LastAttempt(w)
     /\ IF jobs[j].status = "ACTIVE" THEN SetJob(j, "QUEUED") ELSE UNCHANGED jobs
     /\ Goto(w, "throw")
     /\ UNCHANGED <<mode, row, storage, bull, edit, trouble>>

\* markFinalFailure, first the job ...
MarkJobFailed(w) ==
  /\ task[w].at = "failing"
  /\ task[w].error = "permanent" \/ (task[w].error = "retryable" /\ LastAttempt(w))
  /\ FinishJob(task[w].job, "FAILED")
  /\ Goto(w, "failDocument")
  /\ UNCHANGED <<mode, row, storage, bull, edit, trouble>>

\* ... processDocument's catch goes to the document at once ...
InlineFails(q) ==
  /\ task[q].at = "failing"
  /\ Goto(q, "failDocument")
  /\ UNCHANGED <<mode, row, storage, queue, edit, trouble>>

\* ... then the document, if it is still the run's: markFailedForSnapshot,
\* markFailed, and the second statement of markEnqueueFailed.
MarkDocumentFailed(r) ==
  /\ task[r].at = "failDocument"
  /\ IF Writable(task[r].version) THEN SetStatus("FAILED") ELSE UNCHANGED <<doc, edit>>
  /\ IF r \in Requests THEN Leave(r)
       ELSE Goto(r, IF task[r].error = "permanent" THEN "return" ELSE "throw")
  /\ UNCHANGED <<mode, version, chunks, storage, queue, trouble>>

\* A statement fails, and a commit whose answer is lost is its step followed by
\* this one.  Inside the try block that is one more retryable error; elsewhere the
\* worker's process rejects and a request ends.
DatabaseFails(r) ==
  /\ Mishap("dbError")
  /\ \/ /\ task[r].at \in {"clearing", "replacing", "finishing", "done"}
             \cup (IF r \in Workers THEN {"recorded"} ELSE {})
        /\ Fail(r, "retryable")
     \/ /\ r \in Workers
        /\ task[r].at \in {"activating", "checking", "stale", "failing", "failDocument", "return"}
        /\ Goto(r, "throw")
     \/ /\ r \in Requests
        /\ task[r].at \in {"adding", "clearing", "unqueued", "failDocument"}
        /\ Leave(r)
  /\ UNCHANGED <<mode, row, storage, queue, edit>>

\* A process dies in the middle of a run or a request.
Crash(r) ==
  LET j == task[r].job
  IN /\ task[r].at # "idle"
     /\ Mishap(IF r \in Workers THEN "workerCrash" ELSE "apiCrash")
     /\ Leave(r)
     /\ bull' = IF r \in Workers /\ bull[j].owner = r
                  THEN [bull EXCEPT ![j].owner = Ghost] ELSE bull
     /\ UNCHANGED <<mode, row, storage, jobs, edit>>

-----------------------------------------------------------------------------
(* KnowledgeDocumentsService *)

Edit(e, step) == edit' = [edit EXCEPT ![e].at = step]
EndEdit(e) == edit' = [edit EXCEPT ![e] = NoEdit]

\* replaceUploadDocument reads the row, which must not be in processing ...
ReadForReplace(e) ==
  /\ edit[e].at = "idle" /\ doc \in {"PENDING", "DONE", "FAILED"}
  /\ edit' = [edit EXCEPT ![e] = [at |-> "uploading", old |-> version, new |-> 0,
                                  fresh |-> TRUE]]
  /\ UNCHANGED <<mode, row, storage, queue, task, trouble>>

\* ... stores the new file, or is refused ...
Upload(e) ==
  /\ edit[e].at = "uploading"
  /\ \/ /\ uploaded < MaxVersions
        /\ uploaded' = uploaded + 1 /\ files' = files \cup {uploaded + 1}
        /\ edit' = [edit EXCEPT ![e].at = "swapping", ![e].new = uploaded + 1]
     \/ EndEdit(e) /\ UNCHANGED storage
  /\ UNCHANGED <<mode, row, queue, task, trouble>>

\* Mutant of Unchanged: only the file is compared.
UnchangedFile(e) == doc # "DELETED" /\ version = edit[e].old

\* The condition of the swap: status, updatedAt, storageKey, contentHash as read.
Unchanged(e) == edit[e].fresh

\* ... and swaps it in, dropping the chunks; or refuses, because the row changed
\* or another document has the same content.
Swap(e) ==
  /\ edit[e].at = "swapping"
  /\ \/ /\ Unchanged(e)
        /\ doc' = "PENDING" /\ version' = edit[e].new /\ chunks' = 0
        /\ edit' = [Touched EXCEPT ![e].at = "dropOld"]
     \/ Edit(e, "dropNew") /\ UNCHANGED row
  /\ UNCHANGED <<mode, storage, queue, task, trouble>>

\* The transaction or the read behind it fails, committed or not: the catch clause
\* takes the new file away.
SwapFails(e) ==
  /\ edit[e].at = "dropOld" /\ Mishap("dbError")
  /\ Edit(e, "dropNew")
  /\ UNCHANGED <<mode, row, storage, queue, task>>

\* Mutant of DropNew: the clean-up after a refusal takes the old file.
DropNewTakesOld(e) ==
  /\ edit[e].at = "dropNew"
  /\ files' = files \ {edit[e].old}
  /\ EndEdit(e)
  /\ UNCHANGED <<mode, row, uploaded, queue, task, trouble>>

DropNew(e) ==
  /\ edit[e].at = "dropNew"
  /\ files' = files \ {edit[e].new}
  /\ EndEdit(e)
  /\ UNCHANGED <<mode, row, uploaded, queue, task, trouble>>

DropOld(e) ==
  /\ edit[e].at = "dropOld"
  /\ files' = files \ {edit[e].old}
  /\ EndEdit(e)
  /\ UNCHANGED <<mode, row, uploaded, queue, task, trouble>>

\* delete: the file of the row as read goes first, then the row and its chunks.
ReadForDelete(e) ==
  /\ edit[e].at = "idle" /\ doc # "DELETED"
  /\ edit' = [edit EXCEPT ![e] = [at |-> "deleting", old |-> version, new |-> 0,
                                  fresh |-> FALSE]]
  /\ UNCHANGED <<mode, row, storage, queue, task, trouble>>

DeleteFile(e) ==
  /\ edit[e].at = "deleting"
  /\ files' = files \ {edit[e].old}
  /\ Edit(e, "removing")
  /\ UNCHANGED <<mode, row, uploaded, queue, task, trouble>>

DeleteRow(e) ==
  /\ edit[e].at = "removing"
  /\ doc' = "DELETED" /\ chunks' = 0
  /\ edit' = [Touched EXCEPT ![e] = NoEdit]
  /\ UNCHANGED <<mode, version, storage, queue, task, trouble>>

\* The request ends where it is: the process dies, or a statement fails outside
\* the catch clause.
EditEnds(e) ==
  /\ edit[e].at # "idle"
  /\ Mishap("apiCrash") \/ (edit[e].at = "removing" /\ Mishap("dbError"))
  /\ EndEdit(e)
  /\ UNCHANGED <<mode, row, storage, queue, task>>

-----------------------------------------------------------------------------
Request(q) ==
  \/ AddToQueue(q) \/ MarkEnqueueFailed(q) \/ InlineFails(q)

Process(w) ==
  \/ MarkActive(w) \/ CheckDocument(w) \/ MarkStaleSkipped(w)
  \/ HandleConflict(w) \/ HandleRetryable(w) \/ MarkJobFailed(w)
  \/ Return(w) \/ Throw(w)

Run(r) ==
  \/ ClearChunks(r) \/ Load(r) \/ ReplaceChunks(r) \/ MarkDone(r) \/ MarkSucceeded(r)
  \/ MarkDocumentFailed(r)

Next ==
  \/ \E q \in Requests : ClaimAndCreateJob(q) \/ ClaimInline(q) \/ Request(q)
  \/ \E w \in Workers : Fetch(w) \/ Process(w)
  \/ \E r \in Runners : Run(r) \/ DatabaseFails(r) \/ Crash(r)
  \/ \E j \in Jobs : Stall(j)
  \/ \E e \in Editors :
       \/ ReadForReplace(e) \/ Upload(e) \/ Swap(e) \/ SwapFails(e) \/ DropNew(e) \/ DropOld(e)
       \/ ReadForDelete(e) \/ DeleteFile(e) \/ DeleteRow(e) \/ EditEnds(e)

Spec == Init /\ [][Next]_vars

\* Started requests and runs go on, Bull hands out waiting jobs and notices dead
\* workers; nobody has to edit, and a live worker need not lose its lock.
Fairness ==
  /\ \A q \in Requests : WF_vars(Request(q) \/ Run(q))
  /\ \A w \in Workers : WF_vars(Process(w) \/ Run(w))
  /\ WF_vars(\E w \in Workers : Fetch(w))
  /\ \A j \in Jobs : WF_vars(bull[j].owner = Ghost /\ Stall(j))

FairSpec == Spec /\ Fairness

-----------------------------------------------------------------------------
(* What the service promises *)

\* Every variable holds a value of its type.
TypeOK ==
  /\ mode \in Modes
  /\ doc \in {"PENDING", "PROCESSING", "DONE", "FAILED", "DELETED"}
  /\ version \in Versions /\ chunks \in 0 .. version
  /\ files \subseteq 1 .. uploaded /\ uploaded \in Versions
  /\ jobs \in [Jobs -> [status : {"NONE"} \cup ActiveStatuses \cup Ended,
                       version : 0 .. MaxVersions]]
  /\ bull \in [Jobs -> [state : {"ABSENT", "WAITING", "RUNNING", "COMPLETED", "FAILED"},
                       made : 0 .. MaxAttempts, stalls : 0 .. MaxStalled,
                       owner : Workers \cup {Nobody, Ghost}]]
  /\ task \in [Runners ->
       [at : {"idle", "adding", "unqueued", "activating", "checking", "stale", "clearing",
              "loading", "replacing", "finishing", "done", "recorded", "failing",
              "failDocument", "return", "throw"},
        job : 0 .. MaxJobs, version : 0 .. MaxVersions, made : 0 .. MaxAttempts,
        error : {"none", "conflict", "permanent", "retryable"}]]
  /\ edit \in [Editors ->
       [at : {"idle", "uploading", "swapping", "dropOld", "dropNew", "deleting", "removing"},
        old : 0 .. MaxVersions, new : 0 .. MaxVersions, fresh : BOOLEAN]]
  /\ mishaps \subseteq Mishaps /\ faults \in 0 .. MaxFaults

\* A search never finds text of a file that was replaced or deleted: however many
\* old runs are still under way, the chunks of a document are those of its
\* current file, or it has none.
ChunksOfVersion ==
  /\ chunks \in {0, version}
  /\ doc = "DELETED" => chunks = 0

\* A document reported as processed has its chunks, as long as no run overlaps
\* another one: that takes a lock lost by a live worker, a queue that takes a job
\* and reports an error, or (in inline mode) a lost answer of the database.
DoneUnlessOverlapped ==
  mishaps \subseteq {"apiCrash", "workerCrash"} \cup (IF mode = "queue" THEN {"dbError"} ELSE {})
    => (doc = "DONE" => chunks = version)

\* What a search finds is the current file, all of it once the document is DONE.
SearchIsCurrent == ChunksOfVersion /\ DoneUnlessOverlapped

\* A job that has its verdict keeps it, whatever late or repeated deliveries do.
VerdictIsFinal ==
  [][\A j \in Jobs : jobs[j].status \in Ended => jobs'[j] = jobs[j]]_vars

\* While a document is in processing its file is not exchanged, and processing
\* ends with a verdict or with the document's deletion.
ProcessingIsPinned ==
  [][doc = "PROCESSING" /\ doc' # "DELETED"
       => version' = version /\ doc' \in {"PROCESSING", "DONE", "FAILED"}]_vars

\* Neither a late run nor an editor undoes what the other relies on.
RunsAndEditsSpareEachOther == VerdictIsFinal /\ ProcessingIsPinned

\* The file a document names is in storage, however replacements and deletions
\* interleave; only a deletion under way, a request that died and a commit whose
\* answer was lost can leave a row without its file.
FileKept ==
  (/\ doc # "DELETED" /\ \A e \in Editors : edit[e].at # "removing"
   /\ mishaps \cap {"apiCrash", "dbError"} = {})
    => version \in files

DocumentsAreSound == SearchIsCurrent /\ FileKept

\* What is left when a document stays in processing for ever, and the mishaps behind it.
\* Its latest job has no Bull job (the API process died or lost an answer before
\* queue.add), or Bull gave the job up without any handler, or the job has failed and
\* the document was not told.  In inline mode its run ended with the API process.
VisiblyLost ==
  \/ \E j \in Jobs :
       /\ jobs[j].status # "NONE" /\ \A i \in j + 1 .. MaxJobs : jobs[i].status = "NONE"
       /\ \/ /\ jobs[j].status = "QUEUED" /\ bull[j].state = "ABSENT"
             /\ mishaps \cap {"apiCrash", "dbError"} # {}
          \/ jobs[j].status \in ActiveStatuses /\ bull[j].state = "FAILED"
          \/ /\ jobs[j].status = "FAILED"
             /\ mishaps \cap {"apiCrash", "workerCrash", "dbError"} # {}
  \/ /\ mode = "inline" /\ mishaps \cap {"apiCrash", "dbError"} # {}
     /\ \A r \in Runners : task[r].at = "idle"

\* A document in processing reaches its end, whatever Bull reports and however its runs
\* overlap, or its loss shows in the rows: no run ends without a verdict or a trace.
EndsOrIsVisiblyLost == []<>(doc # "PROCESSING" \/ VisiblyLost)
=============================================================================
