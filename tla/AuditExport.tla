------------------------------ MODULE AuditExport ------------------------------
(***************************************************************************)
(* One export of the operator audit log: the rows, the outbox handler that *)
(* queues the Bull job, the workers that build an archive under a lease    *)
(* and store it under a key made from their token, the hourly maintenance  *)
(* and a download.  Rows, Bull job and stored objects are in three systems *)
(* and no step changes two of them.                                        *)
(*                                                                         *)
(* The database clock appears as facts that become true: a lease lapses,   *)
(* and its claim grows stale, a ready export is due.  Bull's waiting,      *)
(* delayed and backed-off jobs are all WAITING: getState is not active.    *)
(***************************************************************************)
EXTENDS Naturals, FiniteSets

CONSTANTS
  Workers, Handlers,       \* worker slots, concurrent runs of the outbox handler
  Nobody, Ghost,           \* holders of the Bull lock: none, a dead worker
  MaxAttempts, MaxStalled, \* Bull attempts and tolerated stalls
  MaxFaults                \* bound: crashes, lost locks, failed calls, dead letters

ASSUME AuditAssumption ==
  /\ MaxAttempts \in Nat \ {0} /\ MaxStalled \in Nat /\ MaxFaults \in Nat
  /\ Nobody \notin Workers /\ Ghost \notin Workers /\ Nobody # Ghost

VARIABLES
  export,      \* OperatorAuditExport: status, processingToken, lease, objectKey, due
  job,         \* BackgroundJob.status
  issued,      \* processing tokens given out so far: token n is the n-th
  request,     \* the requested event, or "abandoned": dead beyond the recovery window
  handler,     \* [Handlers -> step]
  bull,        \* the Bull job: state, attemptsMade, stalls, owner of the lock
  task,        \* [Workers -> the local variables of process]
  objects,     \* tokens whose object is stored
  cut,         \* have log rows of the export's window been deleted?
  partial,     \* tokens whose archive was built after that
  maint,       \* the maintenance run: step, row read, objects listed
  faults

outbox == <<request, handler>>
vars == <<export, job, issued, outbox, bull, task, objects, cut, partial, maint, faults>>

Terminal == {"FAILED", "EXPIRED"}
Active == {"QUEUED", "PROCESSING"}

NoTask == [at |-> "idle", token |-> 0, made |-> 0, seen |-> 0,
           stored |-> FALSE, maySelect |-> FALSE, error |-> "none"]
NoMaint == [at |-> "idle", status |-> "NONE", token |-> 0, object |-> 0, listed |-> {}]

Init ==
  /\ export = [status |-> "NONE", token |-> 0, lease |-> "none", object |-> 0, due |-> FALSE]
  /\ job = "NONE" /\ issued = 0
  /\ request = "absent"
  /\ handler = [h \in Handlers |-> "idle"]
  /\ bull = [state |-> "ABSENT", made |-> 0, stalls |-> 0, owner |-> Nobody]
  /\ task = [w \in Workers |-> NoTask]
  /\ objects = {} /\ partial = {}
  /\ cut = FALSE
  /\ maint = NoMaint
  /\ faults = 0

Fault == faults < MaxFaults /\ faults' = faults + 1

-----------------------------------------------------------------------------
(* Request and delivery *)

\* create: one serializable transaction under the retention lock.  The window
\* lies inside the retention period, perhaps just so: it may be past a moment later.
Request ==
  /\ export.status = "NONE"
  /\ export' = [export EXCEPT !.status = "QUEUED"]
  /\ job' = "QUEUED" /\ request' = "queued"
  /\ UNCHANGED <<issued, handler, bull, task, objects, cut, partial, maint, faults>>

HandlerGoto(h, step) == handler' = [handler EXCEPT ![h] = step]

\* The handler resolved; the event is acknowledged, or handed out again because
\* that failed.  (The outbox keeps what OutboxPromise says.)
Resolve == request' = IF request = "queued" THEN "done" ELSE request
ResolveUnacknowledged == Fault /\ UNCHANGED request

\* handle, the two reads: nothing to do, or both rows are queued.  Rows that do
\* not fit (a commit between the reads, a deleted row) reject the delivery,
\* which changes nothing.
ReadRows(h) ==
  /\ request = "queued" /\ handler[h] = "idle"
  /\ \/ /\ \/ export.status \in Terminal
           \/ export.status \in {"PROCESSING", "READY"} /\ job \in {"ACTIVE", "SUCCEEDED"}
        /\ Resolve /\ UNCHANGED handler
     \/ /\ export.status = "QUEUED" /\ job = "QUEUED"
        /\ HandlerGoto(h, "adding") /\ UNCHANGED request
  /\ UNCHANGED <<export, job, issued, bull, task, objects, cut, partial, maint, faults>>

\* getJob and add: the job id is fixed, so an existing job is left alone.
AddBullJob(h) ==
  /\ handler[h] = "adding"
  /\ bull' = IF bull.state = "ABSENT" THEN [bull EXCEPT !.state = "WAITING"] ELSE bull
  /\ HandlerGoto(h, "idle")
  /\ (Resolve /\ UNCHANGED faults) \/ ResolveUnacknowledged
  /\ UNCHANGED <<export, job, issued, task, objects, cut, partial, maint>>

DeadLetter ==
  /\ request = "queued" /\ Fault
  /\ request' = "dead"
  /\ UNCHANGED <<export, job, issued, handler, bull, task, objects, cut, partial, maint>>

WindowPasses ==
  /\ request = "dead"
  /\ request' = "abandoned"
  /\ UNCHANGED <<export, job, issued, handler, bull, task, objects, cut, partial, maint, faults>>

Revive ==
  /\ request \in {"dead", "abandoned"} /\ Fault
  /\ request' = "queued"
  /\ UNCHANGED <<export, job, issued, handler, bull, task, objects, cut, partial, maint>>

-----------------------------------------------------------------------------
(* BullMQ (external) *)

Fetch(w) ==
  /\ bull.state = "WAITING" /\ task[w].at = "idle"
  /\ bull' = [bull EXCEPT !.state = "RUNNING", !.owner = w]
  /\ task' = [task EXCEPT ![w] = [NoTask EXCEPT !.at = "reading", !.made = bull.made]]
  /\ UNCHANGED <<export, job, issued, outbox, objects, cut, partial, maint, faults>>

\* The lock expired: the job is delivered again, or fails when that happened too
\* often.  A live worker goes on without noticing.
Stall ==
  /\ bull.state = "RUNNING"
  /\ \/ bull.owner = Ghost /\ UNCHANGED faults
     \/ bull.owner \in Workers /\ Fault
  /\ bull' = [bull EXCEPT !.owner = Nobody,
                          !.state = IF bull.stalls < MaxStalled THEN "WAITING" ELSE "FAILED",
                          !.stalls = IF @ < MaxStalled THEN @ + 1 ELSE @]
  /\ UNCHANGED <<export, job, issued, outbox, task, objects, cut, partial, maint>>

\* A worker hands its job back; the report of one that lost the lock is refused.
HandBack(w, state, made) ==
  /\ bull' = IF bull.owner = w
               THEN [bull EXCEPT !.state = state, !.made = made, !.owner = Nobody] ELSE bull
  /\ task' = [task EXCEPT ![w] = NoTask]
  /\ UNCHANGED <<export, job, issued, outbox, objects, cut, partial, maint, faults>>

Return(w) == task[w].at = "return" /\ HandBack(w, "COMPLETED", bull.made + 1)

\* Mutant of Throw: one attempt too many.
ThrowOnce(w) ==
  /\ task[w].at = "throw"
  /\ HandBack(w, IF bull.made < MaxAttempts /\ task[w].error # "final"
                   THEN "WAITING" ELSE "FAILED", bull.made + 1)

\* process() rejects: another attempt, or none left or wanted (discard).
Throw(w) ==
  /\ task[w].at = "throw"
  /\ HandBack(w, IF bull.made + 1 < MaxAttempts /\ task[w].error # "final"
                   THEN "WAITING" ELSE "FAILED", bull.made + 1)

\* moveToDelayed and DelayedError cost no attempt.
Delay(w) == task[w].at = "delay" /\ HandBack(w, "WAITING", bull.made)

DelayFails(w) ==
  /\ task[w].at = "delay" /\ Fault
  /\ task' = [task EXCEPT ![w].at = "throw", ![w].error = "retry"]
  /\ UNCHANGED <<export, job, issued, outbox, bull, objects, cut, partial, maint>>

Crash(w) ==
  /\ task[w].at # "idle" /\ Fault
  /\ task' = [task EXCEPT ![w] = NoTask]
  /\ bull' = IF bull.owner = w THEN [bull EXCEPT !.owner = Ghost] ELSE bull
  /\ UNCHANGED <<export, job, issued, outbox, objects, cut, partial, maint>>

-----------------------------------------------------------------------------
(* OperatorAuditExportProcessor.process *)

Goto(w, step) == task' = [task EXCEPT ![w].at = step]
Fail(w, error) == task' = [task EXCEPT ![w].at = "failing", ![w].error = error]
Elsewhere == UNCHANGED <<issued, outbox, bull, objects, cut, partial, maint>>

Lapsed == export.lease \in {"lapsed", "stale"}
\* currentTokenWhere: the row is still this attempt's, whatever its lease.
Holds(w) == export.status = "PROCESSING" /\ export.token = task[w].token

\* claim, the reads: stale, busy behind a live lease, or to be claimed.
ReadForClaim(w) ==
  /\ task[w].at = "reading"
  /\ \/ export.status = "QUEUED" /\ task' = [task EXCEPT ![w].at = "claiming"]
     \/ /\ export.status = "PROCESSING" /\ Lapsed
        /\ task' = [task EXCEPT ![w].at = "claiming", ![w].seen = export.token]
     \/ export.status = "PROCESSING" /\ ~Lapsed /\ Goto(w, "delay")
     \/ export.status \notin Active /\ Goto(w, "return")
  /\ UNCHANGED <<export, job, faults>> /\ Elsewhere

\* The row as it was read, at the time of the update.
Claimable(w) ==
  IF task[w].seen = 0 THEN export.status = "QUEUED"
  ELSE export.status = "PROCESSING" /\ export.token = task[w].seen /\ Lapsed

TakeOver ==
  /\ issued' = issued + 1
  /\ export' = [export EXCEPT !.status = "PROCESSING", !.token = issued + 1,
                              !.lease = "live"]
  /\ job' = "ACTIVE"

\* claim, the compare-and-set; the one that loses it is stale.
Claim(w) ==
  /\ task[w].at = "claiming"
  /\ IF Claimable(w)
       THEN TakeOver /\ task' = [task EXCEPT ![w].at = "building", ![w].token = issued + 1]
       ELSE Goto(w, "return") /\ UNCHANGED <<export, job, issued>>
  /\ UNCHANGED <<outbox, bull, objects, cut, partial, maint, faults>>

\* The database fails, or commits and its answer is lost: process() rejects.
ClaimFails(w) ==
  /\ task[w].at \in {"reading", "claiming"} /\ Fault
  /\ \/ task[w].at = "claiming" /\ Claimable(w) /\ TakeOver
     \/ UNCHANGED <<export, job, issued>>
  /\ Goto(w, "throw")
  /\ UNCHANGED <<outbox, bull, objects, cut, partial, maint>>

\* The renewal timer, from the claim to the finally clause.  When it finds the
\* lease lost or fails, so does the next check, and nothing else reads its flags.
Running == {"building", "checking", "writing", "rechecking", "marking",
            "reconciling", "failing", "settling"}
Renew(w) ==
  /\ task[w].at \in Running /\ Holds(w)
  /\ export' = [export EXCEPT !.lease = "live"]
  /\ UNCHANGED <<job, task, faults>> /\ Elsewhere

\* The archive is read in one snapshot; it may also be too large, or fail.
Build(w) ==
  /\ task[w].at = "building"
  /\ \/ /\ Goto(w, "checking")
        /\ partial' = IF cut THEN partial \cup {task[w].token} ELSE partial
     \/ Fail(w, "final") /\ UNCHANGED partial
     \/ Fail(w, "retry") /\ UNCHANGED partial
  /\ UNCHANGED <<export, job, issued, outbox, bull, objects, cut, maint, faults>>

\* assertCurrentLease: a renewal that must find the token current.
AssertCurrentLease(w, next) ==
  IF Holds(w) THEN export' = [export EXCEPT !.lease = "live"] /\ Goto(w, next)
              ELSE Fail(w, "lost") /\ UNCHANGED export

Check(w) ==
  /\ task[w].at = "checking" /\ AssertCurrentLease(w, "writing")
  /\ UNCHANGED <<job, faults>> /\ Elsewhere

\* writeOperatorAuditExport; an upload that reports an error may have stored.
Write(w) ==
  /\ task[w].at = "writing"
  /\ \/ /\ objects' = objects \cup {task[w].token}
        /\ task' = [task EXCEPT ![w].at = "rechecking", ![w].stored = TRUE]
        /\ UNCHANGED faults
     \/ /\ Fault
        /\ objects' = objects \cup {task[w].token} \/ UNCHANGED objects
        /\ task' = [task EXCEPT ![w].at = "failing", ![w].stored = TRUE, ![w].error = "retry"]
  /\ UNCHANGED <<export, job, issued, outbox, bull, cut, partial, maint>>

Recheck(w) ==
  /\ task[w].at = "rechecking" /\ AssertCurrentLease(w, "marking")
  /\ UNCHANGED <<job, faults>> /\ Elsewhere

CheckFails(w) ==
  /\ task[w].at \in {"checking", "rechecking"} /\ Fault
  /\ Fail(w, "retry")
  /\ UNCHANGED <<export, job>> /\ Elsewhere

Select(w) ==
  /\ export' = [export EXCEPT !.status = "READY", !.token = 0, !.lease = "none",
                              !.object = task[w].token]
  /\ job' = "SUCCEEDED"

MarkReady(w) ==
  /\ task[w].at = "marking"
  /\ IF Holds(w) THEN Select(w) /\ Goto(w, "return")
                 ELSE Fail(w, "lost") /\ UNCHANGED <<export, job>>
  /\ UNCHANGED faults /\ Elsewhere

\* markReady throws, whether it committed or not.
MarkReadyFails(w) ==
  /\ task[w].at = "marking" /\ Fault
  /\ (Holds(w) /\ Select(w)) \/ UNCHANGED <<export, job>>
  /\ task' = [task EXCEPT ![w].at = "reconciling", ![w].maySelect = TRUE]
  /\ Elsewhere

\* Mutant of ReconcileReady: an error of markReady means that it did not commit.
ReconcileReadyNever(w) ==
  /\ task[w].at = "reconciling"
  /\ task' = [task EXCEPT ![w].at = "failing", ![w].error = "retry", ![w].maySelect = FALSE]
  /\ UNCHANGED <<export, job, faults>> /\ Elsewhere

\* reconcileReady asks the rows; when they cannot tell (its reads fail or
\* straddle a commit) the object stays and the job is delayed.
ReconcileReady(w) ==
  LET Unselected(error) == task' = [task EXCEPT ![w].at = "failing", ![w].error = error,
                                               ![w].maySelect = FALSE]
  IN /\ task[w].at = "reconciling"
     /\ \/ export.object = task[w].token /\ export.status = "READY" /\ Goto(w, "return")
        \/ export.object # task[w].token /\ Holds(w) /\ Unselected("retry")
        \/ /\ export.object # task[w].token /\ ~Holds(w)
           /\ export.status # "GONE" /\ ~(export.status = "FAILED" /\ job = "SUCCEEDED")
           /\ Unselected("lost")
        \/ Fail(w, "retry")
     /\ UNCHANGED <<export, job, faults>> /\ Elsewhere

\* The catch clause: an object that may be selected stays, any other is removed.
DropAttempt(w) ==
  /\ task[w].at = "failing"
  /\ IF task[w].maySelect
       THEN Goto(w, "delay") /\ UNCHANGED <<objects, faults>>
       ELSE /\ Goto(w, IF task[w].error = "lost" THEN "return" ELSE "settling")
            /\ \/ /\ objects' = IF task[w].stored THEN objects \ {task[w].token} ELSE objects
                  /\ UNCHANGED faults
               \/ task[w].stored /\ Fault /\ UNCHANGED objects
  /\ UNCHANGED <<export, job, issued, outbox, bull, cut, partial, maint>>

Retries(w) == task[w].error = "retry" /\ task[w].made + 1 < MaxAttempts

Record(w) ==
  /\ export' = [export EXCEPT !.status = IF Retries(w) THEN "QUEUED" ELSE "FAILED",
                              !.token = 0, !.lease = "none"]
  /\ job' = IF Retries(w) THEN "QUEUED" ELSE "FAILED"

\* Mutant of Settle: the verdict is written whoever holds the claim.
SettleAnyway(w) ==
  /\ task[w].at = "settling"
  /\ Record(w) /\ Goto(w, "throw")
  /\ UNCHANGED faults /\ Elsewhere

\* markRetryable or markFailed, then the error reaches Bull.
Settle(w) ==
  /\ task[w].at = "settling"
  /\ IF Holds(w) THEN Record(w) /\ Goto(w, "throw")
                 ELSE Goto(w, "return") /\ UNCHANGED <<export, job>>
  /\ UNCHANGED faults /\ Elsewhere

SettleFails(w) ==
  /\ task[w].at = "settling" /\ Fault
  /\ (Holds(w) /\ Record(w)) \/ UNCHANGED <<export, job>>
  /\ Goto(w, "delay")
  /\ Elsewhere

-----------------------------------------------------------------------------
(* OperatorAuditMaintenanceService.run: one run at a time goes through the phases *)
(* in order; a phase that finds nothing to do changes nothing, so each starts     *)
(* here when its first query finds the row.                                       *)

EndPhase == maint' = NoMaint
MaintGoto(step) == maint' = [maint EXCEPT !.at = step]
BullActive == bull.state = "RUNNING"
RowsOnly == UNCHANGED <<issued, outbox, bull, task, cut, partial, faults>>

ReadReady ==
  /\ maint.at = "idle"
  /\ export.status = "READY" /\ export.due
  /\ maint' = [maint EXCEPT !.at = "dropSelected", !.object = export.object]
  /\ UNCHANGED <<export, job, objects>> /\ RowsOnly

\* expireReadyExports: the selected object first, then whatever else is listed.
DropSelected ==
  /\ maint.at = "dropSelected"
  /\ objects' = objects \ {maint.object}
  /\ MaintGoto("listOthers")
  /\ UNCHANGED <<export, job>> /\ RowsOnly

ListOthers ==
  /\ maint.at = "listOthers"
  /\ maint' = [maint EXCEPT !.at = "dropOthers", !.listed = objects]
  /\ UNCHANGED <<export, job, objects>> /\ RowsOnly

DropOthers ==
  /\ maint.at = "dropOthers"
  /\ objects' = objects \ maint.listed
  /\ MaintGoto("markExpired")
  /\ UNCHANGED <<export, job>> /\ RowsOnly

MarkExpired ==
  /\ maint.at = "markExpired"
  /\ export' = IF export.status = "READY" /\ export.due
                 THEN [export EXCEPT !.status = "EXPIRED", !.object = 0] ELSE export
  /\ EndPhase
  /\ UNCHANGED <<job, objects>> /\ RowsOnly

FindOrphans(step) ==
  /\ maint' = [maint EXCEPT !.at = step, !.status = export.status, !.token = export.token]
  /\ UNCHANGED <<export, job, objects>> /\ RowsOnly

\* Mutant of ReadOrphans: only processing rows are looked at.
ReadOrphansProcessing ==
  /\ maint.at = "idle" /\ export.status = "PROCESSING" /\ Lapsed
  /\ FindOrphans("askOrphans")

\* cleanOrphanObjects: terminal rows, and processing ones whose lease lapsed ...
ReadOrphans ==
  /\ maint.at = "idle"
  /\ \/ export.status \in Terminal /\ FindOrphans("listOrphans")
     \/ export.status = "PROCESSING" /\ Lapsed /\ FindOrphans("askOrphans")

\* ... and whose job nobody runs, which is asked before the listing and again behind it.
AskOrphans ==
  /\ maint.at \in {"askOrphans", "askAgain"}
  /\ IF BullActive THEN EndPhase
       ELSE MaintGoto(IF maint.at = "askOrphans" THEN "listOrphans" ELSE "dropOrphans")
  /\ UNCHANGED <<export, job, objects>> /\ RowsOnly

ListOrphans ==
  /\ maint.at = "listOrphans"
  /\ maint' = [maint EXCEPT !.at = IF maint.status = "PROCESSING" THEN "recheck" ELSE "dropOrphans",
                            !.listed = objects]
  /\ UNCHANGED <<export, job, objects>> /\ RowsOnly

\* After the listing the row must still be the attempt's that was read.
RecheckOrphans ==
  /\ maint.at = "recheck"
  /\ IF export.status = "PROCESSING" /\ export.token = maint.token /\ Lapsed
       THEN MaintGoto("askAgain") ELSE EndPhase
  /\ UNCHANGED <<export, job, objects>> /\ RowsOnly

\* The key of a processing row's token may yet be selected.
Protected == IF maint.status = "PROCESSING" THEN {maint.token} ELSE {}

DropOrphans ==
  /\ maint.at = "dropOrphans"
  /\ objects' = objects \ (maint.listed \ Protected)
  /\ EndPhase
  /\ UNCHANGED <<export, job>> /\ RowsOnly

FailLinkedFacts ==
  /\ export' = [export EXCEPT !.status = "FAILED", !.token = 0, !.lease = "none"]
  /\ job' = "FAILED"

\* repairAbandonedExports, DELIVERY_ABANDONED: the row is found, its dead letter is
\* looked for, and the row must still be queued.
ReadQueued ==
  /\ maint.at = "idle" /\ export.status = "QUEUED"
  /\ MaintGoto("findDead")
  /\ UNCHANGED <<export, job, objects>> /\ RowsOnly

FindDead ==
  /\ maint.at = "findDead"
  /\ IF request = "abandoned" THEN MaintGoto("failQueued") ELSE EndPhase
  /\ UNCHANGED <<export, job, objects>> /\ RowsOnly

FailQueued ==
  /\ maint.at = "failQueued"
  /\ IF export.status = "QUEUED" THEN FailLinkedFacts ELSE UNCHANGED <<export, job>>
  /\ EndPhase
  /\ UNCHANGED objects /\ RowsOnly

\* STALE_PROCESSING: the row is read, then Bull is asked.
ReadStale ==
  /\ maint.at = "idle"
  /\ export.status = "PROCESSING" /\ export.lease = "stale"
  /\ maint' = [maint EXCEPT !.at = "askBull", !.token = export.token]
  /\ UNCHANGED <<export, job, objects>> /\ RowsOnly

\* Mutant of AskBull: the Bull job is not looked at.
AskBullNever ==
  /\ maint.at = "askBull"
  /\ MaintGoto("failStale")
  /\ UNCHANGED <<export, job, objects>> /\ RowsOnly

\* Mutant of AskBull: any Bull job counts as a running one.
AskBullPresent ==
  /\ maint.at = "askBull"
  /\ IF bull.state # "ABSENT" THEN EndPhase ELSE MaintGoto("failStale")
  /\ UNCHANGED <<export, job, objects>> /\ RowsOnly

AskBull ==
  /\ maint.at = "askBull"
  /\ IF BullActive THEN EndPhase ELSE MaintGoto("failStale")
  /\ UNCHANGED <<export, job, objects>> /\ RowsOnly

\* The claim that was read must still be the one, and stale.
FailStale ==
  /\ maint.at = "failStale"
  /\ IF export.status = "PROCESSING" /\ export.token = maint.token /\ export.lease = "stale"
       THEN FailLinkedFacts ELSE UNCHANGED <<export, job>>
  /\ EndPhase
  /\ UNCHANGED objects /\ RowsOnly

\* Mutant of Deletable: the watermark of active exports is ignored.
DeletableAnyway == export.status # "NONE"

\* The watermark keeps the window of an active export, however old.
Deletable == export.status \notin Active \cup {"NONE"}

\* deleteAuditBatch, one transaction under the retention lock.
DeleteAuditBatch ==
  /\ maint.at = "idle" /\ ~cut /\ Deletable
  /\ cut' = TRUE
  /\ UNCHANGED <<export, job, issued, outbox, bull, task, objects, partial, maint, faults>>

\* deleteTerminalExportBatch: a row without objects, a whole retention period after
\* the request, when whatever worked on it is over.
ReadTerminal ==
  /\ maint.at = "idle"
  /\ export.status \in Terminal /\ objects = {}
  /\ (\A w \in Workers : task[w].at = "idle") /\ bull.state # "WAITING" /\ ~BullActive
  /\ MaintGoto("deleteRow")
  /\ UNCHANGED <<export, job, objects>> /\ RowsOnly

DeleteRow ==
  /\ maint.at = "deleteRow"
  /\ export' = IF export.status \in Terminal THEN [export EXCEPT !.status = "GONE"] ELSE export
  /\ EndPhase
  /\ UNCHANGED <<job, objects>> /\ RowsOnly

\* A storage or database error ends the whole run, and so does a crash.
MaintenanceFails ==
  /\ maint.at # "idle" /\ Fault
  /\ EndPhase
  /\ UNCHANGED <<export, job, issued, outbox, bull, task, objects, cut, partial>>

-----------------------------------------------------------------------------
(* OperatorAuditExportDownloadService.download *)

\* A download that read the row before it was due finds the object gone; an
\* object that is gone stays gone, so finding and marking it are one step.
MarkConfirmedMissing ==
  /\ export.status = "READY" /\ export.object \notin objects
  /\ export' = [export EXCEPT !.status = "FAILED", !.object = 0]
  /\ UNCHANGED <<job, issued, outbox, bull, task, objects, cut, partial, maint, faults>>

-----------------------------------------------------------------------------
(* The database clock (external) *)

ClockOnly == UNCHANGED <<job, issued, outbox, bull, task, objects, cut, partial, maint, faults>>

LeaseLapses ==
  /\ export.lease = "live"
  /\ export' = [export EXCEPT !.lease = "lapsed"] /\ ClockOnly

\* startedAt lies staleAfter back, which is longer than a lease.
ClaimGrowsStale ==
  /\ export.lease = "lapsed"
  /\ export' = [export EXCEPT !.lease = "stale"] /\ ClockOnly

Expires ==
  /\ export.status = "READY" /\ ~export.due
  /\ export' = [export EXCEPT !.due = TRUE] /\ ClockOnly

-----------------------------------------------------------------------------
Handle(h) == ReadRows(h) \/ AddBullJob(h)

Process(w) ==
  \/ ReadForClaim(w) \/ Claim(w) \/ Build(w) \/ Check(w) \/ Write(w) \/ Recheck(w)
  \/ MarkReady(w) \/ ReconcileReady(w) \/ DropAttempt(w) \/ Settle(w)
  \/ Return(w) \/ Throw(w) \/ Delay(w)

Trouble(w) ==
  \/ ClaimFails(w) \/ CheckFails(w) \/ MarkReadyFails(w)
  \/ SettleFails(w) \/ DelayFails(w) \/ Crash(w)

Maintain ==
  \/ ReadReady \/ DropSelected \/ ListOthers \/ DropOthers \/ MarkExpired
  \/ ReadOrphans \/ AskOrphans \/ ListOrphans \/ RecheckOrphans \/ DropOrphans
  \/ ReadQueued \/ FindDead \/ FailQueued \/ ReadStale \/ AskBull \/ FailStale
  \/ DeleteAuditBatch \/ ReadTerminal \/ DeleteRow

Next ==
  \/ Request
  \/ \E h \in Handlers : Handle(h)
  \/ DeadLetter \/ WindowPasses \/ Revive
  \/ \E w \in Workers : Fetch(w) \/ Process(w) \/ Renew(w) \/ Trouble(w)
  \/ Stall \/ Maintain \/ MaintenanceFails \/ MarkConfirmedMissing
  \/ LeaseLapses \/ ClaimGrowsStale \/ Expires

Spec == Init /\ [][Next]_vars

\* Handlers, workers and maintenance go on, Bull hands out waiting jobs and
\* notices dead workers, time passes.  Every maintenance run goes through all
\* phases, so none of them waits for ever while it has something to do.
Fairness ==
  /\ \A h \in Handlers : WF_vars(Handle(h))
  /\ WF_vars(\E w \in Workers : Fetch(w))
  /\ \A w \in Workers : WF_vars(Process(w))
  /\ WF_vars(bull.owner = Ghost /\ Stall)
  /\ WF_vars(LeaseLapses \/ ClaimGrowsStale) /\ WF_vars(Expires) /\ WF_vars(WindowPasses)
  /\ WF_vars(maint.at # "idle" /\ Maintain)
  /\ SF_vars(ReadReady) /\ SF_vars(ReadOrphans) /\ SF_vars(ReadQueued) /\ SF_vars(ReadStale)

FairSpec == Spec /\ Fairness

-----------------------------------------------------------------------------
Tokens == 1 .. issued

TypeOK ==
  /\ export.status \in {"NONE", "QUEUED", "PROCESSING", "READY", "FAILED", "EXPIRED", "GONE"}
  /\ export.token \in Tokens \cup {0} /\ export.object \in Tokens \cup {0}
  /\ export.lease \in {"none", "live", "lapsed", "stale"} /\ export.due \in BOOLEAN
  /\ job \in {"NONE", "QUEUED", "ACTIVE", "SUCCEEDED", "FAILED"}
  /\ issued \in Nat
  /\ request \in {"absent", "queued", "done", "dead", "abandoned"}
  /\ handler \in [Handlers -> {"idle", "adding"}]
  /\ bull \in [state : {"ABSENT", "WAITING", "RUNNING", "COMPLETED", "FAILED"},
              made : 0 .. MaxAttempts, stalls : 0 .. MaxStalled,
              owner : Workers \cup {Nobody, Ghost}]
  /\ task \in [Workers -> [at : Running \cup {"idle", "reading", "claiming", "return", "throw", "delay"},
                          token : Tokens \cup {0}, made : 0 .. MaxAttempts, seen : Tokens \cup {0},
                          stored : BOOLEAN, maySelect : BOOLEAN,
                          error : {"none", "lost", "retry", "final"}]]
  /\ objects \subseteq Tokens /\ partial \subseteq Tokens /\ cut \in BOOLEAN
  /\ maint.at \in {"idle", "dropSelected", "listOthers", "dropOthers", "markExpired",
                   "askOrphans", "listOrphans", "recheck", "askAgain", "dropOrphans", "findDead",
                   "failQueued", "askBull", "failStale", "deleteRow"}
  /\ maint.token \in Tokens \cup {0} /\ maint.object \in Tokens \cup {0}
  /\ maint.listed \subseteq Tokens
  /\ faults \in 0 .. MaxFaults

\* A ready export that is not due has its file: whatever late workers remove, in
\* whichever way markReady's answer was lost, and whatever maintenance lists and
\* deletes in the meantime.
SelectedIsStored == export.status = "READY" /\ ~export.due => export.object \in objects

\* The selected archive was built from every log row of its window: deletion by
\* age stays behind the exports that are still at work.
SelectedIsWhole == export.status = "READY" => export.object \notin partial

\* A ready export can be downloaded, and holds what was asked for.
SelectedIsSound == SelectedIsStored /\ SelectedIsWhole

\* What the rows tell an administrator.
phase == CASE export.status = "NONE" -> "none"
           [] export.status \in Active -> "requested"
           [] export.status = "READY" -> "ready"
           [] export.status = "FAILED" -> "failed"
           [] export.status = "EXPIRED" -> "expired"
           [] OTHER -> "forgotten"

report == CASE job = "SUCCEEDED" -> "succeeded"
            [] job = "FAILED" -> "failed"
            [] OTHER -> "open"

\* Rows and job implement what an administrator is promised: one answer, told
\* alike by both rows, and no archive withdrawn before it is due.
Promise == INSTANCE AuditExportPromise
             WITH Archives <- Nat \ {0}, NoArchive <- 0,
                  archive <- export.object, due <- export.due
KeepsPromise == Promise!Spec

\* Maintenance fails no export that the worker with its token is running, although
\* row and Bull job are read at different times.
MaintenanceSparesRunning ==
  [][maint.at = "failStale" /\ maint' # maint /\ export' # export =>
       ~\E w \in Workers : bull.owner = w /\ task[w].token = export.token]_vars

\* A queued export that nobody will come for: its Bull job is over, and its requested
\* event counts as done, so that neither a handler nor maintenance looks at it again.
Stranded ==
  export.status = "QUEUED" /\ request = "done" /\ bull.state \in {"COMPLETED", "FAILED"}

\* Every request ends with an archive or a failure, whatever overlaps and fails, or is
\* visibly stranded; no claim is held for ever.
EndsOrIsStranded == []<>(export.status \notin Active \/ Stranded)

\* No archive outlives its export: objects of failed, expired and due exports are
\* all removed in the end, those that late workers store included.
ArchivesVanish == (export.due \/ export.status \in Terminal) ~> (objects = {})

\* Both: every request ends, and so does every archive.
ExportsEnd == EndsOrIsStranded /\ ArchivesVanish
=============================================================================
