----------------------------- MODULE ChatDelivery -----------------------------
(***************************************************************************)
(* One chat turn from its enqueue transaction to its durable answer: the   *)
(* PostgreSQL rows, the requested event's outbox handler, the BullMQ job,  *)
(* the workers that process it and the events they publish to the stream.  *)
(*                                                                         *)
(* Every prisma $transaction and every single statement outside one is a   *)
(* step; between two steps of a process anything else may happen.  The     *)
(* requested event behaves as OutboxPromise says (a handler runs again and *)
(* again, perhaps twice at once, until the event is acknowledged), which   *)
(* is what the Outbox module implements.  BullMQ is external: a job is     *)
(* fetched by one worker, a worker whose lock expires keeps running while  *)
(* the job is redelivered with the same attemptsMade, and its later result *)
(* is ignored.  The WORKER reservation of ChatRunBudget appears as the set *)
(* of attempts whose execution permission has been granted.                *)
(***************************************************************************)
EXTENDS Integers, FiniteSets

CONSTANTS
  Workers,      \* slots of chat response workers, over all processes
  Handlers,     \* concurrent runs of the requested event's outbox handler
  Nobody,       \* the Bull job is locked by no worker
  Ghost,        \* the Bull job is locked by a process that died
  MaxAttempts,  \* CHAT_RESPONSE_MAX_ATTEMPTS
  MaxStalled,   \* BullMQ maxStalledCount
  MayCancel,    \* is the turn ever cancelled?
  MaxFaults     \* bound: crashes, lost locks, failed calls and dead letters

ASSUME DeliveryAssumption ==
  /\ MaxAttempts \in Nat \ {0}
  /\ MaxStalled \in Nat
  /\ MayCancel \in BOOLEAN
  /\ MaxFaults \in Nat
  /\ Nobody \notin Workers /\ Ghost \notin Workers /\ Nobody # Ghost

Attempts == 1 .. MaxAttempts

VARIABLES
  turn,          \* "ABSENT", or ChatTurn.status
  job,           \* BackgroundJob.status
  linked,        \* is BackgroundJob.bullJobId set?
  answer,        \* the attempt whose text is the assistant message, or 0
  events,        \* terminal outbox events written: "completed", "failed"
  request,       \* the requested event: "absent", "queued", "done" or "dead"
  delivered,     \* has a run of its handler resolved?
  hpc,           \* [Handlers -> HandlerSteps]
  seen,          \* [Handlers -> status]: the row the handler read first
  bull,          \* the Bull job: "ABSENT", "WAITING", "RUNNING", "COMPLETED", "FAILED"
  attemptsMade,  \* its attemptsMade
  stalls,        \* its stalled counter
  owner,         \* who holds its lock
  pc,            \* [Workers -> WorkerSteps]
  att,           \* [Workers -> 0..MaxAttempts]: attemptNumber of the delivery
  fail,          \* [Workers -> {"retryable", "final"}]: classifyFailure of the caught error
  dispatched,    \* attempts whose WORKER reservation was dispatched
  stream,        \* the stream's terminal event: "open", "completed" or "failed"
  faults

db == <<turn, job, linked, answer, events>>
outbox == <<request, delivered, hpc, seen>>
queue == <<bull, attemptsMade, stalls, owner>>
worker == <<pc, att, fail>>
vars == <<db, outbox, queue, worker, dispatched, stream, faults>>

Verdicts == {"SUCCEEDED", "FAILED", "CANCELLED"}
Terminal(status) == status \in Verdicts

Statuses == {"QUEUED", "ACTIVE"} \cup Verdicts

HandlerSteps == {"idle", "read", "turnRead", "jobRead", "adding", "linking",
                 "verifying", "reconciling"}
WorkerSteps == {"idle", "claiming", "generating", "running", "committing",
                "failing", "completed", "failed", "republish", "return", "throw"}

Init ==
  /\ turn = "ABSENT" /\ job = "QUEUED" /\ linked = FALSE
  /\ answer = 0 /\ events = {}
  /\ request = "absent" /\ delivered = FALSE
  /\ hpc = [h \in Handlers |-> "idle"]
  /\ seen = [h \in Handlers |-> "QUEUED"]
  /\ bull = "ABSENT" /\ attemptsMade = 0 /\ stalls = 0 /\ owner = Nobody
  /\ pc = [w \in Workers |-> "idle"]
  /\ att = [w \in Workers |-> 0]
  /\ fail = [w \in Workers |-> "final"]
  /\ dispatched = {}
  /\ stream = "open"
  /\ faults = 0

Fault == faults < MaxFaults /\ faults' = faults + 1

-----------------------------------------------------------------------------
(* The API process *)

\* ChatTurnEnqueueService.enqueue: turn, job and event in one transaction.  A
\* repeated request finds all three and changes nothing.
Enqueue ==
  /\ turn = "ABSENT"
  /\ turn' = "QUEUED"
  /\ request' = "queued"
  /\ UNCHANGED <<job, linked, answer, events, delivered, hpc, seen, queue, worker,
                 dispatched, stream, faults>>

\* cancelForOwner writes the turn alone.
Cancel ==
  /\ MayCancel
  /\ turn \in {"QUEUED", "ACTIVE"}
  /\ turn' = "CANCELLED"
  /\ UNCHANGED <<job, linked, answer, events, outbox, queue, worker, dispatched, stream, faults>>

-----------------------------------------------------------------------------
(* The requested event and its handler *)

HandlerGoto(h, step) == hpc' = [hpc EXCEPT ![h] = step]

Resolve(h) == HandlerGoto(h, "idle") /\ delivered' = TRUE
\* Mutant of Reject: the handler swallows its errors.
RejectSwallowed(h) == HandlerGoto(h, "idle") /\ delivered' = TRUE

Reject(h) == HandlerGoto(h, "idle") /\ UNCHANGED delivered

StartHandler(h) ==
  /\ request = "queued"
  /\ hpc[h] = "idle"
  /\ HandlerGoto(h, "read")
  /\ UNCHANGED <<db, request, delivered, seen, queue, worker, dispatched, stream, faults>>

\* The two rows are read by two concurrent statements, in either order.
ReadFirstRow(h) ==
  /\ hpc[h] = "read"
  /\ \/ seen' = [seen EXCEPT ![h] = turn] /\ HandlerGoto(h, "turnRead")
     \/ seen' = [seen EXCEPT ![h] = job] /\ HandlerGoto(h, "jobRead")
  /\ UNCHANGED <<db, request, delivered, queue, worker, dispatched, stream, faults>>

\* handle: what the rows said, t of the turn and j of the job, decides.  (A job
\* read as ACTIVE was linked then and is linked now: nothing unlinks it.)
Decide(h, t, j) ==
  \/ Terminal(t) /\ j = t /\ Resolve(h)
  \/ Terminal(t) /\ Terminal(j) /\ j # t /\ Reject(h)
  \/ Terminal(t) /\ ~Terminal(j) /\ HandlerGoto(h, "reconciling") /\ UNCHANGED delivered
  \/ ~Terminal(t) /\ Terminal(j) /\ Reject(h)
  \/ /\ ~Terminal(t) /\ j = "ACTIVE"
     /\ IF t = "ACTIVE" /\ linked
          THEN HandlerGoto(h, "verifying") /\ UNCHANGED delivered
          ELSE Reject(h)
  \/ ~Terminal(t) /\ j = "QUEUED" /\ HandlerGoto(h, "adding") /\ UNCHANGED delivered

Forgotten(h) == seen' = [seen EXCEPT ![h] = "QUEUED"]

ReadSecondRow(h) ==
  /\ \/ hpc[h] = "turnRead" /\ Decide(h, seen[h], job)
     \/ hpc[h] = "jobRead" /\ Decide(h, turn, seen[h])
  /\ Forgotten(h)
  /\ UNCHANGED <<db, request, queue, worker, dispatched, stream, faults>>

\* A claimed job must still exist in Bull, or the delivery fails closed.
VerifyClaimed(h) ==
  /\ hpc[h] = "verifying"
  /\ IF bull = "ABSENT" THEN Reject(h) ELSE Resolve(h)
  /\ UNCHANGED <<db, request, seen, queue, worker, dispatched, stream, faults>>

\* ensureBullJob: the job id is fixed, so an existing job is left alone.
EnsureBullJob(h) ==
  /\ hpc[h] = "adding"
  /\ IF bull = "ABSENT"
       THEN bull' = "WAITING" /\ attemptsMade' = 0 /\ stalls' = 0
       ELSE UNCHANGED <<bull, attemptsMade, stalls>>
  /\ HandlerGoto(h, "linking")
  /\ UNCHANGED <<db, request, delivered, seen, owner, worker, dispatched, stream, faults>>

LinkBullJob(h) ==
  /\ hpc[h] = "linking"
  /\ linked' = TRUE
  /\ Resolve(h)
  /\ UNCHANGED <<turn, job, answer, events, request, seen, queue, worker, dispatched, stream, faults>>

\* Mutant of ReconcileTerminalJob: a job that is not terminal is left to its worker.
ReconcileTerminalJobLater(h) ==
  /\ hpc[h] = "reconciling"
  /\ IF Terminal(job) /\ job = turn THEN Resolve(h) ELSE Reject(h)
  /\ UNCHANGED <<db, request, seen, queue, worker, dispatched, stream, faults>>

\* reconcileTerminalJob, after the read: a conditional update of the job.
ReconcileTerminalJob(h) ==
  /\ hpc[h] = "reconciling"
  /\ IF Terminal(job)
       THEN /\ IF job = turn THEN Resolve(h) ELSE Reject(h)
            /\ UNCHANGED job
       ELSE job' = turn /\ Resolve(h)
  /\ UNCHANGED <<turn, linked, answer, events, request, seen, queue, worker, dispatched, stream, faults>>

\* A Redis or database call of the handler throws, or its process dies.
HandlerFails(h) ==
  /\ Fault
  /\ hpc[h] # "idle"
  /\ Reject(h)
  /\ Forgotten(h)
  /\ UNCHANGED <<db, request, queue, worker, dispatched, stream>>

\* The environment: what the dispatcher does with the event between and after the runs
\* of its handler, as OutboxPromise allows it and Outbox does it.
Acknowledge ==
  /\ request = "queued" /\ delivered
  /\ request' = "done"
  /\ UNCHANGED <<db, delivered, hpc, seen, queue, worker, dispatched, stream, faults>>

DeadLetter ==
  /\ Fault
  /\ request = "queued"
  /\ request' = "dead"
  /\ UNCHANGED <<db, delivered, hpc, seen, queue, worker, dispatched, stream>>

\* An operator requeues the dead letter.
Revive ==
  /\ request = "dead"
  /\ request' = "queued"
  /\ UNCHANGED <<db, delivered, hpc, seen, queue, worker, dispatched, stream, faults>>

-----------------------------------------------------------------------------
(* BullMQ (external) *)

Goto(w, step) == pc' = [pc EXCEPT ![w] = step]

\* Mutant of AttemptNumber: the running attempt is counted twice.
AttemptNumberTwice == attemptsMade + 2

\* attemptNumber(job)
AttemptNumber == attemptsMade + 1

Fetch(w) ==
  /\ bull = "WAITING" /\ pc[w] = "idle"
  /\ bull' = "RUNNING" /\ owner' = w
  /\ att' = [att EXCEPT ![w] = AttemptNumber]
  /\ Goto(w, "claiming")
  /\ UNCHANGED <<db, outbox, attemptsMade, stalls, fail, dispatched, stream, faults>>

\* The lock expired: the job is delivered again, or fails when that happened
\* too often.  A worker that lost its lock does not notice.
Stall ==
  /\ bull = "RUNNING"
  /\ \/ owner = Ghost /\ UNCHANGED faults
     \/ owner \in Workers /\ Fault
  /\ owner' = Nobody
  /\ IF stalls < MaxStalled
       THEN bull' = "WAITING" /\ stalls' = stalls + 1
       ELSE bull' = "FAILED" /\ UNCHANGED stalls
  /\ UNCHANGED <<db, outbox, attemptsMade, worker, dispatched, stream>>

Leave(w) ==
  /\ Goto(w, "idle")
  /\ att' = [att EXCEPT ![w] = 0]
  /\ fail' = [fail EXCEPT ![w] = "final"]

\* process() resolves: the job is completed if the worker still holds its lock.
Return(w) ==
  /\ pc[w] = "return"
  /\ IF owner = w
       THEN bull' = "COMPLETED" /\ owner' = Nobody
       ELSE UNCHANGED <<bull, owner>>
  /\ Leave(w)
  /\ UNCHANGED <<db, outbox, attemptsMade, stalls, dispatched, stream, faults>>

\* process() throws: another attempt, or none left.
Throw(w) ==
  /\ pc[w] = "throw"
  /\ IF owner = w
       THEN /\ bull' = IF attemptsMade + 1 < MaxAttempts THEN "WAITING" ELSE "FAILED"
            /\ attemptsMade' = attemptsMade + 1
            /\ owner' = Nobody
       ELSE UNCHANGED <<bull, attemptsMade, owner>>
  /\ Leave(w)
  /\ UNCHANGED <<db, outbox, stalls, dispatched, stream, faults>>

\* removeOnComplete and removeOnFail: a finished job is forgotten one day.
Forget ==
  /\ bull \in {"COMPLETED", "FAILED"}
  /\ bull' = "ABSENT"
  /\ UNCHANGED <<db, outbox, attemptsMade, stalls, owner, worker, dispatched, stream, faults>>

-----------------------------------------------------------------------------
(* ChatResponseWorkerService.process *)

\* reconcileTerminalBackgroundJob: the job takes the turn's verdict; FALSE when
\* the job already has another one.
Reconcilable == Terminal(job) => job = turn
ReconcileJob == job' = turn

\* claim, one transaction.
Claim(w) ==
  /\ pc[w] = "claiming"
  /\ \/ /\ Terminal(turn) /\ Reconcilable
        /\ ReconcileJob
        /\ Goto(w, "republish")
        /\ UNCHANGED <<turn, linked>>
     \/ /\ ~Terminal(turn) /\ ~Terminal(job) /\ att[w] \in Attempts
        /\ turn' = "ACTIVE" /\ job' = "ACTIVE" /\ linked' = TRUE
        /\ Goto(w, "generating")
     \/ /\ IF Terminal(turn) THEN ~Reconcilable ELSE Terminal(job) \/ att[w] \notin Attempts
        /\ Goto(w, "throw")
        /\ UNCHANGED <<turn, job, linked>>
  /\ UNCHANGED <<answer, events, outbox, queue, att, fail, dispatched, stream, faults>>

\* The WORKER stage is reserved and dispatched: the permission to generate is
\* granted once per attempt, and only while the turn is open.
Dispatch(w) ==
  /\ pc[w] = "generating"
  /\ att[w] \notin dispatched /\ ~Terminal(turn)
  /\ dispatched' = dispatched \cup {att[w]}
  /\ Goto(w, "running")
  /\ UNCHANGED <<db, outbox, queue, att, fail, stream, faults>>

\* Mutant of AlreadyDispatched: the duplicate delivery ends quietly.
AlreadyDispatchedSwallowed(w) ==
  /\ pc[w] = "generating"
  /\ att[w] \in dispatched
  /\ Goto(w, "return")
  /\ UNCHANGED <<db, outbox, queue, att, fail, dispatched, stream, faults>>

\* AgentBudgetDispatchError: rethrown without touching the job.
AlreadyDispatched(w) ==
  /\ pc[w] = "generating"
  /\ att[w] \in dispatched
  /\ Goto(w, "throw")
  /\ UNCHANGED <<db, outbox, queue, att, fail, dispatched, stream, faults>>

Caught(w, kind) ==
  /\ fail' = [fail EXCEPT ![w] = kind]
  /\ Goto(w, "failing")

\* The input cannot be loaded or the budget admits no call.
NotAdmitted(w) ==
  /\ pc[w] = "generating"
  /\ \E kind \in {"retryable", "final"} : Caught(w, kind)
  /\ UNCHANGED <<db, outbox, queue, att, dispatched, stream, faults>>

\* The text is generated (and streamed, which nothing here depends on), or the
\* stage throws.
Generate(w) ==
  /\ pc[w] = "running"
  /\ \/ Goto(w, "committing") /\ UNCHANGED fail
     \/ \E kind \in {"retryable", "final"} : Caught(w, kind)
  /\ UNCHANGED <<db, outbox, queue, att, dispatched, stream, faults>>

\* The rows commitSuccess writes in its one transaction.
WriteAnswer(w) ==
  /\ turn' = "SUCCEEDED" /\ job' = "SUCCEEDED"
  /\ answer' = att[w]
  /\ events' = events \cup {"completed"}
  /\ UNCHANGED linked

\* Mutant of CommitSuccess: the turn's status is not read again.
CommitSuccessUnchecked(w) ==
  /\ pc[w] = "committing"
  /\ WriteAnswer(w)
  /\ Goto(w, "completed")
  /\ UNCHANGED <<outbox, queue, att, fail, dispatched, stream, faults>>

\* commitSuccess: a turn that is already terminal is only reconciled, and the
\* caller is not told.
CommitSuccess(w) ==
  /\ pc[w] = "committing"
  /\ \/ /\ Terminal(turn) /\ Reconcilable
        /\ ReconcileJob
        /\ Goto(w, "completed")
        /\ UNCHANGED <<turn, linked, answer, events, fail>>
     \/ /\ turn = "ACTIVE" /\ ~Terminal(job) /\ linked
        /\ WriteAnswer(w)
        /\ Goto(w, "completed")
        /\ UNCHANGED fail
     \/ /\ IF Terminal(turn) THEN ~Reconcilable
                             ELSE turn # "ACTIVE" \/ Terminal(job) \/ ~linked
        /\ Caught(w, "final")
        /\ UNCHANGED db
  /\ UNCHANGED <<outbox, queue, att, dispatched, stream, faults>>

\* The transaction fails, perhaps after its commit: the catch clause runs.
CommitFails(w) ==
  /\ Fault
  /\ pc[w] = "committing"
  /\ \/ UNCHANGED db
     \/ turn = "ACTIVE" /\ ~Terminal(job) /\ linked /\ WriteAnswer(w)
  /\ Caught(w, "retryable")
  /\ UNCHANGED <<outbox, queue, att, dispatched, stream>>

\* Mutant of HandleRetryable: the error is not rethrown.
HandleRetryableSwallowed(w) ==
  /\ pc[w] = "failing"
  /\ fail[w] = "retryable" /\ att[w] < MaxAttempts
  /\ job' = IF job = "ACTIVE" /\ linked THEN "QUEUED" ELSE job
  /\ Goto(w, "return")
  /\ UNCHANGED <<turn, linked, answer, events, outbox, queue, att, fail, dispatched, stream, faults>>

\* handleFailure with attempts left: the job goes back to QUEUED if it is still
\* ACTIVE; whether it was or not, the error is thrown to Bull.
HandleRetryable(w) ==
  /\ pc[w] = "failing"
  /\ fail[w] = "retryable" /\ att[w] < MaxAttempts
  /\ job' = IF job = "ACTIVE" /\ linked THEN "QUEUED" ELSE job
  /\ Goto(w, "throw")
  /\ UNCHANGED <<turn, linked, answer, events, outbox, queue, att, fail, dispatched, stream, faults>>

\* Mutant of HandleFinal: a verdict the turn already has is overwritten.
HandleFinalUnchecked(w) ==
  /\ pc[w] = "failing"
  /\ fail[w] = "final" \/ att[w] >= MaxAttempts
  /\ turn' = "FAILED" /\ job' = "FAILED"
  /\ events' = events \cup {"failed"}
  /\ Goto(w, "failed")
  /\ UNCHANGED <<linked, answer, outbox, queue, att, fail, dispatched, stream, faults>>

\* handleFailure otherwise: one transaction fails turn and job, unless the turn
\* has a verdict already.
HandleFinal(w) ==
  /\ pc[w] = "failing"
  /\ fail[w] = "final" \/ att[w] >= MaxAttempts
  /\ \/ /\ Terminal(turn) /\ Reconcilable
        /\ ReconcileJob
        /\ Goto(w, "republish")
        /\ UNCHANGED <<turn, events>>
     \/ /\ ~Terminal(turn) /\ ~Terminal(job) /\ linked
        /\ turn' = "FAILED" /\ job' = "FAILED"
        /\ events' = events \cup {"failed"}
        /\ Goto(w, "failed")
     \/ /\ IF Terminal(turn) THEN ~Reconcilable ELSE Terminal(job) \/ ~linked
        /\ Goto(w, "throw")
        /\ UNCHANGED <<turn, job, events>>
  /\ UNCHANGED <<linked, answer, outbox, queue, att, fail, dispatched, stream, faults>>

\* Mutant of Announcement: a delivery that did not generate announces a failure.
AnnouncementByDelivery(w) ==
  CASE pc[w] = "completed" -> "completed"
    [] OTHER -> "failed"

\* What the worker announces after its durable transition.
Announcement(w) ==
  CASE pc[w] = "completed" -> "completed"
    [] pc[w] = "failed" -> "failed"
    [] OTHER -> IF turn = "SUCCEEDED" THEN "completed" ELSE "failed"

\* publishCompleted, publishFailed or publishDurableTerminal: the first terminal
\* event seals the stream; a failing Redis is ignored.
Publish(w) ==
  /\ pc[w] \in {"completed", "failed", "republish"}
  /\ \/ stream = "open" /\ stream' = Announcement(w)
     \/ UNCHANGED stream
  /\ Goto(w, "return")
  /\ UNCHANGED <<db, outbox, queue, att, fail, dispatched, faults>>

\* claim, handleFailure or the budget's reconcileTerminal throws and process()
\* rejects.  A commit whose answer is lost is the step followed by this one.
CallFails(w) ==
  /\ Fault
  /\ pc[w] \in {"claiming", "generating", "failing", "completed", "failed", "republish"}
  /\ Goto(w, "throw")
  /\ UNCHANGED <<db, outbox, queue, att, fail, dispatched, stream>>

\* The process dies; its slot is taken by its successor.
Crash(w) ==
  /\ Fault
  /\ pc[w] # "idle"
  /\ Leave(w)
  /\ owner' = IF owner = w THEN Ghost ELSE owner
  /\ UNCHANGED <<db, outbox, bull, attemptsMade, stalls, dispatched, stream>>

-----------------------------------------------------------------------------
Handle(h) ==
  \/ ReadFirstRow(h) \/ ReadSecondRow(h) \/ VerifyClaimed(h) \/ EnsureBullJob(h) \/ LinkBullJob(h)
  \/ ReconcileTerminalJob(h)

Process(w) ==
  \/ Claim(w) \/ Dispatch(w) \/ AlreadyDispatched(w) \/ NotAdmitted(w)
  \/ Generate(w) \/ CommitSuccess(w)
  \/ HandleRetryable(w) \/ HandleFinal(w) \/ Publish(w)
  \/ Return(w) \/ Throw(w)

Next ==
  \/ Enqueue \/ Cancel
  \/ \E h \in Handlers : StartHandler(h) \/ Handle(h) \/ HandlerFails(h)
  \/ Acknowledge \/ DeadLetter \/ Revive
  \/ \E w \in Workers : Fetch(w) \/ Process(w) \/ CommitFails(w) \/ CallFails(w) \/ Crash(w)
  \/ Stall \/ Forget

Spec == Init /\ [][Next]_vars

\* The dispatcher keeps handing out an unsettled event, started processes go on,
\* and Bull hands out waiting jobs and notices dead workers.
Fairness ==
  /\ WF_vars(\E h \in Handlers : StartHandler(h))
  /\ \A h \in Handlers : WF_vars(Handle(h))
  /\ WF_vars(Acknowledge)
  /\ WF_vars(\E w \in Workers : Fetch(w))
  /\ \A w \in Workers : WF_vars(Process(w))
  /\ WF_vars(owner = Ghost /\ Stall)

FairSpec == Spec /\ Fairness

-----------------------------------------------------------------------------
TypeOK ==
  /\ turn \in {"ABSENT", "QUEUED", "ACTIVE"} \cup Verdicts
  /\ job \in Statuses
  /\ linked \in BOOLEAN
  /\ answer \in Attempts \cup {0}
  /\ events \subseteq {"completed", "failed"}
  /\ request \in {"absent", "queued", "done", "dead"} /\ delivered \in BOOLEAN
  /\ hpc \in [Handlers -> HandlerSteps] /\ seen \in [Handlers -> Statuses]
  /\ bull \in {"ABSENT", "WAITING", "RUNNING", "COMPLETED", "FAILED"}
  /\ attemptsMade \in 0 .. MaxAttempts /\ stalls \in 0 .. MaxStalled
  /\ owner \in Workers \cup {Nobody, Ghost}
  /\ pc \in [Workers -> WorkerSteps]
  /\ att \in [Workers -> 0 .. MaxAttempts]
  /\ fail \in [Workers -> {"retryable", "final"}]
  /\ dispatched \subseteq Attempts
  /\ stream \in {"open", "completed", "failed"} 
  /\ faults \in 0 .. MaxFaults

\* The durable facts of a turn never contradict each other: an answer and a
\* completed event exist exactly when it succeeded, a failed event exactly when
\* it failed, and a job with a verdict has the turn's.  No late worker, retry or
\* redelivered event leaves a second verdict behind.
DurableFactsAgree ==
  /\ (answer # 0) = (turn = "SUCCEEDED")
  /\ ("completed" \in events) = (turn = "SUCCEEDED")
  /\ ("failed" \in events) = (turn = "FAILED")
  /\ Terminal(job) => job = turn

\* The stream never runs ahead of PostgreSQL: a terminal event is published
\* after the turn has its verdict, and a succeeded turn is never announced as
\* failed.
StreamFollowsDatabase ==
  /\ stream # "open" => Terminal(turn)
  /\ stream = "failed" => turn # "SUCCEEDED"

\* The documented publish order: completed is announced after the transaction
\* that wrote the answer.
CompletedMeansAnswered == stream = "completed" => turn = "SUCCEEDED"

\* A Bull job that completed has left a verdict, and so has one that ran out of
\* attempts unless something crashed: an exhausted job does not strand its turn.
BullEndsAfterTurn ==
  /\ bull = "COMPLETED" => Terminal(turn)
  /\ (bull = "FAILED" /\ faults = 0) => Terminal(turn)

\* One failure anywhere loses no acknowledged request: Bull has the job, or the
\* turn was claimed or has its verdict.  It takes a second one for Bull to give
\* up a job nobody claimed.
AcknowledgedIsQueued ==
  (request = "done" /\ faults <= 1) => (bull # "ABSENT" \/ turn \notin {"ABSENT", "QUEUED"})

\* What one system reports as done is done in the next: an acknowledged event in Bull,
\* a finished Bull job in PostgreSQL.
DoneMeansDone == AcknowledgedIsQueued /\ BullEndsAfterTurn

\* The rows implement the turn's lifecycle, whatever order the processes act in.
verdict == IF Terminal(job) THEN job ELSE "OPEN"
Lifecycle == INSTANCE ChatTurnLifecycle WITH Answers <- Attempts, NoAnswer <- 0
ImplementsLifecycle == Lifecycle!Spec

\* A failure made Bull give the job up, and perhaps forget it since, or the request a dead
\* letter.
VisiblyLost ==
  /\ faults > 0
  /\ \/ bull = "FAILED" \/ request = "dead"
     \/ bull = "ABSENT" /\ (job = "ACTIVE" \/ request = "done")

\* An accepted turn reaches a verdict and its request is settled, whatever fails, unless
\* it was visibly lost: the handler, which refuses rows it cannot explain, refuses none
\* for ever.
TurnsEnd ==
  []<>(turn = "ABSENT" \/ VisiblyLost \/ (Terminal(turn) /\ request # "queued"))
=============================================================================
