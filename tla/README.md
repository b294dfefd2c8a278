# A TLA+ verification of PrepMind's durable pipelines

PrepMind is a study assistant: a Next.js client, a NestJS server and worker
processes over PostgreSQL, Redis (BullMQ queues and streams) and object storage.
This directory models the parts of it whose correctness depends on the order in
which concurrent processes act: how one chat request becomes exactly one durable
answer within a budget, how a tab that lost its connection finds that answer
again, how an uploaded document becomes searchable, how an audit archive is made
and withdrawn, how edits and ratings made offline reach the server, what a
conversation remembers, and how a paid evaluation of the agents leaves evidence that
can be believed, while workers crash, locks expire, jobs are delivered
twice, tabs close and answers of the database are lost.

Contents: 1 inventory, 2 modules and their correspondence to the code, 3 runs and
bounds, 4 fairness, 5 proofs, 6 disagreements between documents and code,
7 what is not modelled, 8 plan.

## 1. Inventory

| Component | State | Operations | Interacts with | Hard part | What makes it correct |
|---|---|---|---|---|---|
| Durable outbox (`server/src/outbox`) | `OutboxEvent` rows: status, attempts, lockedBy, lockedAt, nextRunAt | enqueue, claim, dispatch, mark succeeded or failed, requeue | producers write events in their own transactions; handlers | leases that expire under a live worker, decisions made in one statement and written in another | nothing acknowledged unhandled, outcomes final, every event settles |
| Chat run budget (`chat-run-budget`, `packages/agent`) | ledger counters, reservations | reserve, dispatch, settle, uncertain, release, cancel, reconcile | stage runner inside the worker, turn status | one id run by two deliveries, lost answers, refund of unknown spending | counters equal reservations, no overspending, one execution per id |
| Chat turn delivery (`chat-turns`, requested handler) | `ChatTurn`, `BackgroundJob`, message, reservation, Bull job, stream's terminal event | enqueue, handle event, claim, dispatch, generate, commit, fail, cancel, reconcile | outbox, BullMQ, budget, stream | redelivery beside a live worker, crash between steps, cancellation | one verdict, one answer, all records agree, nothing lost without a trace |
| Replay stream and browser recovery (`chat-stream.store`, `web/src/lib/chat-turn-*`) | Redis stream, counter, terminal marker; replay position, preview, recovery record | append, trim, expire, read page, follow, checkpoint, reload, restart | worker publishes, tab polls | trims between the two requests of a read, repeated deliveries, two loops on one record | no gap, no repetition, every tab learns the verdict |
| Knowledge processing (`knowledge-documents`, `background-jobs`) | `Document`, `Chunk`, `BackgroundJob` rows, stored file, Bull job | process (inline or queued), replace, delete | BullMQ, storage, embedding provider | long runs over a row that changes, files outside the transaction | chunks are of the current file, the file in use exists, verdicts are final |
| Operator audit exports (`operator-audit-exports`) | export row with token and lease, job, stored objects, Bull job | request, claim, renew, store, ready, fail, expire, clean up, repair, delete, download | outbox, BullMQ, storage | lost leases and lost commit answers after the object was written; rows, storage and Bull read at different times | a READY export has a whole archive, no archive outlives its export |
| Offline mutation queue (web) | IndexedDB items with status and retry time | queue, merge, flush, retry | every CRUD API | a tab that dies in a flush, an edit merged while its item is sent | what was said to be saved is queued or done, the queue empties |
| Reviews, review tasks | card, review log, task | rate (two endpoints), skip, reopen, generate | offline queue | ratings that are sent twice, a card read in one statement and written in another | log, task and card tell one story |
| Conversation context and summary | state row, cache, summary row, messages | prepare, patch, summarise, sync, clear | chat worker, browser | a cache written after a newer row, concurrent summaries, messages replaced under them | answers are current, patches compose, the summary only moves forward and misses nothing |
| Evaluation attempt (`packages/agent/src/evals`, full gate) | marker, hash-chained journal, report, artifact, recovery claim | reserve, append, call, publish, validate, seal an interrupted attempt | provider, file system, other seal commands | death between a call and its record, failing writes, two seals | every call stands in the journal first, nothing is called twice, a seal ends with a valid bundle |
| Authentication | refresh token rows by family | login, refresh, logout | every tab | two tabs rotate one token | reuse revokes the family, nothing else does |
| Organizer, wrong questions, OCR, users | rows of one user | CRUD in one statement or transaction | — | little | — |
| Agents, stages, AI and MCP packages | none that outlives a call | prompts, provider calls, scoring | budget runner | — | — |
| Traces, heartbeats, readiness, operator audit log | append-only rows, keys with a lifetime | write, read | — | — | — |
| User interfaces, pure packages | — | rendering, text splitting, FSRS, schemas | — | — | — |

The first ten are modelled. Sources of each component, what is left out of it, and
the reason for each one left out altogether, are in `PROJECT.json`; so is the list of
hazards with their lines.

How they interact: the API writes turn, job and requested event in one transaction;
the outbox dispatcher runs the requested handler, which adds the Bull job; a worker
claims the turn, reserves and dispatches its budget, generates, commits turn, job,
answer and terminal event together, and then publishes to the stream, which tabs
replay. An audit export takes the same road, with a lease of its own and an archive
in object storage. Knowledge processing uses its own queue, with the claim and the
enqueue in two systems and no outbox between them. The browser's queue repeats
requests whose answers it has not seen, so every endpoint behind it has to tell a
repetition from a new request. A conversation's state and summary are prepared on the
way to a turn, beside the turns that write its messages. The evaluation attempt
shares nothing with the others but the agents it evaluates: its processes meet in one
directory.

## 2. Modules

| Module | Models | Role |
|---|---|---|
| `OutboxPromise` | what the outbox promises to writers and handlers | abstract specification |
| `Outbox` | rows, dispatcher ticks statement by statement, operator requeue | implements `OutboxPromise` |
| `OutboxProofs` | theorems about `Outbox` | TLAPS |
| `ChatRunBudget` | ledger, reservations, `runBudgetedStage` | component |
| `ChatRunBudgetProofs` | theorems about `ChatRunBudget` | TLAPS |
| `ChatTurnLifecycle` | what PostgreSQL promises to everybody who reads a turn | abstract specification |
| `ChatDelivery` | enqueue, handler, Bull job, worker, verdicts, publication | implements `ChatTurnLifecycle` |
| `ChatDeliveryProofs` | theorems about `ChatDelivery` | TLAPS |
| `ChatStream` | append script, page reads, follower loop, recovery record | component |
| `KnowledgeProcessing` | requests, workers, chunk writes, replacement, deletion | component |
| `KnowledgeProcessingProofs` | theorems about `KnowledgeProcessing` | TLAPS |
| `AuditExportPromise` | what an administrator may rely on: one answer, an archive until it is due | abstract specification |
| `AuditExport` | request, handler, Bull job, workers under a lease, storage, maintenance, download | implements `AuditExportPromise` |
| `AuditExportProofs` | theorems about `AuditExport` | TLAPS |
| `OfflineSync` | pages, queue and flushes of several tabs; the rating and edit endpoints, tasks, card, log | composition of browser and server |
| `OfflineSyncProofs` | theorems about the reviews in `OfflineSync` | TLAPS |
| `ConversationMemory` | state row, cache and summary under concurrent prepare requests; messages | component |
| `ConversationProofs` | theorems about `ConversationMemory` and about `ChatStream` | TLAPS |
| `FullGateAttempt` | one run of the full gate and the seal commands that complete its evidence | component |
| `FullGateAttemptProofs` | theorems about `FullGateAttempt` | TLAPS |
| `MC*` | model values, instances and symmetry for TLC | |

Conventions. A prisma `$transaction`, a single statement outside one, a Redis
script and a storage call are one step each; between two steps of a process
anything else may happen. Process-local variables (`pc`, `cand`, `task`, `edit`,
`rpc`, `saver`, `req`) hold where a process is and what it has read. Definitions are
named after functions or statements of the code, and a definition whose comment says
`Mutant of X` is a plausible bug of `X`, used only to see that a property notices.

`Outbox`: a dispatcher tick is `ReadCandidates` (findMany), `ClaimNext` (one
compare-and-set per candidate), `EndClaim` (read back), `NextEvent`, `Handler`,
`MarkSucceeded`, and on failure `ReadFailed` (attempts are read) and
`RecordFailure` (the decision is written). The clock is reduced to the two
comparisons the code makes: `due` and `leased` are the sets of events whose
`nextRunAt` has passed and whose `lockedAt` is fresh, and time may change either at
any point, because no bound on a handler's duration exists.

`ChatRunBudget`: each repository method is a serializable transaction, so one step.
Input tokens, output tokens and cost are accounted alike and are one quantity.
`executed`, `repeated`, `spent` are history variables: what really ran and was
consumed, against which the ledger is judged.

`ChatDelivery`: the composition. The requested event's outbox is an
environment that behaves as `OutboxPromise` allows: it may hand the event out again until
a handler run resolved and was acknowledged, and may give it up. `Outbox` is shown to keep
that promise; nothing about the outbox is checked here. The WORKER reservation is the set
`dispatched` of attempts whose permission was granted, which `ExecutedOnce` of
`ChatRunBudget` justifies. BullMQ is external: one worker fetches a job; a worker
whose lock expired goes on unnoticed, its result is ignored, and the job is
redelivered with the same attempt number; too many stalls fail the job without
running any handler. `Forget` is the removal of finished jobs after their retention.
`NotAdmitted` stands for every refusal before generation (messages that cannot be
loaded, an unavailable or exhausted budget, input that is not admitted).

`ChatStream`: `AppendScript` is the Lua script with both trims, in the script's
order; `CheckCursor` and `Fetch` are the two XRANGE requests of a read; `Follow` is
`followChatTurn`; `Checkpoint`, `Reload`, `Restart` are the recovery record and the
provider that starts loops from it. The stream is the set of cursors it holds, a cursor
being a place in the history of appended entries, so a trim is a set of places that stay
and the size of an entry a set of units; a page is applied as a whole, by what the loop
over it skips, where it first breaks, and the order of the rest. A failed fetch stands for every unusable
answer (network, malformed page, oversized preview).

`KnowledgeProcessing`: a process request is claim, `queue.add` and the repair when
that throws; a worker is markActive, the document check, the pipeline, and the
verdict, with the job and the document written by separate statements; an editor
replaces (read, upload, compare-and-set, clean-up) or deletes (read, object, row).
A document's file is its `version`, standing for storageKey and contentHash, which
every conditional write names. A delivery keeps the attempt number it was fetched
with (`made`), which is what the processor compares, whatever Bull counts meanwhile.
`mishaps` records the kinds of failure that happened, so that a property can say which
failure it tolerates, and `faults` how many there were; a kind may happen again.

`AuditExport`: a worker is the steps of `OperatorAuditExportProcessor.process`, one
per statement or storage call: `ReadForClaim`, `Claim`, `Build`, `Check`, `Write`,
`Recheck`, `MarkReady`, `ReconcileReady` when the answer of that is lost, and in the
catch clause `DropAttempt` and `Settle`. An object's key contains the processing
token, so an object is named by its token. The maintenance run is one process whose
phases start when their first query finds the row; after that each read of the row, of
the outbox, of Bull and of the storage listing is a step. The deletions of one listing are
one step, and so are query and listing before a terminal row is deleted. The database
clock is three facts that become true: `lease` lapses and grows stale, `due`. `cut`
and `partial` record whether log rows of the window were deleted and which archives
were built after that. The renewal timer's flags are folded into the checks: when
the timer finds the lease lost, so does the next check.

`OfflineSync`: a page's command (`Ask`) is a request and, when it fails, the look-up
and the put of `enqueueMutationQueueItem` as two steps. A flush reads the due items
once and then sends each as it was read. A request is a `call`; when its connection
drops the server goes on with it, and when a tab closes its calls go on without
anybody listening. The tab does not wait for a request it has left: that moves to a line
of its own (`Leave`), one at a time for each of what a page saves and what it flushes. A
page offers a task for rating unless one is `Waiting` for it, which an item that was
refused for good is not. On the server, `ReadForRating` and `CommitRating` are the reads
and the transaction of a task's rating, `DirectRead` and `DirectWrite` the older
endpoint that compares nothing, `ReadDueCards` and `CreateTask` the two statements
of `generateDueTasks`. A card's `due` is the length of the log at its last review,
which names the schedule's answer without computing it.

`ConversationMemory`: a prepare request is `Start`, `ReadCache`, `ReadState`,
`WriteState`, `SetCache` or `DeleteCache`, then `ReadSnapshot` (two statements at
once, in either order) and `PersistWithCas`, between which the model call runs. The
summary's text is replaced by the sequence of messages that went into it, `of`.
`states`, `told`, `slips` and `rewritten` are history: what the row has been, the
newest version anybody was told, how the cache may have fallen behind, and whether
a replacement of the messages reached what the summary covers.

`FullGateAttempt`: a file operation is a step; an append may fail before anything is
written, after the line is whole, or with half a line (`Outcomes`). The journal is the
state its replay reaches, its length stands for the hash of its last line, and a line
that does not continue the chain, or that the replay refuses, leaves it not `intact`.
`Fits` is what a writer checks in its own memory, `Replays` what the replay checks in
the file, and a writer does not see the difference. The run's two lanes are one process
with three places to wait; a seal command is a process that looks, decides, claims,
rereads and then appends what `NextRecord` says its memory lacks, with the fence
(`Fence`) before each append. Three wire stages stand for eight; nothing happens
between the ones left out. `slips` records appends that failed and claims renamed away
from a living owner or from the one the journal names; `since` records at which fault
count a seal began that found everything at rest.

## 3. Runs

| Run | Instance | States | Shows |
|---|---|---|---|
| `outbox` | 2 dispatchers, 2 events, 2 attempts, batches of 2, 1 fault, 1 requeue, fairness | 196 k | acknowledged means handled, retry budget, one worker per event, refinement of `OutboxPromise` (final outcomes included), every event settles |
| `budget` | 2 runners, 3 ids (one without cost), 2 calls, 2 units | 536 k | the ledger can be believed, stages are accounted, lifecycle |
| `delivery` | 2 workers, 1 handler run, 2 attempts, 1 stall, cancellation, 2 faults, fairness | 1.45 M | durable facts, stream after database, refinement of `ChatTurnLifecycle`, turn and request settle or the loss is visible |
| `delivery_stream` | 2 faults | violation | completed announced for a failed turn |
| `stream` | 2 deliveries with different texts, 2 events or 3 units kept, 1 expiry, 1 reload | 2.25 M | the log is an unbroken end, terminal last, previews without gaps |
| `stream_live` | 2 deliveries with one text, no trimming, 1 reload, fairness | 81 k | nothing shown twice, every follower finishes, the record holds |
| `knowledge` | both modes, 2 workers, 2 requests, 1 editor, 2 jobs, 2 files, 2 attempts, 1 stall, 1 mishap, fairness | 1.37 M | no text of an old file, DONE has its chunks unless runs overlap, file kept, final verdicts, pinned processing, end or visible loss |
| `audit` | 2 workers, 1 handler run, 2 attempts, 1 stall, 2 mishaps (the second while an overtaken worker goes on), fairness | 280 k | a ready export keeps a whole archive, refinement of `AuditExportPromise`, maintenance spares running attempts, every request ends or is visibly stranded, every archive vanishes |
| `offline` | 2 tabs, 2 tasks, 2 commands, 1 rating by the old endpoint, 1 mishap, fairness | 698 k | each rating counts once and for its date, none is forgotten, no send leaves an item behind, the queue empties if the user returns |
| `offline_edits` | 2 tabs, 2 commands, 2 mishaps | violation | an edit merged into the item being sent is lost |
| `memory` | 4 requests, 2 at a time, 2 patches, 4 texts, 1 replacement, 1 failing Redis call | 1.86 M | answers are current, patches compose, the summary is complete and advances |
| `full_gate` | 3 seal commands, 1 guard, 2 pairs of lanes, 2 mishaps | 1.75 M | the journal tells the truth and stays readable, one undisturbed seal suffices, a valid bundle stays valid |

Why the bounds suffice. Two workers are the least that race, and every race here is
between two writers of one row: a third repeats one of them. Two attempts give a
first and a last one, which the code treats differently; one tolerated stall gives a
redelivery and, with the next stall, Bull's giving up. The budget lets the two
stages not both be afforded unless the first is settled below its request. The stream's
bounds are smaller than what two deliveries publish, so that both trims happen; the
run with fairness keeps everything, so that a repetition cannot hide behind a trim.
One fault of any kind at any point is what each recovery path is written for;
`delivery`, `audit` and `full_gate` allow two, because a lost lock, or an interrupted
run, and a second failure together are what their hard cases are made of. Two tabs with two commands give a rating that
is sent, queued and flushed by the other tab while the first request still runs, and
an edit that meets another one in the queue; two tasks give one that was listed for a
date that has passed. Four requests, two at a time, give a patch between another's
read and write, and a cache filled by an overtaken request that a third one reads;
four texts give two answers to summarise and a question between them. Two pairs give one
that is open and one that must stay closed after a failure; three seal commands give one
that died with a claim, one that takes it over, and one that read the claim before that. Instances
outside the runs were checked in the same way and hold. Without liveness: two handler runs
at once with one fault (3.0 M states), two editors with three files, two jobs and one worker
(10.1 M), and the offline queue with two mishaps and without the old endpoint (4.0 M). With
it: knowledge processing with one job, one file and two mishaps, of one kind or of two
(113 k).

Bounds of the models: `MaxFaults`, `MaxRequeues`, `MaxExpiries`, `MaxReloads`,
`MaxJobs`, `MaxVersions`, `MaxTasks`, `MaxCommands`, `MaxDirect`, `MaxPrepares`,
`MaxTexts`, `MaxSyncs`, `Guards` and `Pairs`, and the saturation of `attempts` one above `MaxAttempts`
in `Outbox`. Symmetry is used in runs without fairness only. `CHECK_DEADLOCK FALSE`
is set where the system may come to rest: all events settled, all runs over.

Constraints of the runs, each of which drops only behaviours that another one
explored stands for. `IdleSlotsAreAlike` (`delivery`, `knowledge`, `audit`) and `FirstTabAsksFirst`
(`offline`) let the first of two equal slots act first, where symmetry would spoil
liveness. `OldEndpointBesideRatings` (`offline`): edits touch the question, the old
endpoint touches the card, and no action reads both, so its review is explored beside
ratings only. `OneHalfAtATime` (`memory`): the state and the summary of a
conversation share only its existence, so each is explored while the other is empty.
`LooksWhenItMatters` (`full_gate`): a seal command looks when nobody writes or when the
writing has just begun, because a journal seen in the middle is as outdated as that one.
Two others narrow an instance to the cases a further failure or process is there for:
`SecondWhenOvertaken` (`audit`) allows the second mishap only while a worker whose lease
was taken over goes on, and `ThirdTakesOver` (`full_gate`) starts the third seal only to
take over a dead claim while the first pair is open.
None of them forbids an action that fairness asks for.

What the less obvious properties say:

- `OneWorkerPerEvent` holds while nothing has failed. Once a lease is lost, two
  workers may handle one event, which is why handlers are idempotent; what remains
  true then is `OutcomesAreEarned` (acknowledged means handled, and DEAD means that the
  attempts were used) and the finality of outcomes, which
  `KeepsPromise` contains.
- `LedgerIsSound`: the four counters are those of the reservations, within the limits,
  and nothing stays reserved after a cancellation or reconciliation.
  `StagesAreAccounted`: what ran, what is charged and what the caller is told agree;
  it compares the ledger with the history of what a provider did.
- `DoneMeansDone`: a Bull job that ended leaves a turn that ended, and an acknowledged
  request was queued. Its second half is limited to one fault: with two, Bull may fail
  and forget a job that nobody had claimed. Its first half excludes faults for a FAILED
  Bull job only: a crash in the last attempt leaves the turn ACTIVE for ever (section 6).
- `TurnsEnd`: every accepted turn reaches a verdict and its requested event is settled. It
  lists the ways in which a turn may stay open for ever, each of them visible in a row, a
  dead letter or a failed job.
- `ReplayIsSound`: the log is an unbroken end of what was appended, its terminal event is
  the last, and a preview has no gap.
- `DocumentsAreSound`: the file in use exists, chunks are of the version they say, and a
  DONE document has its chunks. It names the mishaps that make two runs of one version overlap; with any of
  them dropped from its condition TLC finds a counterexample, so the condition is as
  weak as it can be.
- `RunsAndEditsSpareEachOther`: a job keeps its verdict, the file of a document in
  processing is not exchanged, and processing ends with a verdict or a deletion.
- `EndsOrIsVisiblyLost` and `EndsOrIsStranded` (in `ExportsEnd`): again and again the
  document is not in processing, the export not active, or the rows show the loss. The
  exceptions (`VisiblyLost`, `Stranded`) are states, not the mishaps that led there, and
  they are the defects of section 6: these two properties do not find those, they show
  that there are no others.
- `ReviewsAgree`: a completed task names the one review that completed it, the card has
  counted all reviews but those the old endpoint wrote over, and a due date is reviewed
  once through tasks.
- `QueueDrains`: again and again every queued item is due, was refused for good, or was left
  as `syncing` by a closed tab (`Abandoned`, section 6), whatever users do. That the items
  that are due are sent too needs a user: there is no timer, a flush begins when a tab
  opens, gets the focus or its connection back, or on the retry button. The second half
  assumes this (`UserReturns`).
- `StateIsSound`: an answer older than what was told before needs a Redis call that failed
  or a request that was overtaken; `slips` says which. `SummaryIsSound` excepts summaries
  whose messages were replaced (section 6).
- `JournalIsTrue`: wherever the run breaks off and whoever completes the journal, it has
  announced every call, reports success only of lanes that were called, and nothing is
  called after a pair that failed or once a recovery has begun. It can be read unless an
  append failed or a claim was taken from its owner; both exceptions are needed.
- `SealingIsSound`: a seal command that finds the attempt at rest, and that nothing fails,
  ends with a valid bundle whoever else tries; a bundle found valid stays valid. Excepted
  are claims renamed away from their owner and the claim file that a seal leaves behind
  which came too late; those are defects of the code (section 6), and the property shows
  that contending seals do no other harm.

Each property has a mutant of the code (`PROJECT.json`) that breaks it.

## 4. Fairness

Weak fairness on what a running process does by itself. `Outbox`: the runner's
`setInterval` keeps ticking in each live dispatcher, waiting times pass, leases of
dead workers expire. `ChatDelivery`: the dispatcher keeps handing out an unsettled
event, started handlers and workers go on to their next statement, Bull hands out
waiting jobs and notices the lock of a dead worker. `ChatStream`: the loop of an open
page keeps polling; no fairness for the server, so `FollowersFinish` is about turns
that have a verdict. `KnowledgeProcessing`: started requests and workers go on, Bull
as before. `AuditExport`: handlers, workers, Bull and the clock as before, and strong
fairness for the first query of each maintenance phase, because every hourly run goes
through all phases: what is there to be found again and again is found. `OfflineSync`:
one weak fairness condition for what was begun in the pages, the server and the clock of
the retry times together: something goes on among them while anything can; their work is
finite, so each gets its turn. A flush begins only when the user or the network does
something, so no fairness is given to `ReadQueue`; the second half of `QueueDrains` names
it as its assumption. Nothing else is assumed of users, and nothing of operators, faults,
or a live worker's lock.

## 5. Proofs

The `*Proofs` modules prove their theorems for every number of workers, tabs,
requests, attempts, commands and faults. The assumptions are the named ones of the
modules (`OutboxAssumption`, `DeliveryAssumption`, `KnowledgeAssumption`,
`AuditAssumption`, `SyncAssumption`,
`MemoryAssumption`, `StreamAssumption`, `BudgetAssumption`, `AttemptAssumption`: bounds are
natural numbers, at least one attempt, the lock values nobody and ghost are not workers,
the question is not a task, patches are functions from fields to values, no event is
larger than the byte bound, which the store's constructor and `append` see to); TLC evaluates them in the runs. Each `IInv`
was an invariant of a run before it was proved.

*Outbox.* `AcknowledgedWasHandled` and `RetryBudget` are not inductive: a worker that
acknowledges, or writes a decision it read earlier, carries the reason in its local
state. The invariant `IInv` adds `OnAnEvent`, `ResolvedWasHandled` (who is about to
acknowledge has handled), `DecisionIsCurrent` (while the lease is still its own, the
decision is what it would read now, because only a claim moves attempts and a claim
moves the lease) and `AbsentIsFresh`. `Inductive` gives `TypeCorrect` and
`OutcomesAreEarnedAlways`; `OutcomeIsFinalAlways` looks at
one step under `IInv`. `KeepsPromiseAlways` is the refinement of `OutboxPromise`: it
needs `HeldExists` (rows a worker holds exist) and a lemma that maps each change of
one row to a step of the promise. `OneWorkerPerEventAlways` has an invariant of its own,
`LeaseInv`: until the first fault every worker is alive, the rows of its batch and the
event it works on are leased to it, and that event is no longer in the batch; so a
candidate another worker read before does not pass the conditional claim.

*Chat delivery.* `DurableFactsAgree` and `StreamFollowsDatabase` need to know where
the other processes are: `AbsentIsUntouched` (before the enqueue nothing runs),
`QueueIsSound` (a job Bull may run has an attempt left, and only a running job is
locked), `BusyHasAttempt`, and `AnnouncesVerdict` (a worker about to publish has seen
the verdict, which the turn keeps). Under their conjunction `IInv`, `StepLifecycle`
maps every step to a step of `ChatTurnLifecycle` or a stutter, giving
`ImplementsLifecycleAlways`. `DoneMeansDoneAlways` adds `DInv`: each place of a delivery
or of a handler knows what the turn is by then (`StepsKnowTurn`), a request that was
acknowledged was queued or there was nothing left to queue (`RequestIsSound`), without
faults a job runs once, every delivery beyond the first has cost a fault
(`DeliveriesCostFaults`), and what was queued and is undecided is in Bull. The theorem
assumes more than one attempt and at least one tolerated stall, which the code has
(`CHAT_RESPONSE_MAX_ATTEMPTS` is 3 and BullMQ's `maxStalledCount` is not changed from 1):
with less, one fault can fail and forget a job nobody had claimed.

*Knowledge processing.* A run works from a snapshot while row, chunks and file change
around it. `QueueInv` says which job a runner works for and that one job at a time is
active; `EditInv` what an editor that is about to swap, delete or clean up still knows of
the row it read, so that no clean-up takes the row's file (`FileKept`); `ChunksInv` that
chunks are of the version they name and that, as long as no mishap makes two runs of one
version overlap (`Calm`), a run that is finishing has just written them. For that
last part `AloneInv` is needed: without lost locks the worker of a job is the one Bull
knows, and in inline mode only one request is past its claim.

*Audit exports.* Each attempt has a new token, and tokens order everything: an object is
of one attempt, and what was listed or read earlier carries no later token. `WorkerInv`
says what a worker may still do once its token is no longer the row's: it never removes
the selected object. `MaintInv` says what still holds of what maintenance read: the export
is due, or it is over, or, once the row was read again, its present object is protected or
newer than the listing; and no worker that has the Bull job has the token found abandoned.
A window that was cut belongs to an export that is over, so what a ready export shows is
whole.
`KeepsPromiseAlways` maps every step to `AuditExportPromise` through the row's phase and
the job's report.

*Offline reviews.* `ReviewsAgree` relates log, tasks and card, and a request carries
what it read of them across any number of other steps. `IInv` adds `DueByLastReview`
(the card is due at the date its last review gave it), `OpenSaw` (a rating under way
read a task that was due at the date the card then had, and found no review of its own
number up to that date) and `DirectSaw`. A commit compares the card with what was
read; being the same, nothing was logged since, so the number is still new and the
task still due. The queue does not appear in this argument: however often the browser
repeats a rating, the server tells. It is what `RatingsAlwaysKept` is about. `RInv` says
that whatever is queued, being put, flushed or called is about the task its commands were
asked for (`WorkAbout`), that a call answered as done is done at the server
(`AnsweredWhenDone`), and keeps the four places where a saved rating may be. The proof
showed that the history of replaced ratings has to record what a put goes over when it
is made, not what the look-up before it found: with three tabs those differ.

*Conversation memory.* Three theorems from `IInv = TypeOK /\ StateInv /\ SummaryInv`.
`StateInv`: every state in the row, the cache and a request is one the row had;
without slips the cache is not behind what was told; and what a request is about to
answer is not behind what was told before it began, because the row it read was at
least as new. Only a request that caches less than the newest version, or a Redis call
that failed, breaks the second part, and `slips` records both. `SummaryInv`: the texts
behind the summary are those of the first messages (`Covers`), and while the
conversation exists a version identifies its summary (`VersionIdentifies`): a
compare-and-set that succeeds therefore extends the very summary it has read, by
messages that the hash showed to be in place. That a nonempty set of places has a last
one (`Greatest`), which the code's target relies on, comes from the well-foundedness
of the natural numbers.

*Chat run budget.* `StagesAreAccounted` and `FollowsLifecycle` rest on `StageInv`, whose
core is what holds of a runner's reservation at each place of `runBudgetedStage`
(`At`) and that two runners past the grant have different reservations (`OneExecutor`):
a grant needs RESERVED and leaves DISPATCHED, and every other transaction leaves a
dispatched reservation dispatched, uncertain or settled, so a second grant is
impossible whatever is redelivered. `CallsInv` then shows that the two counters of
calls are the cardinalities of the open and the settled reservations
(`CallsAlwaysCounted`) and that nothing stays reserved after the end
(`ReservationsAreFreed`). For
the sums of cost, `Total` counts units: the pairs of a reservation and one of the numbers
up to its amount. A sum is then a cardinality, and what a transaction does to it follows
from the theorems about finite sets, without induction; TLC evaluates that it is the sum
of the community modules (`UnitsAddUp`). `LedgerAlwaysSound` is all of
`LedgerIsSound`: counters equal sums, limits hold, and an ended turn holds nothing back.

*Evaluation attempt.* `JournalIsTrueAlways` for any number of seal commands, guards and
pairs. The truth of the journal does not follow from the journal alone: `RunInv` says
what the run's memory and its lanes know (`UnderWay`: a lane at work was reserved, called
only after its dispatch was recorded, and all earlier pairs succeeded), and `EvidenceInv`
that the file is never behind that memory as long as it can be read (`Follows`). Records
only add (`Grows`), and seals, which act once the run is over, never record a stage or a
success. That the journal can be read is `MemoryInv` (without slips the run's memory is
the journal) and `ClaimInv`: a claim that was never taken over has one owner, whose memory
is the journal while that can be read, so what fits its memory fits the replay;
`SealerInv` says what a seal that has only looked may rely on. The steps that append have
one form each (`RunWrites`, `SealWrites`), so these parts are proved over three kinds of
steps instead of thirty.

`SealingAlwaysSound` adds what happens between seal commands. `WinsInv` says when one of
them is bound to succeed: from a look that finds nobody at work, and for as long as the
count of mishaps stands still, either no claim exists yet and the one that looked is about
to create it (`Opening`), or some command holds the claim and is on its way through the
recovery, or through it, while all others wait (`Winning`, `Waits`). The winner may be
another one than the one that looked. That somebody fails is a mishap, after which the
statement is about later looks only. `SealedInv` keeps the bundle: once it is valid nobody
is recovering, so its files stay; the claim file goes only by a takeover, or by the
release of a claim that the journal does not name.

*Replay stream.* Four theorems from `StreamInv`, for every number of deliveries and tabs,
all texts, sizes and bounds. `HistoryInv`: within a life of the keys the numbers run with
the places, and those of the present life lead up to the counter. `SealInv`: a terminal
entry is the last of its life, and one of the present life has left the marker, even if
it was trimmed itself. With them `LogIsSuffix` is inductive: `TrimEventsIs` and
`TrimBytesIs` say that each trim keeps the newest entry and, with an entry, all behind it;
the second one spares terminal entries, which would leave a hole behind them, were the
only terminal entry not the newest. `ReplayInv` says of every follower, the stored one
included, that its number is that of the entry its cursor points to. So what is new on a
page and connects by number connects by place (`NewIs`), unless the keys expired in
between, and an applied page leaves no hole (`ShowKeeps`). `ReplayIsSoundAlways` follows;
`RecordHoldsAlways` looks at one step under the invariant. `ChunksShownOnceAlways` assumes
that nothing ever has to be trimmed and that the keys do not expire (`Roomy`, which the
instance of `stream_live` satisfies): then all that was appended is in the log, so the
comparison of event ids sees every earlier one (`Once`). Without that assumption the
statement is false, as a second delivery may append again what was trimmed.

Only model-checked: the six liveness properties, `EveryEventSettles`, `TurnsEnd`,
`FollowersFinish`, `EndsOrIsVisiblyLost`, `ExportsEnd` and `QueueDrains`, since fairness
and ENABLED are beyond the prover. Every other property a passing run checks is a theorem.
No module uses a RECURSIVE operator.

## 6. Where documents and code disagree

Two of them are runs with the document's claim as its only property; `PROJECT.json`
quotes the lines.

1. `delivery_stream`: completed is documented to follow the transaction that wrote
   the answer. `commitSuccess` returns quietly for a turn that is already terminal, and
   the worker publishes completed all the same. The database is right and tabs read it;
   the stream is wrong until they do.
2. `offline_edits`: input that could not be saved is documented to be kept. An edit that
   fails while an older edit of the same question is being sent is merged into that item,
   and the item is deleted when the older edit succeeds. Twelve steps, one failing
   request.

Observed while modelling; the models behave so, and the properties above except it:

- Outbox: the design says that an event over its maximum number of attempts becomes DEAD
  (`OutboxPromise` promises less). Claiming an expired lease counts an attempt without
  comparing it; only a recorded failure compares.
- Chat delivery: a crash is documented to leave an entry for reconciliation. After the
  dispatch of the last attempt's reservation there is none: the redelivery rethrows, Bull
  fails the job, the turn stays ACTIVE.
- Recovery record: a checkpoint is documented to advance only; one without any progress
  replaces one with progress.
- Knowledge: claim and enqueue are in two systems. An API process that dies, or loses the
  answer of the commit, before `queue.add` leaves the document in PROCESSING and the job
  QUEUED without a Bull job; nothing looks for such jobs, and the unique index on active
  jobs refuses another one (`VisiblyLost`).
- Knowledge: a finished worker is documented to mean DONE with its chunks. Two deliveries of
  one job share the snapshot their writes compare, so the second may clear the chunks just
  before the first writes DONE.
- Audit export: a row set back to QUEUED by a worker whose Bull job another delivery
  finished is never claimed again, and maintenance waits for a dead letter that will not
  come, for the event counts as delivered (`Stranded`).
- Offline queue: an item that a closed tab left as `syncing` is never sent again
  (`Abandoned`), and a task's rating in it stays offered as waiting. The first retry comes
  after the second of the documented delays, because the count is raised before it is used
  as an index, and after the last delay an item is due at once. An edit that succeeds while
  an older edit of the same field is still queued is overwritten when the queue is flushed.
- Conversation memory: PostgreSQL is documented as authoritative, but two patches cached in
  the opposite order leave the older state in the cache until it expires (`overtaken`). A
  patch of one field of an expired state revives the other one. After a replacement that
  changes or shortens covered messages the summary keeps the old texts, and its watermark
  keeps new messages below it from ever being summarised (`rewritten`).
- Evaluation attempt: a test is named "elects one crash-seal winner across recovery claim
  takeover races" (`src/packages/agent/tests/phase-6-9-tutor-organizer-full-gate-durability-f2.test.ts:228`),
  and the acceptance document promises single-winner fencing of a dead owner's claim. A seal
  that read the journal and stalled may find the claim of a seal that finished meanwhile
  and whose process is gone: it renames that claim away, creates its own, rereads, sees the
  drift and withdraws, and the bundle that was reported as sealed no longer validates. With
  three seals a takeover may rename the claim of the one that just took over, so that
  nobody completes the journal (`slips`).
- Evaluation attempt: a recovery that dies after its `recovery_claimed` record lets the next
  one append a second, which the replay refuses for ever. A claim file that was created and
  not written blocks recovery for ever, and one left by a seal that died while the run
  finished makes a complete bundle invalid. A wire stage whose append failed though the
  line was written leaves the sibling lane calling the provider and appending to a journal
  that no longer parses.

## 7. Not modelled

Reporting columns (job attempt and progress, error texts, metrics), authorisation,
validation, wording. In the chat: text deltas in `ChatDelivery` (they are in
`ChatStream`), a repeated enqueue (it changes nothing), re-creation of a recovery record,
the de-duplication cap of 512 entries, poll delays. In knowledge processing: the
upload of a new document, splitting and embedding as functions, the limit of active
jobs per user, objects left behind when a clean-up fails, the observer events. In audit
exports: quotas and validation of the window, several exports that compete for a batch,
the archive's format, the janitor of temporary files, Bull's removal of old jobs; the
handler's reads and its acknowledgement are one step each with what follows from them, a
download that finds its object missing marks the row in the same step, and the last
deletion of a row waits for workers to be idle, a retention period after them. In the
offline queue: queued creations, OCR records, the local copies of rows, the order and size
of a flush, the schedule itself, and an edit's look-up and update as two statements. In
conversation memory: the model call's prompt, budget and output checks, the thresholds of
the trigger (it may go either way), conflicts within `prepareForTurn`.

Left out as components, with the reason in `PROJECT.json`: what is one statement or one
transaction on rows of one user, what only reports, what computes without state, and the
user interfaces. Of the evaluation attempt: an abort from outside, approvals and the
proxy's attestation, the report's contents and thresholds, process ids that are used
again. The other evaluation and acceptance tools around the agents (the largest files of
the repository) are variants of the same construction for other agents and phases, or
score recorded answers offline; none is part of the running system, and `FullGateAttempt`
stands beside the code as the one worked out.

## 8. Plan

1. `RefreshRotation`: token family, 2 tabs, 1 reuse.
2. Queued creations and the local copies of rows in `OfflineSync`, with the order of the
   values of an edit, so that overwritten edits become a property.
3. The acceptance ledger of the review planner (`review-planner-v8-product-acceptance-*`),
   whose recovery is a second design of what `FullGateAttempt` models.
