------------------------------ MODULE OfflineSync ------------------------------
(***************************************************************************)
(* The browser's queue of failed writes and the server side it retries     *)
(* against.  Tabs share the queue; each saves one thing at a time and      *)
(* flushes the queue now and then.  Ratings are for the review tasks of    *)
(* one card, edits for one wrong question of another card.                 *)
(*                                                                         *)
(* Commands are numbered; a rating's number is its clientMutationId.  An   *)
(* edit stands for the fields of its patch.  Local copies of rows, queued  *)
(* creations, OCR records and the schedule itself are left out: a review   *)
(* gives the card a new nextReview, named by the length of the log.        *)
(***************************************************************************)
EXTENDS Naturals, Sequences, FiniteSets

CONSTANTS
  Tabs,
  Question,                \* the key of the wrong question
  MaxTasks,                \* bound: tasks of the card, one a day
  MaxCommands, MaxDirect,  \* bounds: ratings and edits, ratings by the old endpoint
  MaxFaults                \* bound: failing requests, closed tabs

Tasks == 1 .. MaxTasks     \* numbered as they are created

ASSUME SyncAssumption ==
  /\ Question \notin Tasks
  /\ {MaxTasks, MaxCommands, MaxDirect, MaxFaults} \subseteq Nat

VARIABLES
  asked,     \* the commands: Seq([kind, key])
  told,      \* commands the user was told are saved for later
  replaced,  \* queued ratings that another one of the task was put over
  queue,     \* mutationQueue: [1 .. MaxCommands -> item]
  saver,     \* [Tabs -> what the page does with its command]
  abandoned, \* items that were being sent by a tab that closed
  flush,     \* [Tabs -> the items flushMutationQueue has yet to send, the one being sent]
  call,      \* [Lines -> the request]; one that was left goes on at the server
  card,      \* count: reviewCount, due: nextReview and updatedAt
  logs,      \* ReviewLog: Seq([n, task])
  tasks,     \* ReviewTask: [Tasks -> [status, due, log]]
  listing,   \* generateDueTasks between its two statements: the nextReview it read
  direct,    \* submitRating of the old endpoint: the card it read
  lost,      \* reviews the old endpoint has overwritten on the card
  question,  \* WrongQuestion: exists, patches applied
  faults

records == <<told, replaced, abandoned>>
browser == <<asked, records, queue, saver, flush>>
reviews == <<card, logs, tasks>>
old == <<direct, lost>>
server == <<reviews, listing, old, question>>
vars == <<browser, call, server, faults>>

Ids == 1 .. MaxCommands
\* A tab has a line for what it saves, one for what it flushes, and for each of them one
\* for a request it no longer waits for (bound: one at a time).
Lines == Tabs \X {"save", "flush"} \X {"kept", "left"}
Save(p) == <<p, "save", "kept">>
Flush(p) == <<p, "flush", "kept">>
IsLeft(l) == l[3] = "left"
Left(l) == <<l[1], l[2], "left">>

NoItem == [kind |-> "none", key |-> Question, cmds |-> {}, status |-> "none"]
NoCard == [count |-> 0, due |-> 0]
NoCall == [at |-> "none", kind |-> "none", key |-> Question, cmds |-> {},
           seen |-> NoCard]
Idle == [at |-> "idle", n |-> 0, found |-> 0, was |-> NoItem]

Init ==
  /\ asked = <<>> /\ told = {} /\ replaced = {} /\ abandoned = {}
  /\ queue = [i \in Ids |-> NoItem]
  /\ saver = [p \in Tabs |-> Idle]
  /\ flush = [p \in Tabs |-> [todo |-> {}, cur |-> 0]]
  /\ call = [l \in Lines |-> NoCall]
  /\ card = NoCard /\ logs = <<>>
  /\ tasks = [t \in Tasks |-> [status |-> "NONE", due |-> 0, log |-> 0]]
  /\ listing = [at |-> "idle", due |-> 0]
  /\ direct = [at |-> "idle", seen |-> NoCard, done |-> 0] /\ lost = 0
  /\ question = [exists |-> TRUE, applied |-> {}]
  /\ faults = 0

Fault == faults < MaxFaults /\ faults' = faults + 1

-----------------------------------------------------------------------------
(* The pages: today and error-book *)

Present(i) == queue[i].status # "none"
Queued(key) == {i \in Ids : Present(i) /\ queue[i].key = key}

\* collectPendingReviewTaskRatings: one that was refused for good is not waiting.
Waiting(key) == {i \in Queued(key) : queue[i].status # "terminal"}

\* A rating is offered for a task that was listed and has none waiting.
Ask(p, kind, key) ==
  /\ saver[p].at = "idle" /\ Len(asked) < MaxCommands
  /\ kind = "rating" => tasks[key].status # "NONE" /\ Waiting(key) = {}
  /\ asked' = Append(asked, [kind |-> kind, key |-> key])
  /\ saver' = [saver EXCEPT ![p] = [Idle EXCEPT !.at = "calling", !.n = Len(asked) + 1]]
  /\ call' = [call EXCEPT ![Save(p)] =
       [NoCall EXCEPT !.at = "sent", !.kind = kind, !.key = key,
                      !.cmds = {Len(asked) + 1}]]
  /\ UNCHANGED <<records, queue, flush, server, faults>>

Answers == {"ok", "refused", "missing", "retry"}
Answered(l) == call[l].at \in Answers

\* A rating is queued when the request failed, an edit whenever it was not accepted.
ToQueue(p) ==
  \/ call[Save(p)].at = "retry"
  \/ call[Save(p)].at # "ok" /\ call[Save(p)].kind # "rating"

SaveAnswer(p) ==
  /\ saver[p].at = "calling" /\ Answered(Save(p)) /\ ~ToQueue(p)
  /\ saver' = [saver EXCEPT ![p] = Idle]
  /\ call' = [call EXCEPT ![Save(p)] = NoCall]
  /\ UNCHANGED <<records, asked, queue, flush, server, faults>>

\* enqueueMutationQueueItem looks for an item of the same key ...
FindByDedupeKey(p) ==
  LET found == Queued(asked[saver[p].n].key)
  IN /\ \/ saver[p].at = "failed" /\ UNCHANGED call
        \/ /\ saver[p].at = "calling" /\ Answered(Save(p)) /\ ToQueue(p)
           /\ call' = [call EXCEPT ![Save(p)] = NoCall]
     /\ \/ /\ found = {}
           /\ saver' = [saver EXCEPT ![p].at = "putting"]
        \/ \E i \in found : saver' = [saver EXCEPT ![p].at = "putting", ![p].found = i,
                                                   ![p].was = queue[i]]
     /\ UNCHANGED <<records, asked, queue, flush, server, faults>>

NewItem(n) == [kind |-> asked[n].kind, key |-> asked[n].key, cmds |-> {n}, status |-> "ready"]

\* mergeMutationQueueItems, without its cases for creations.
MergeMutationQueueItems(was, n) ==
  IF was.kind = "update" /\ asked[n].kind = "update"
    THEN [NewItem(n) EXCEPT !.cmds = was.cmds \cup {n}]
    ELSE NewItem(n)

\* ... and puts the merged item, whatever became of that one, over what is there by
\* now; then the page says so.
PutItem(p) ==
  LET n == saver[p].n
      i == IF saver[p].found = 0 THEN n ELSE saver[p].found
      over == queue[i]
  IN /\ saver[p].at = "putting"
     /\ queue' = [queue EXCEPT ![i] = MergeMutationQueueItems(saver[p].was, n)]
     /\ replaced' = IF over.kind = "rating" /\ over.key = asked[n].key
                      THEN replaced \cup over.cmds ELSE replaced
     /\ told' = told \cup {n}
     /\ saver' = [saver EXCEPT ![p] = Idle]
     /\ UNCHANGED <<abandoned, asked, flush, call, server, faults>>

-----------------------------------------------------------------------------
(* flushMutationQueue: online, focus, session restored, or the retry button *)

FlushIdle(p) == flush[p].todo = {} /\ flush[p].cur = 0

\* Somebody opens or returns to the tab, the connection comes back, or the retry button.
ReadQueue(p) ==
  LET due == {i \in Ids : queue[i].status = "ready"}
  IN /\ FlushIdle(p) /\ due # {}
     /\ flush' = [flush EXCEPT ![p].todo = {[id |-> i, item |-> queue[i]] : i \in due}]
     /\ UNCHANGED <<records, asked, queue, saver, call, server, faults>>

\* Mutant of SetStatus: the item is put back.
SetStatusAnyway(i, status) == queue' = [queue EXCEPT ![i].status = status]

\* db.mutationQueue.update changes nothing when the item is gone.
SetStatus(i, status) ==
  queue' = IF Present(i) THEN [queue EXCEPT ![i].status = status] ELSE queue

\* The item is sent as it was read.
SendItem(p) ==
  /\ flush[p].cur = 0
  /\ \E x \in flush[p].todo :
       /\ flush' = [flush EXCEPT ![p] = [todo |-> @.todo \ {x}, cur |-> x.id]]
       /\ SetStatus(x.id, "syncing")
       /\ call' = [call EXCEPT ![Flush(p)] =
            [NoCall EXCEPT !.at = "sent", !.kind = x.item.kind, !.key = x.item.key,
                           !.cmds = x.item.cmds]]
  /\ UNCHANGED <<records, asked, saver, server, faults>>

\* Mutant of ApplyResult: an item is removed unless it is to be retried.
ApplyResultDropping(p, answer) ==
  LET i == flush[p].cur
  IN IF answer = "retry" THEN SetStatus(i, "waiting")
     ELSE queue' = [queue EXCEPT ![i] = NoItem]

\* Mutant of ApplyResult: a failed item keeps its status.
ApplyResultSyncing(p, answer) ==
  LET i == flush[p].cur
  IN IF answer = "ok" THEN queue' = [queue EXCEPT ![i] = NoItem]
     ELSE IF answer = "retry" THEN SetStatus(i, "syncing")
     ELSE SetStatus(i, "terminal")

\* classifyMutationFlushError and the rest of the loop: success removes the item,
\* merged or not; a deleted row is success for a deletion.
ApplyResult(p, answer) ==
  LET i == flush[p].cur
      success == answer = "ok" \/ (answer = "missing" /\ call[Flush(p)].kind = "delete")
  IN IF success THEN queue' = [queue EXCEPT ![i] = NoItem]
     ELSE SetStatus(i, IF answer = "retry" THEN "waiting" ELSE "terminal")

FlushAnswer(p) ==
  /\ flush[p].cur # 0 /\ Answered(Flush(p))
  /\ ApplyResult(p, call[Flush(p)].at)
  /\ flush' = [flush EXCEPT ![p].cur = 0]
  /\ call' = [call EXCEPT ![Flush(p)] = NoCall]
  /\ UNCHANGED <<records, asked, saver, server, faults>>

\* nextRetryAt passes; after the last delay there is none and the item is due at once.
RetryTimePasses ==
  /\ \E i \in Ids : /\ queue[i].status = "waiting"
                   /\ queue' = [queue EXCEPT ![i].status = "ready"]
  /\ UNCHANGED <<records, asked, saver, flush, call, server, faults>>

-----------------------------------------------------------------------------
(* Things that go wrong between browser and server *)

\* The network or the server is down for a moment: some of the requests under way do
\* not arrive or are rolled back, which might as well not have begun.
RequestsFail ==
  /\ \E down \in SUBSET {l \in Lines : call[l].at = "sent" /\ ~IsLeft(l)} :
       /\ down # {}
       /\ call' = [l \in Lines |-> IF l \in down THEN [call[l] EXCEPT !.at = "retry"]
                                               ELSE call[l]]
  /\ Fault
  /\ UNCHANGED <<browser, server>>

Unauthorized(l) ==
  /\ call[l].at = "sent" /\ ~IsLeft(l) /\ Fault
  /\ call' = [call EXCEPT ![l].at = "refused"]
  /\ UNCHANGED <<browser, server>>

CanLeave(l) == call[Left(l)].at = "none"
Leave(l) == call' = [call EXCEPT ![l] = NoCall, ![Left(l)] = call[l]]

\* The connection drops while the server goes on; an answer that is lost is one that
\* comes after that.
SaveDrops(p) ==
  /\ saver[p].at = "calling" /\ call[Save(p)].at = "sent"
  /\ CanLeave(Save(p)) /\ Fault
  /\ Leave(Save(p))
  /\ saver' = [saver EXCEPT ![p].at = "failed"]
  /\ UNCHANGED <<records, asked, queue, flush, server>>

FlushDrops(p) ==
  /\ flush[p].cur # 0 /\ call[Flush(p)].at = "sent"
  /\ CanLeave(Flush(p)) /\ Fault
  /\ Leave(Flush(p))
  /\ ApplyResult(p, "retry")
  /\ flush' = [flush EXCEPT ![p].cur = 0]
  /\ UNCHANGED <<records, asked, saver, server>>

\* The tab is closed or reloaded; what it had sent goes on at the server.
CloseTab(p) ==
  LET leaves == {l \in {Save(p), Flush(p)} : call[l].at \in {"sent", "open"}}
  IN
  /\ saver[p].at # "idle" \/ ~FlushIdle(p)
  /\ \A l \in leaves : CanLeave(l)
  /\ Fault
  /\ abandoned' = abandoned \cup ({flush[p].cur} \ {0})
  /\ saver' = [saver EXCEPT ![p] = Idle]
  /\ flush' = [flush EXCEPT ![p] = [todo |-> {}, cur |-> 0]]
  /\ call' = [l \in Lines |->
                IF l \in {Save(p), Flush(p)} THEN NoCall
                ELSE IF l \in {Left(k) : k \in leaves} THEN call[<<l[1], l[2], "kept">>]
                ELSE call[l]]
  /\ UNCHANGED <<asked, told, replaced, queue, server>>

-----------------------------------------------------------------------------
(* The server *)

Answer(l, answer) ==
  call' = [call EXCEPT ![l] = IF IsLeft(l) THEN NoCall ELSE [@ EXCEPT !.at = answer]]
ServerOnly == UNCHANGED <<browser, listing, old, faults>>

Number(l) == CHOOSE n \in call[l].cmds : TRUE
Logged(n) == \E k \in DOMAIN logs : logs[k].n = n
Current(t) == tasks[t].due = card.due

\* Mutant of Ratable: the card may have been reviewed since.
RatableLate(t) == tasks[t].status = "PENDING"

\* ensurePendingTask and ensureCurrentDueTask.
Ratable(t) == tasks[t].status = "PENDING" /\ Current(t)

\* ReviewTasksService.submitRating, the reads: done before, refused, or card as read.
ReadForRating(l) ==
  /\ call[l].at = "sent" /\ call[l].kind = "rating"
  /\ \/ Logged(Number(l)) /\ Answer(l, "ok")
     \/ /\ ~Logged(Number(l))
        /\ IF Ratable(call[l].key)
             THEN call' = [call EXCEPT ![l].at = "open", ![l].seen = card]
             ELSE Answer(l, "refused")
  /\ UNCHANGED <<reviews, question>> /\ ServerOnly

\* Mutant of CardAsRead: the card is written whatever it is by now.
CardAnyhow(l) == TRUE

\* Card.updateMany compares updatedAt and nextReview.
CardAsRead(l) == card = call[l].seen

\* Mutant of CompleteTask: the cancellation does not spare the task.
CompleteTaskCancelled(t) ==
  tasks' = [u \in Tasks |->
    IF u = t \/ tasks[u].status \in {"PENDING", "SKIPPED"}
      THEN [tasks[u] EXCEPT !.status = "CANCELLED"] ELSE tasks[u]]

\* The task is completed and the card's other tasks are cancelled.
CompleteTask(t) ==
  tasks' = [u \in Tasks |->
    IF u = t THEN [tasks[u] EXCEPT !.status = "COMPLETED", !.log = Len(logs) + 1]
    ELSE IF tasks[u].status \in {"PENDING", "SKIPPED"}
      THEN [tasks[u] EXCEPT !.status = "CANCELLED"]
    ELSE tasks[u]]

\* ... the writes, which commit together or not at all.
CommitRating(l) ==
  LET t == call[l].key
      n == Number(l)
  IN /\ call[l].at = "open"
     /\ IF CardAsRead(l) /\ tasks[t].status = "PENDING"
          THEN /\ card' = [count |-> call[l].seen.count + 1, due |-> Len(logs) + 1]
               /\ logs' = Append(logs, [n |-> n, task |-> t])
               /\ CompleteTask(t)
               /\ Answer(l, "ok")
          ELSE /\ Answer(l, IF ~CardAsRead(l) /\ Logged(n) THEN "ok" ELSE "refused")
               /\ UNCHANGED reviews
     /\ UNCHANGED question /\ ServerOnly

\* WrongQuestionsService.update and delete.
UpdateQuestion(l) ==
  /\ call[l].at = "sent" /\ call[l].kind = "update"
  /\ IF question.exists
       THEN /\ question' = [question EXCEPT !.applied = @ \cup call[l].cmds]
            /\ Answer(l, "ok")
       ELSE Answer(l, "missing") /\ UNCHANGED question
  /\ UNCHANGED reviews /\ ServerOnly

DeleteQuestion(l) ==
  /\ call[l].at = "sent" /\ call[l].kind = "delete"
  /\ question' = [question EXCEPT !.exists = FALSE]
  /\ Answer(l, IF question.exists THEN "ok" ELSE "missing")
  /\ UNCHANGED reviews /\ ServerOnly

\* skip and reopen compare the status and look at nextReview again before they commit.
Skip(t) ==
  /\ tasks[t].status = "PENDING" /\ Current(t)
  /\ tasks' = [tasks EXCEPT ![t].status = "SKIPPED"]
  /\ UNCHANGED <<browser, call, card, logs, listing, old, question, faults>>

Reopen(t) ==
  /\ tasks[t].status = "SKIPPED" /\ Current(t)
  /\ tasks' = [tasks EXCEPT ![t].status = "PENDING"]
  /\ UNCHANGED <<browser, call, card, logs, listing, old, question, faults>>

\* generateDueTasks: the card is due and has no task of the day, and later gets one.
ReadDueCards ==
  /\ listing.at = "idle" /\ \E t \in Tasks : tasks[t].status = "NONE"
  /\ listing' = [at |-> "creating", due |-> card.due]
  /\ UNCHANGED <<browser, call, reviews, old, question, faults>>

CreateTask(t) ==
  /\ listing.at = "creating"
  /\ tasks[t].status = "NONE" /\ \A u \in Tasks : u < t => tasks[u].status # "NONE"
  /\ tasks' = [tasks EXCEPT ![t].status = "PENDING", ![t].due = listing.due]
  /\ listing' = [at |-> "idle", due |-> 0]
  /\ UNCHANGED <<browser, call, card, logs, old, question, faults>>

\* ReviewsService.submitRating, the old endpoint: no task, no comparison.
DirectRead ==
  /\ direct.at = "idle" /\ direct.done < MaxDirect
  /\ direct' = [direct EXCEPT !.at = "open", !.seen = card]
  /\ UNCHANGED <<browser, call, reviews, listing, lost, question, faults>>

DirectWrite ==
  /\ direct.at = "open"
  /\ card' = [count |-> direct.seen.count + 1, due |-> Len(logs) + 1]
  /\ logs' = Append(logs, [n |-> 0, task |-> Question])
  /\ lost' = lost + (card.count - direct.seen.count)
  /\ direct' = [at |-> "idle", seen |-> NoCard, done |-> direct.done + 1]
  /\ UNCHANGED <<browser, call, tasks, listing, question, faults>>

-----------------------------------------------------------------------------
Saver(p) == SaveAnswer(p) \/ FindByDedupeKey(p) \/ PutItem(p)
Flusher(p) == SendItem(p) \/ FlushAnswer(p)
Serve(l) == ReadForRating(l) \/ CommitRating(l) \/ UpdateQuestion(l) \/ DeleteQuestion(l)

Next ==
  \/ \E p \in Tabs : \/ \E t \in Tasks : Ask(p, "rating", t)
                     \/ \E kind \in {"update", "delete"} : Ask(p, kind, Question)
                     \/ Saver(p) \/ ReadQueue(p) \/ Flusher(p)
                     \/ SaveDrops(p) \/ FlushDrops(p) \/ CloseTab(p)
  \/ \E l \in Lines : Serve(l) \/ Unauthorized(l)
  \/ \E t \in Tasks : Skip(t) \/ Reopen(t) \/ CreateTask(t)
  \/ ReadDueCards \/ DirectRead \/ DirectWrite \/ RetryTimePasses \/ RequestsFail

Spec == Init /\ [][Next]_vars

\* Something goes on among the pages, the server and the clock: their work is finite, so
\* each gets its turn.  What starts a flush is left to the user and the network.
Fairness ==
  WF_vars(\/ \E p \in Tabs : Saver(p) \/ Flusher(p)
          \/ \E l \in Lines : Serve(l)
          \/ RetryTimePasses)

FairSpec == Spec /\ Fairness

-----------------------------------------------------------------------------
Keys == Tasks \cup {Question}
Commands == 1 .. Len(asked)
\* Ratings are of tasks, the rest of the question.
Keyed(work) == (work.kind = "rating") = (work.key \in Tasks)
Asks == {a \in [kind : {"rating", "update", "delete"}, key : Keys] : Keyed(a)}
Items == {NoItem} \cup {i \in
  [kind : {"rating", "update", "delete"}, key : Keys, cmds : (SUBSET Ids) \ {{}},
   status : {"ready", "syncing", "waiting", "terminal"}] : Keyed(i)}
Cards == [count : Nat, due : Nat]
Calls == {NoCall} \cup {c \in
  [at : {"sent", "open"} \cup Answers, kind : {"rating", "update", "delete"}, key : Keys,
   cmds : (SUBSET Ids) \ {{}}, seen : Cards] : Keyed(c)}
Savers == {Idle} \cup
  [at : {"calling", "failed", "putting"}, n : Ids, found : Ids \cup {0}, was : Items]
Flushes == [todo : SUBSET [id : Ids, item : Items \ {NoItem}], cur : Ids \cup {0}]
TaskRows == [status : {"NONE", "PENDING", "SKIPPED", "COMPLETED", "CANCELLED"},
             due : Nat, log : Nat]
LogRows == [n : Ids \cup {0}, task : Keys]

TypeOK ==
  /\ asked \in Seq(Asks)
  /\ Len(asked) <= MaxCommands
  /\ told \in SUBSET Ids /\ replaced \in SUBSET Ids /\ abandoned \in SUBSET Ids
  /\ queue \in [Ids -> Items]
  /\ saver \in [Tabs -> Savers] /\ \A p \in Tabs : saver[p].n \in Commands \cup {0}
  /\ flush \in [Tabs -> Flushes]
  /\ call \in [Lines -> Calls]
  /\ card \in Cards
  /\ logs \in Seq(LogRows)
  /\ tasks \in [Tasks -> TaskRows]
  /\ listing \in [at : {"idle", "creating"}, due : Nat]
  /\ direct \in [at : {"idle", "open"}, seen : Cards, done : Nat]
  /\ lost \in Nat
  /\ question \in [exists : BOOLEAN, applied : SUBSET Ids]
  /\ faults \in 0 .. MaxFaults

\* A task is completed by exactly one review, the one it names, and a rating that is
\* sent again after a lost answer, from the page and from two tabs, reviews once.
RatedOnce ==
  /\ \A t \in Tasks :
       LET of == {k \in DOMAIN logs : logs[k].task = t}
       IN of = IF tasks[t].status = "COMPLETED" THEN {tasks[t].log} ELSE {}
  /\ \A j, k \in DOMAIN logs : logs[j].n = logs[k].n /\ logs[j].n # 0 => j = k

\* Reviews of tasks never overwrite each other on the card: it has counted every
\* review in the log but those the old endpoint wrote over.
CardCountsReviews == card.count + lost = Len(logs)

\* The review that completes a task is the first one since the date the task was due
\* for, whichever endpoint, tab or stale listing was faster: no due date is reviewed
\* twice through tasks, and none after another rating has moved it.
OneReviewPerDueDate ==
  \A t \in Tasks : tasks[t].status = "COMPLETED" => tasks[t].log = tasks[t].due + 1

\* All of it: each rating counts once, for the date it was made for.
ReviewsAgree == RatedOnce /\ CardCountsReviews /\ OneReviewPerDueDate

\* "Saved for later" is true of ratings: each is in the queue, in the log, replaced
\* by another rating of its task, or its task is completed.
RatingsKept ==
  \A n \in told : asked[n].kind = "rating" =>
    \/ \E i \in Ids : n \in queue[i].cmds
    \/ Logged(n) \/ n \in replaced
    \/ tasks[asked[n].key].status = "COMPLETED"

\* What a closed tab left as syncing: no flush takes it.
Abandoned(i) == queue[i].status = "syncing" /\ i \in abandoned

\* There is no timer: a flush begins when somebody opens or returns to a tab or the
\* connection comes back.  Assumed here, and only here: while items stay due, one begins.
UserReturns == WF_vars(\E p \in Tabs : ReadQueue(p))

\* However requests fail and tabs close, again and again what is queued is due, refused
\* for good, or was left by a closed tab: no send leaves it as syncing; and if the user
\* returns, nothing stays due either.
QueueDrains ==
  /\ []<>(\A i \in Ids : queue[i].status \in {"none", "ready", "terminal"} \/ Abandoned(i))
  /\ UserReturns =>
       []<>(\A i \in Ids : queue[i].status \in {"none", "terminal"} \/ Abandoned(i))

\* The documented rule for edits: input that could not be saved is kept, in the queue
\* or on the server, as long as the question is not deleted.
EditsKept ==
  \A n \in told : asked[n].kind = "update" =>
    \/ \E i \in Ids : n \in queue[i].cmds
    \/ n \in question.applied
    \/ \E d \in Commands : asked[d].kind = "delete"
=============================================================================
