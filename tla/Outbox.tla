------------------------------- MODULE Outbox -------------------------------
(***************************************************************************)
(* The durable outbox of apps/server/src/outbox: rows of the OutboxEvent   *)
(* table, the dispatcher processes that claim a batch of them under a      *)
(* lease, run a handler for each and record the outcome, and the operator  *)
(* who puts a dead letter back in the queue.                               *)
(*                                                                         *)
(* A worker is one incarnation of a dispatcher process: the runner draws a *)
(* random workerId when it is constructed, so a restarted process is       *)
(* another member of Workers and a crashed one never steps again.  Clocks  *)
(* are abstracted to the two comparisons the code makes: due is the set of  *)
(* events whose nextRunAt has passed, leased the set whose lockedAt is not *)
(* yet older than the lock timeout.  Either can change at any moment,      *)
(* because the code puts no bound on how long a handler or a database call *)
(* takes.                                                                  *)
(***************************************************************************)
EXTENDS Integers, FiniteSets

CONSTANTS
  NumEvents,     \* rows that may be enqueued; a row's number is its createdAt rank
  Workers,       \* dispatcher process incarnations
  NoWorker,      \* lockedBy = null
  MaxAttempts,   \* OutboxEvent.maxAttempts
  BatchLimit,    \* OUTBOX_DISPATCHER_BATCH_SIZE
  MaxRequeues,   \* bound: operator requeues explored
  MaxFaults      \* bound: crashes, database errors and leases lost by a live worker

ASSUME OutboxAssumption ==
  /\ NumEvents \in Nat \ {0}
  /\ NoWorker \notin Workers
  /\ MaxAttempts \in Nat \ {0}
  /\ BatchLimit \in Nat \ {0}
  /\ MaxRequeues \in Nat
  /\ MaxFaults \in Nat

Events == 1 .. NumEvents

\* FAILED exists in the schema and is accepted by requeue, but no code writes it.
Statuses == {"ABSENT", "PENDING", "PROCESSING", "SUCCEEDED", "DEAD"}

VARIABLES
  status,     \* [Events -> Statuses]
  attempts,   \* [Events -> Nat], saturating one above MaxAttempts
  lockedBy,   \* [Events -> Workers \cup {NoWorker}]
  due,        \* the events with nextRunAt <= now
  leased,     \* the events with lockedAt >= now - lockTimeoutMs
  handled,    \* history: the events whose handler has resolved at least once
  pc,         \* [Workers -> Stages]: where the worker is in its tick
  cand,       \* [Workers -> SUBSET Events]: candidates claimPending has still to try
  batch,      \* [Workers -> SUBSET Events]: claimed events not yet dispatched
  cur,        \* [Workers -> Events \cup {0}]: the event the dispatch loop is on
  verdict,    \* [Workers -> {"PENDING", "DEAD"}]: what markFailedOrRetry decided from its read
  requeues,   \* operator requeues so far
  faults      \* faults so far

row == <<status, attempts, lockedBy, due, leased>>
tick == <<pc, cand, batch, cur, verdict>>
vars == <<row, handled, tick, requeues, faults>>

Stages == {"idle", "claiming", "looping", "handling", "resolved", "rejected",
           "failing", "dead"}

-----------------------------------------------------------------------------
\* Mutant of Claimable: an expired lease is never taken over.
ClaimablePendingOnly(e) == status[e] = "PENDING" /\ e \in due

Claimable(e) ==
  \/ status[e] = "PENDING" /\ e \in due
  \/ status[e] = "PROCESSING" /\ e \notin leased

\* The fence of every outcome write: where { id, status: 'PROCESSING', lockedBy }.
Owns(w, e) == status[e] = "PROCESSING" /\ lockedBy[e] = w

\* orderBy createdAt, take BatchLimit.
Oldest(S) == {e \in S : Cardinality({f \in S : f <= e}) <= BatchLimit}

\* The counter only matters against MaxAttempts, so it stops one above it.
Bump(n) == IF n > MaxAttempts THEN n ELSE n + 1

Alive(w) == pc[w] # "dead"

\* A lease its owner will never use again: the process died or gave the tick up.
Abandoned(e) ==
  \/ lockedBy[e] \notin Workers
  \/ /\ e \notin batch[lockedBy[e]]
     /\ e # cur[lockedBy[e]]
  \/ ~Alive(lockedBy[e])

Init ==
  /\ status = [e \in Events |-> "ABSENT"]
  /\ attempts = [e \in Events |-> 0]
  /\ lockedBy = [e \in Events |-> NoWorker]
  /\ due = Events
  /\ leased = {}
  /\ handled = {}
  /\ pc = [w \in Workers |-> "idle"]
  /\ cand = [w \in Workers |-> {}]
  /\ batch = [w \in Workers |-> {}]
  /\ cur = [w \in Workers |-> 0]
  /\ verdict = [w \in Workers |-> "PENDING"]
  /\ requeues = 0
  /\ faults = 0

-----------------------------------------------------------------------------
(* Producers and the operator *)

\* enqueue / enqueueInTransaction: a row appears; rows are created in rank order.
Enqueue(e) ==
  /\ status[e] = "ABSENT"
  /\ \A f \in Events : f < e => status[f] # "ABSENT"
  /\ status' = [status EXCEPT ![e] = "PENDING"]
  /\ UNCHANGED <<attempts, lockedBy, due, leased, handled, tick, requeues, faults>>

\* OutboxOpsService.requeue; any status but DEAD only yields a conflict error.
Requeue(e) ==
  /\ requeues < MaxRequeues
  /\ status[e] = "DEAD"
  /\ status' = [status EXCEPT ![e] = "PENDING"]
  /\ attempts' = [attempts EXCEPT ![e] = 0]
  /\ lockedBy' = [lockedBy EXCEPT ![e] = NoWorker]
  /\ due' = due \cup {e}
  /\ leased' = leased \ {e}
  /\ requeues' = requeues + 1
  /\ UNCHANGED <<handled, tick, faults>>

-----------------------------------------------------------------------------
(* One dispatcher tick *)

\* dispatchBatch reads the candidates; an empty list ends the tick at once.
ReadCandidates(w) ==
  LET found == Oldest({e \in Events : Claimable(e)}) IN
  /\ pc[w] = "idle"
  /\ found # {}
  /\ pc' = [pc EXCEPT ![w] = "claiming"]
  /\ cand' = [cand EXCEPT ![w] = found]
  /\ UNCHANGED <<row, handled, batch, cur, verdict, requeues, faults>>

\* Mutant of ClaimNext: the claim is not conditional on the row it was read from.
ClaimNextUnchecked(w) ==
  \E e \in cand[w] :
    /\ pc[w] = "claiming"
    /\ \A f \in cand[w] : e <= f
    /\ cand' = [cand EXCEPT ![w] = @ \ {e}]
    /\ status' = [status EXCEPT ![e] = "PROCESSING"]
    /\ lockedBy' = [lockedBy EXCEPT ![e] = w]
    /\ leased' = leased \cup {e}
    /\ attempts' = [attempts EXCEPT ![e] = Bump(@)]
    /\ batch' = [batch EXCEPT ![w] = @ \cup {e}]
    /\ UNCHANGED <<due, handled, pc, cur, verdict, requeues, faults>>

\* The conditional updateMany of one candidate, oldest first.
ClaimNext(w) ==
  \E e \in cand[w] :
    /\ pc[w] = "claiming"
    /\ \A f \in cand[w] : e <= f
    /\ cand' = [cand EXCEPT ![w] = @ \ {e}]
    /\ \/ /\ Claimable(e)
          /\ status' = [status EXCEPT ![e] = "PROCESSING"]
          /\ lockedBy' = [lockedBy EXCEPT ![e] = w]
          /\ leased' = leased \cup {e}
          /\ attempts' = [attempts EXCEPT ![e] = Bump(@)]
          /\ batch' = [batch EXCEPT ![w] = @ \cup {e}]
       \/ /\ ~Claimable(e)
          /\ UNCHANGED <<status, lockedBy, leased, attempts, batch>>
    /\ UNCHANGED <<due, handled, pc, cur, verdict, requeues, faults>>

\* All candidates tried: the claimed rows are read back and the loop begins.
EndClaim(w) ==
  /\ pc[w] = "claiming"
  /\ cand[w] = {}
  /\ pc' = [pc EXCEPT ![w] = "looping"]
  /\ UNCHANGED <<row, handled, cand, batch, cur, verdict, requeues, faults>>

\* The head of the for loop: the next event, or the end of the tick.
NextEvent(w) ==
  /\ pc[w] = "looping"
  /\ \/ \E e \in batch[w] :
          /\ \A f \in batch[w] : e <= f
          /\ cur' = [cur EXCEPT ![w] = e]
          /\ batch' = [batch EXCEPT ![w] = @ \ {e}]
          /\ pc' = [pc EXCEPT ![w] = "handling"]
     \/ /\ batch[w] = {}
        /\ pc' = [pc EXCEPT ![w] = "idle"]
        /\ UNCHANGED <<cur, batch>>
  /\ UNCHANGED <<row, handled, cand, verdict, requeues, faults>>

\* Mutant of Handler: a rejection is swallowed.
HandlerSwallowed(w) ==
  /\ pc[w] = "handling"
  /\ \/ handled' = handled \cup {cur[w]}
     \/ UNCHANGED handled
  /\ pc' = [pc EXCEPT ![w] = "resolved"]
  /\ UNCHANGED <<row, cand, batch, cur, verdict, requeues, faults>>

\* dispatchOne: the handler resolves, rejects, or is not registered at all.
Handler(w) ==
  /\ pc[w] = "handling"
  /\ \/ /\ handled' = handled \cup {cur[w]}
        /\ pc' = [pc EXCEPT ![w] = "resolved"]
     \/ /\ pc' = [pc EXCEPT ![w] = "rejected"]
        /\ UNCHANGED handled
  /\ UNCHANGED <<row, cand, batch, cur, verdict, requeues, faults>>

\* markSucceeded: a lost lease makes it a no-op and the loop goes on.
MarkSucceeded(w) ==
  LET e == cur[w] IN
  /\ pc[w] = "resolved"
  /\ \/ /\ Owns(w, e)
        /\ status' = [status EXCEPT ![e] = "SUCCEEDED"]
        /\ lockedBy' = [lockedBy EXCEPT ![e] = NoWorker]
        /\ leased' = leased \ {e}
     \/ /\ ~Owns(w, e)
        /\ UNCHANGED <<status, lockedBy, leased>>
  /\ pc' = [pc EXCEPT ![w] = "looping"]
  /\ cur' = [cur EXCEPT ![w] = 0]
  /\ UNCHANGED <<attempts, due, handled, cand, batch, verdict, requeues, faults>>

\* Mutant of ReadFailed: one attempt too many.
ReadFailedLax(w) ==
  LET e == cur[w] IN
  /\ pc[w] = "rejected"
  /\ verdict' = [verdict EXCEPT ![w] = IF attempts[e] > MaxAttempts THEN "DEAD" ELSE "PENDING"]
  /\ pc' = [pc EXCEPT ![w] = IF Owns(w, e) THEN "failing" ELSE "looping"]
  /\ cur' = [cur EXCEPT ![w] = IF Owns(w, e) THEN e ELSE 0]
  /\ UNCHANGED <<row, handled, cand, batch, requeues, faults>>

\* markFailedOrRetry, first half: the fenced read that decides retry or dead.
ReadFailed(w) ==
  LET e == cur[w] IN
  /\ pc[w] = "rejected"
  /\ verdict' = [verdict EXCEPT ![w] = IF attempts[e] >= MaxAttempts THEN "DEAD" ELSE "PENDING"]
  /\ pc' = [pc EXCEPT ![w] = IF Owns(w, e) THEN "failing" ELSE "looping"]
  /\ cur' = [cur EXCEPT ![w] = IF Owns(w, e) THEN e ELSE 0]
  /\ UNCHANGED <<row, handled, cand, batch, requeues, faults>>

\* Mutant of RecordFailure: the update is not fenced by status and owner.
RecordFailureUnfenced(w, e) ==
  /\ status' = [status EXCEPT ![e] = verdict[w]]
  /\ due' = IF verdict[w] = "PENDING" THEN due \ {e} ELSE due
  /\ lockedBy' = [lockedBy EXCEPT ![e] = NoWorker]
  /\ leased' = leased \ {e}

\* Mutant of RecordFailure: every failure is written as FAILED.
RecordFailureAsFailed(w, e) ==
  \/ /\ Owns(w, e)
     /\ status' = [status EXCEPT ![e] = "FAILED"]
     /\ due' = due \ {e}
     /\ lockedBy' = [lockedBy EXCEPT ![e] = NoWorker]
     /\ leased' = leased \ {e}
  \/ /\ ~Owns(w, e)
     /\ UNCHANGED <<status, due, lockedBy, leased>>

\* markFailedOrRetry, second half: the fenced updateMany; a retry is due only later.
RecordFailure(w, e) ==
  \/ /\ Owns(w, e)
     /\ status' = [status EXCEPT ![e] = verdict[w]]
     /\ due' = IF verdict[w] = "PENDING" THEN due \ {e} ELSE due
     /\ lockedBy' = [lockedBy EXCEPT ![e] = NoWorker]
     /\ leased' = leased \ {e}
  \/ /\ ~Owns(w, e)
     /\ UNCHANGED <<status, due, lockedBy, leased>>

WriteFailed(w) ==
  /\ pc[w] = "failing"
  /\ RecordFailure(w, cur[w])
  /\ pc' = [pc EXCEPT ![w] = "looping"]
  /\ cur' = [cur EXCEPT ![w] = 0]
  /\ UNCHANGED <<attempts, handled, cand, batch, verdict, requeues, faults>>

-----------------------------------------------------------------------------
(* Faults and the passing of time *)

\* markSucceeded throws (before or after its write): the catch block takes over.
SuccessWriteError(w) ==
  LET e == cur[w] IN
  /\ faults < MaxFaults
  /\ pc[w] = "resolved"
  /\ \/ /\ Owns(w, e)
        /\ status' = [status EXCEPT ![e] = "SUCCEEDED"]
        /\ lockedBy' = [lockedBy EXCEPT ![e] = NoWorker]
        /\ leased' = leased \ {e}
     \/ UNCHANGED <<status, lockedBy, leased>>
  /\ pc' = [pc EXCEPT ![w] = "rejected"]
  /\ faults' = faults + 1
  /\ UNCHANGED <<attempts, due, handled, cand, batch, cur, verdict, requeues>>

\* claimPending or markFailedOrRetry throws, the latter before or after its
\* write: tick logs it and forgets what is left of the batch.
TickAborts(w) ==
  /\ faults < MaxFaults
  /\ \/ pc[w] \in {"claiming", "rejected", "failing"} /\ UNCHANGED row
     \/ pc[w] = "failing" /\ RecordFailure(w, cur[w]) /\ UNCHANGED attempts
  /\ pc' = [pc EXCEPT ![w] = "idle"]
  /\ cand' = [cand EXCEPT ![w] = {}]
  /\ batch' = [batch EXCEPT ![w] = {}]
  /\ cur' = [cur EXCEPT ![w] = 0]
  /\ faults' = faults + 1
  /\ UNCHANGED <<handled, verdict, requeues>>

\* A process dies; the deployment keeps at least one dispatcher running.
Crash(w) ==
  /\ faults < MaxFaults
  /\ Alive(w)
  /\ \E v \in Workers \ {w} : Alive(v)
  /\ pc' = [pc EXCEPT ![w] = "dead"]
  /\ faults' = faults + 1
  /\ UNCHANGED <<row, handled, cand, batch, cur, verdict, requeues>>

\* The backoff of a retried event has elapsed.
BecomeDue(e) ==
  /\ status[e] = "PENDING"
  /\ e \notin due
  /\ due' = due \cup {e}
  /\ UNCHANGED <<status, attempts, lockedBy, leased, handled, tick, requeues, faults>>

\* The lock timeout passes over a lease nobody is working under.
AbandonedLeaseExpires(e) ==
  /\ status[e] = "PROCESSING"
  /\ e \in leased
  /\ Abandoned(e)
  /\ leased' = leased \ {e}
  /\ UNCHANGED <<status, attempts, lockedBy, due, handled, tick, requeues, faults>>

\* lockedAt is the start of the tick, so a slow batch outlives its own lease.
SlowLeaseExpires(e) ==
  /\ faults < MaxFaults
  /\ status[e] = "PROCESSING"
  /\ e \in leased
  /\ ~Abandoned(e)
  /\ leased' = leased \ {e}
  /\ faults' = faults + 1
  /\ UNCHANGED <<status, attempts, lockedBy, due, handled, tick, requeues>>

-----------------------------------------------------------------------------
Dispatch(w) ==
  \/ ReadCandidates(w) \/ ClaimNext(w) \/ EndClaim(w) \/ NextEvent(w)
  \/ Handler(w) \/ MarkSucceeded(w) \/ ReadFailed(w) \/ WriteFailed(w)

Next ==
  \/ \E e \in Events :
       \/ Enqueue(e) \/ Requeue(e)
       \/ BecomeDue(e) \/ AbandonedLeaseExpires(e) \/ SlowLeaseExpires(e)
  \/ \E w \in Workers :
       \/ Dispatch(w)
       \/ SuccessWriteError(w) \/ TickAborts(w) \/ Crash(w)

Spec == Init /\ [][Next]_vars

\* setInterval keeps ticking in every live process, and time passes.
Fairness ==
  /\ \A w \in Workers : WF_vars(Dispatch(w))
  /\ \A e \in Events : WF_vars(BecomeDue(e)) /\ WF_vars(AbandonedLeaseExpires(e))

FairSpec == Spec /\ Fairness

-----------------------------------------------------------------------------
(* Properties *)

TypeOK ==
  /\ status \in [Events -> Statuses]
  /\ attempts \in [Events -> Nat]
  /\ lockedBy \in [Events -> Workers \cup {NoWorker}]
  /\ due \in SUBSET Events
  /\ leased \in SUBSET Events
  /\ handled \in SUBSET Events
  /\ pc \in [Workers -> Stages]
  /\ cand \in [Workers -> SUBSET Events]
  /\ batch \in [Workers -> SUBSET Events]
  /\ cur \in [Workers -> Events \cup {0}]
  /\ verdict \in [Workers -> {"PENDING", "DEAD"}]
  /\ requeues \in Nat
  /\ faults \in Nat

\* An event is acknowledged only after its handler has resolved, whichever
\* worker ran it and whatever leases were lost on the way: nothing is dropped.
AcknowledgedWasHandled ==
  \A e \in Events : status[e] = "SUCCEEDED" => e \in handled

\* A queued event always has an attempt left and a dead letter never does, even
\* when attempts was read by one statement and the status written by another.
RetryBudget ==
  \A e \in Events :
    /\ status[e] = "PENDING" => attempts[e] < MaxAttempts
    /\ status[e] = "DEAD" => attempts[e] >= MaxAttempts

\* What an event has become, it has become for a reason.
OutcomesAreEarned == AcknowledgedWasHandled /\ RetryBudget

\* As long as nothing has gone wrong, two dispatchers that read the same
\* candidates never work on the same event: the claim is a compare-and-set.
OneWorkerPerEvent ==
  faults = 0 =>
    \A e \in Events : \A v, w \in Workers :
      (e \in batch[v] \cup {cur[v]} /\ e \in batch[w] \cup {cur[w]}) => v = w

\* A worker that lost its lease can no longer change the outcome: SUCCEEDED is
\* final, and DEAD is left only for a fresh retry budget.
OutcomeIsFinal ==
  [][\A e \in Events :
       /\ status[e] = "SUCCEEDED" => status'[e] = "SUCCEEDED"
       /\ (status[e] = "DEAD" /\ status'[e] # "DEAD")
            => (status'[e] = "PENDING" /\ attempts'[e] = 0)]_vars

\* The dispatcher keeps the outbox's promise: at-least-once delivery before the
\* acknowledgement, final acknowledgements, dead letters revived only by requeue.
phase ==
  [e \in Events |->
     CASE status[e] = "ABSENT" -> "absent"
       [] status[e] \in {"PENDING", "PROCESSING"} -> "queued"
       [] status[e] = "SUCCEEDED" -> "done"
       [] status[e] = "DEAD" -> "dead"]

Promise == INSTANCE OutboxPromise WITH delivered <- handled

KeepsPromise == Promise!Spec

\* Every event is eventually acknowledged or dead-lettered, crashes of single
\* dispatchers, aborted ticks and lost leases notwithstanding.
EveryEventSettles ==
  \A e \in Events : (status[e] # "ABSENT") ~> (status[e] \in {"SUCCEEDED", "DEAD"})
=============================================================================
