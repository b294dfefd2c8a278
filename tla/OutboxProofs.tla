---------------------------- MODULE OutboxProofs ----------------------------
(***************************************************************************)
(* Theorems about the outbox for every number of events, workers, attempts *)
(* and faults: type correctness, the retry budget, that an acknowledged    *)
(* event was handled, that an outcome is final, that one worker handles an *)
(* event while nothing fails, and that the dispatcher implements           *)
(* OutboxPromise.                                                          *)
(***************************************************************************)
EXTENDS Outbox, TLAPS

\* A worker past the head of its loop is on some event.
OnAnEvent ==
  \A w \in Workers :
    pc[w] \in {"handling", "resolved", "rejected", "failing"} => cur[w] \in Events

\* What a worker is about to acknowledge has been handled.
ResolvedWasHandled ==
  \A w \in Workers : pc[w] = "resolved" => cur[w] \in handled

\* While the lease is still its own, the retry-or-dead decision a worker read
\* in one statement is what it would read now: only a claim moves attempts, and
\* a claim moves the lease.
DecisionIsCurrent ==
  \A w \in Workers :
    (pc[w] = "failing" /\ Owns(w, cur[w]))
      => /\ verdict[w] = "DEAD" => attempts[cur[w]] >= MaxAttempts
         /\ verdict[w] = "PENDING" => attempts[cur[w]] < MaxAttempts

\* A row nobody has enqueued has no attempts to count.
AbsentIsFresh ==
  \A e \in Events : status[e] = "ABSENT" => attempts[e] = 0

IInv ==
  /\ TypeOK
  /\ AbsentIsFresh
  /\ OnAnEvent
  /\ ResolvedWasHandled
  /\ AcknowledgedWasHandled
  /\ DecisionIsCurrent
  /\ RetryBudget

-----------------------------------------------------------------------------
\* The initial state satisfies the inductive invariant.
LEMMA InitIInv == Init => IInv
BY OutboxAssumption
   DEF Init, IInv, TypeOK, OnAnEvent, ResolvedWasHandled, AcknowledgedWasHandled,
       DecisionIsCurrent, RetryBudget, AbsentIsFresh, Owns, Events, Statuses, Stages

\* The saturating counter stays a natural number and never forgets exhaustion.
LEMMA BumpNat ==
  \A n \in Nat : /\ Bump(n) \in Nat
                 /\ n >= MaxAttempts => Bump(n) >= MaxAttempts
BY OutboxAssumption DEF Bump

\* Every step of the outbox preserves the inductive invariant.
LEMMA StepIInv == IInv /\ [Next]_vars => IInv'
<1> SUFFICES ASSUME IInv, [Next]_vars PROVE IInv'
  OBVIOUS
<1> USE DEF IInv
<1>1. ASSUME NEW e \in Events, Enqueue(e) PROVE IInv'
  BY <1>1, OutboxAssumption
  DEF Enqueue, TypeOK, AbsentIsFresh, OnAnEvent, ResolvedWasHandled, AcknowledgedWasHandled,
     DecisionIsCurrent, RetryBudget, Owns, Statuses, Stages, row, tick
<1>2. ASSUME NEW e \in Events, Requeue(e) PROVE IInv'
  BY <1>2, OutboxAssumption
  DEF Requeue, TypeOK, AbsentIsFresh, OnAnEvent, ResolvedWasHandled, AcknowledgedWasHandled,
     DecisionIsCurrent, RetryBudget, Owns, Statuses, Stages, row, tick
<1>3. ASSUME NEW e \in Events, BecomeDue(e) PROVE IInv'
  BY <1>3, OutboxAssumption
  DEF BecomeDue, TypeOK, AbsentIsFresh, OnAnEvent, ResolvedWasHandled, AcknowledgedWasHandled,
     DecisionIsCurrent, RetryBudget, Owns, Statuses, Stages, row, tick
<1>4. ASSUME NEW e \in Events, AbandonedLeaseExpires(e) PROVE IInv'
  BY <1>4, OutboxAssumption
  DEF AbandonedLeaseExpires, TypeOK, AbsentIsFresh, OnAnEvent, ResolvedWasHandled, AcknowledgedWasHandled,
     DecisionIsCurrent, RetryBudget, Owns, Statuses, Stages, row, tick
<1>5. ASSUME NEW e \in Events, SlowLeaseExpires(e) PROVE IInv'
  BY <1>5, OutboxAssumption
  DEF SlowLeaseExpires, TypeOK, AbsentIsFresh, OnAnEvent, ResolvedWasHandled, AcknowledgedWasHandled,
     DecisionIsCurrent, RetryBudget, Owns, Statuses, Stages, row, tick
<1>6. ASSUME NEW w \in Workers, ReadCandidates(w) PROVE IInv'
  BY <1>6, OutboxAssumption
  DEF ReadCandidates, Oldest, TypeOK, AbsentIsFresh, OnAnEvent, ResolvedWasHandled, AcknowledgedWasHandled,
     DecisionIsCurrent, RetryBudget, Owns, Statuses, Stages, row, tick
<1>7. ASSUME NEW w \in Workers, ClaimNext(w) PROVE IInv'
  <2>1. TypeOK'
    BY <1>7, BumpNat, OutboxAssumption DEF TypeOK, ClaimNext, Claimable, Owns, Statuses, Stages
  <2>2. AbsentIsFresh'
    BY <1>7, BumpNat, OutboxAssumption DEF AbsentIsFresh, TypeOK, ClaimNext, Claimable, Owns, Statuses, Stages
  <2>3. OnAnEvent'
    BY <1>7, BumpNat, OutboxAssumption DEF OnAnEvent, TypeOK, ClaimNext, Claimable, Owns, Statuses, Stages
  <2>4. ResolvedWasHandled'
    BY <1>7, BumpNat, OutboxAssumption DEF ResolvedWasHandled, TypeOK, ClaimNext, Claimable, Owns, Statuses, Stages
  <2>5. AcknowledgedWasHandled'
    BY <1>7, BumpNat, OutboxAssumption DEF AcknowledgedWasHandled, ResolvedWasHandled, TypeOK, ClaimNext, Claimable, Owns, Statuses, Stages
  <2>6. DecisionIsCurrent'
    BY <1>7, BumpNat, OutboxAssumption DEF DecisionIsCurrent, OnAnEvent, TypeOK, ClaimNext, Claimable, Owns, Statuses, Stages
  <2>7. RetryBudget'
    BY <1>7, BumpNat, OutboxAssumption DEF RetryBudget, DecisionIsCurrent, AbsentIsFresh, TypeOK, ClaimNext, Claimable, Owns, Statuses, Stages
  <2>8. QED BY <2>1, <2>2, <2>3, <2>4, <2>5, <2>6, <2>7 DEF IInv
<1>8. ASSUME NEW w \in Workers, EndClaim(w) PROVE IInv'
  BY <1>8, OutboxAssumption
  DEF EndClaim, TypeOK, AbsentIsFresh, OnAnEvent, ResolvedWasHandled, AcknowledgedWasHandled,
     DecisionIsCurrent, RetryBudget, Owns, Statuses, Stages, row, tick
<1>9. ASSUME NEW w \in Workers, NextEvent(w) PROVE IInv'
  BY <1>9, OutboxAssumption
  DEF NextEvent, TypeOK, AbsentIsFresh, OnAnEvent, ResolvedWasHandled, AcknowledgedWasHandled,
     DecisionIsCurrent, RetryBudget, Owns, Statuses, Stages, row, tick
<1>10. ASSUME NEW w \in Workers, Handler(w) PROVE IInv'
  BY <1>10, OutboxAssumption
  DEF Handler, TypeOK, AbsentIsFresh, OnAnEvent, ResolvedWasHandled, AcknowledgedWasHandled,
     DecisionIsCurrent, RetryBudget, Owns, Statuses, Stages, row, tick
<1>11. ASSUME NEW w \in Workers, MarkSucceeded(w) PROVE IInv'
  <2>0. cur[w] \in Events
    BY <1>11 DEF OnAnEvent, MarkSucceeded
  <2>1. TypeOK'
    BY <1>11, <2>0, OutboxAssumption DEF TypeOK, MarkSucceeded, Owns, Statuses, Stages
  <2>2. AbsentIsFresh'
    BY <1>11, <2>0, OutboxAssumption DEF AbsentIsFresh, TypeOK, MarkSucceeded, Owns, Statuses, Stages
  <2>3. OnAnEvent'
    BY <1>11, <2>0, OutboxAssumption DEF OnAnEvent, TypeOK, MarkSucceeded, Owns, Statuses, Stages
  <2>4. ResolvedWasHandled'
    BY <1>11, <2>0, OutboxAssumption DEF ResolvedWasHandled, TypeOK, MarkSucceeded, Owns, Statuses, Stages
  <2>5. AcknowledgedWasHandled'
    BY <1>11, <2>0, OutboxAssumption DEF AcknowledgedWasHandled, ResolvedWasHandled, TypeOK, MarkSucceeded, Owns, Statuses, Stages
  <2>6. DecisionIsCurrent'
    BY <1>11, <2>0, OutboxAssumption DEF DecisionIsCurrent, OnAnEvent, TypeOK, MarkSucceeded, Owns, Statuses, Stages
  <2>7. RetryBudget'
    BY <1>11, <2>0, OutboxAssumption DEF RetryBudget, DecisionIsCurrent, AbsentIsFresh, TypeOK, MarkSucceeded, Owns, Statuses, Stages
  <2>8. QED BY <2>1, <2>2, <2>3, <2>4, <2>5, <2>6, <2>7 DEF IInv
<1>12. ASSUME NEW w \in Workers, ReadFailed(w) PROVE IInv'
  <2>0. cur[w] \in Events
    BY <1>12 DEF OnAnEvent, ReadFailed
  <2>1. TypeOK'
    BY <1>12, <2>0, OutboxAssumption DEF TypeOK, ReadFailed, Owns, Statuses, Stages, row
  <2>2. AbsentIsFresh'
    BY <1>12, <2>0, OutboxAssumption DEF AbsentIsFresh, TypeOK, ReadFailed, Owns, Statuses, Stages, row
  <2>3. OnAnEvent'
    BY <1>12, <2>0, OutboxAssumption DEF OnAnEvent, TypeOK, ReadFailed, Owns, Statuses, Stages, row
  <2>4. ResolvedWasHandled'
    BY <1>12, <2>0, OutboxAssumption DEF ResolvedWasHandled, TypeOK, ReadFailed, Owns, Statuses, Stages, row
  <2>5. AcknowledgedWasHandled'
    BY <1>12, <2>0, OutboxAssumption DEF AcknowledgedWasHandled, ResolvedWasHandled, TypeOK, ReadFailed, Owns, Statuses, Stages, row
  <2>6. DecisionIsCurrent'
    BY <1>12, <2>0, OutboxAssumption DEF DecisionIsCurrent, OnAnEvent, TypeOK, ReadFailed, Owns, Statuses, Stages, row
  <2>7. RetryBudget'
    BY <1>12, <2>0, OutboxAssumption DEF RetryBudget, DecisionIsCurrent, AbsentIsFresh, TypeOK, ReadFailed, Owns, Statuses, Stages, row
  <2>8. QED BY <2>1, <2>2, <2>3, <2>4, <2>5, <2>6, <2>7 DEF IInv
<1>13. ASSUME NEW w \in Workers, WriteFailed(w) PROVE IInv'
  <2>0. cur[w] \in Events
    BY <1>13 DEF OnAnEvent, WriteFailed
  <2>1. TypeOK'
    BY <1>13, <2>0, OutboxAssumption DEF TypeOK, WriteFailed, RecordFailure, Owns, Statuses, Stages
  <2>2. AbsentIsFresh'
    BY <1>13, <2>0, OutboxAssumption DEF AbsentIsFresh, TypeOK, WriteFailed, RecordFailure, Owns, Statuses, Stages
  <2>3. OnAnEvent'
    BY <1>13, <2>0, OutboxAssumption DEF OnAnEvent, TypeOK, WriteFailed, RecordFailure, Owns, Statuses, Stages
  <2>4. ResolvedWasHandled'
    BY <1>13, <2>0, OutboxAssumption DEF ResolvedWasHandled, TypeOK, WriteFailed, RecordFailure, Owns, Statuses, Stages
  <2>5. AcknowledgedWasHandled'
    BY <1>13, <2>0, OutboxAssumption DEF AcknowledgedWasHandled, ResolvedWasHandled, TypeOK, WriteFailed, RecordFailure, Owns, Statuses, Stages
  <2>6. DecisionIsCurrent'
    BY <1>13, <2>0, OutboxAssumption DEF DecisionIsCurrent, OnAnEvent, TypeOK, WriteFailed, RecordFailure, Owns, Statuses, Stages
  <2>7. RetryBudget'
    BY <1>13, <2>0, OutboxAssumption DEF RetryBudget, DecisionIsCurrent, AbsentIsFresh, TypeOK, WriteFailed, RecordFailure, Owns, Statuses, Stages
  <2>8. QED BY <2>1, <2>2, <2>3, <2>4, <2>5, <2>6, <2>7 DEF IInv
<1>14. ASSUME NEW w \in Workers, SuccessWriteError(w) PROVE IInv'
  <2>0. cur[w] \in Events
    BY <1>14 DEF OnAnEvent, SuccessWriteError
  <2>1. TypeOK'
    BY <1>14, <2>0, OutboxAssumption DEF TypeOK, SuccessWriteError, Owns, Statuses, Stages
  <2>2. AbsentIsFresh'
    BY <1>14, <2>0, OutboxAssumption DEF AbsentIsFresh, TypeOK, SuccessWriteError, Owns, Statuses, Stages
  <2>3. OnAnEvent'
    BY <1>14, <2>0, OutboxAssumption DEF OnAnEvent, TypeOK, SuccessWriteError, Owns, Statuses, Stages
  <2>4. ResolvedWasHandled'
    BY <1>14, <2>0, OutboxAssumption DEF ResolvedWasHandled, TypeOK, SuccessWriteError, Owns, Statuses, Stages
  <2>5. AcknowledgedWasHandled'
    BY <1>14, <2>0, OutboxAssumption DEF AcknowledgedWasHandled, ResolvedWasHandled, TypeOK, SuccessWriteError, Owns, Statuses, Stages
  <2>6. DecisionIsCurrent'
    BY <1>14, <2>0, OutboxAssumption DEF DecisionIsCurrent, OnAnEvent, TypeOK, SuccessWriteError, Owns, Statuses, Stages
  <2>7. RetryBudget'
    BY <1>14, <2>0, OutboxAssumption DEF RetryBudget, DecisionIsCurrent, AbsentIsFresh, TypeOK, SuccessWriteError, Owns, Statuses, Stages
  <2>8. QED BY <2>1, <2>2, <2>3, <2>4, <2>5, <2>6, <2>7 DEF IInv
<1>15. ASSUME NEW w \in Workers, TickAborts(w) PROVE IInv'
  <2>0. pc[w] = "failing" => cur[w] \in Events
    BY <1>15 DEF OnAnEvent, TickAborts
  <2>1. TypeOK'
    BY <1>15, <2>0, OutboxAssumption DEF TypeOK, TickAborts, RecordFailure, Owns, Statuses, Stages, row
  <2>2. AbsentIsFresh'
    BY <1>15, <2>0, OutboxAssumption DEF AbsentIsFresh, TypeOK, TickAborts, RecordFailure, Owns, Statuses, Stages, row
  <2>3. OnAnEvent'
    BY <1>15, <2>0, OutboxAssumption DEF OnAnEvent, TypeOK, TickAborts, RecordFailure, Owns, Statuses, Stages, row
  <2>4. ResolvedWasHandled'
    BY <1>15, <2>0, OutboxAssumption DEF ResolvedWasHandled, TypeOK, TickAborts, RecordFailure, Owns, Statuses, Stages, row
  <2>5. AcknowledgedWasHandled'
    BY <1>15, <2>0, OutboxAssumption DEF AcknowledgedWasHandled, ResolvedWasHandled, TypeOK, TickAborts, RecordFailure, Owns, Statuses, Stages, row
  <2>6. DecisionIsCurrent'
    BY <1>15, <2>0, OutboxAssumption DEF DecisionIsCurrent, OnAnEvent, TypeOK, TickAborts, RecordFailure, Owns, Statuses, Stages, row
  <2>7. RetryBudget'
    BY <1>15, <2>0, OutboxAssumption DEF RetryBudget, DecisionIsCurrent, AbsentIsFresh, TypeOK, TickAborts, RecordFailure, Owns, Statuses, Stages, row
  <2>8. QED BY <2>1, <2>2, <2>3, <2>4, <2>5, <2>6, <2>7 DEF IInv
<1>16. ASSUME NEW w \in Workers, Crash(w) PROVE IInv'
  BY <1>16, OutboxAssumption
  DEF Crash, Alive, TypeOK, AbsentIsFresh, OnAnEvent, ResolvedWasHandled, AcknowledgedWasHandled,
     DecisionIsCurrent, RetryBudget, Owns, Statuses, Stages, row, tick
<1>17. CASE UNCHANGED vars
  BY <1>17, OutboxAssumption
  DEF vars, TypeOK, AbsentIsFresh, OnAnEvent, ResolvedWasHandled, AcknowledgedWasHandled,
     DecisionIsCurrent, RetryBudget, Owns, Statuses, Stages, row, tick
<1>18. QED
  BY <1>1, <1>2, <1>3, <1>4, <1>5, <1>6, <1>7, <1>8, <1>9, <1>10, <1>11, <1>12,
     <1>13, <1>14, <1>15, <1>16, <1>17 DEF Next, Dispatch

\* The inductive invariant holds in every reachable state.
THEOREM Inductive == Spec => []IInv
BY InitIInv, StepIInv, PTL DEF Spec

\* Every variable keeps its type: Spec => []TypeOK for all values of the constants.
THEOREM TypeCorrect == Spec => []TypeOK
BY Inductive, PTL DEF IInv

\* An acknowledged event was handled, a queued one has an attempt left and a dead letter
\* has none, for any number of workers and faults.
THEOREM OutcomesAreEarnedAlways == Spec => []OutcomesAreEarned
<1>1. IInv => OutcomesAreEarned
  BY DEF IInv, OutcomesAreEarned
<1> QED
  BY <1>1, Inductive, PTL

-----------------------------------------------------------------------------
FinalStep ==
  \A e \in Events :
    /\ status[e] = "SUCCEEDED" => status'[e] = "SUCCEEDED"
    /\ (status[e] = "DEAD" /\ status'[e] # "DEAD")
         => (status'[e] = "PENDING" /\ attempts'[e] = 0)

\* No step of any worker, however late, rewrites an outcome.
LEMMA StepFinal == IInv /\ [Next]_vars => FinalStep
<1> SUFFICES ASSUME IInv, [Next]_vars PROVE FinalStep
  OBVIOUS
<1> USE DEF IInv, TypeOK, FinalStep
<1>1. ASSUME NEW e \in Events,
             Enqueue(e) \/ Requeue(e) \/ BecomeDue(e) \/ AbandonedLeaseExpires(e)
               \/ SlowLeaseExpires(e)
      PROVE FinalStep
  BY <1>1 DEF Enqueue, Requeue, BecomeDue, AbandonedLeaseExpires, SlowLeaseExpires
<1>2. ASSUME NEW w \in Workers, ClaimNext(w) PROVE FinalStep
  BY <1>2 DEF ClaimNext, Claimable
<1>3. ASSUME NEW w \in Workers,
             ReadCandidates(w) \/ EndClaim(w) \/ NextEvent(w) \/ Handler(w)
               \/ ReadFailed(w) \/ Crash(w)
      PROVE FinalStep
  BY <1>3 DEF ReadCandidates, EndClaim, NextEvent, Handler, ReadFailed, Crash, row
<1>4. ASSUME NEW w \in Workers, MarkSucceeded(w) \/ SuccessWriteError(w) PROVE FinalStep
  BY <1>4 DEF MarkSucceeded, SuccessWriteError, Owns
<1>5. ASSUME NEW w \in Workers, WriteFailed(w) \/ TickAborts(w) PROVE FinalStep
  BY <1>5 DEF WriteFailed, TickAborts, RecordFailure, Owns, row
<1>6. CASE UNCHANGED vars
  BY <1>6 DEF vars, row
<1>7. QED
  BY <1>1, <1>2, <1>3, <1>4, <1>5, <1>6 DEF Next, Dispatch

\* Outcomes are final: SUCCEEDED for good, DEAD until a requeue resets attempts.
THEOREM OutcomeIsFinalAlways == Spec => OutcomeIsFinal
<1>1. IInv /\ [Next]_vars
        => [\A e \in Events :
              /\ status[e] = "SUCCEEDED" => status'[e] = "SUCCEEDED"
              /\ (status[e] = "DEAD" /\ status'[e] # "DEAD")
                   => (status'[e] = "PENDING" /\ attempts'[e] = 0)]_vars
  BY StepFinal DEF FinalStep
<1>2. QED
  BY <1>1, Inductive, PTL DEF Spec, OutcomeIsFinal

-----------------------------------------------------------------------------
(* Two dispatchers, one event *)

\* What a worker holds: what is left of its batch, and the event it is on.
Held(w) == batch[w] \cup ({cur[w]} \ {0})

\* What a worker holds is its own under a live lease.
HoldsItsLeases(w) ==
  \A e \in Held(w) : status[e] = "PROCESSING" /\ lockedBy[e] = w /\ e \in leased

\* As long as nothing has gone wrong, every process lives, and the lease of an event is
\* not given up before the event has left the batch and the hands of its worker.
LeaseInv ==
  faults = 0 =>
    \A w \in Workers :
      /\ Alive(w) /\ HoldsItsLeases(w)
      /\ cur[w] \notin batch[w]
      /\ pc[w] \in {"idle", "claiming", "looping"} => cur[w] = 0

\* The other workers keep what they hold when a step leaves the row of each such event
\* alone.
LEMMA OthersHold ==
  ASSUME NEW w \in Workers, HoldsItsLeases(w),
         UNCHANGED <<batch[w], cur[w]>>,
         \A e \in Held(w) : /\ status'[e] = status[e] /\ lockedBy'[e] = lockedBy[e]
                            /\ e \in leased => e \in leased'
  PROVE  HoldsItsLeases(w)'
BY DEF HoldsItsLeases, Held

\* A step of one worker that leaves alone the rows of events it does not hold.
LEMMA WorkerKeepsLeases ==
  ASSUME TypeOK, LeaseInv, faults = 0, NEW w \in Workers,
         \A v \in Workers : v # w => UNCHANGED <<batch[v], cur[v], pc[v]>>,
         \A e \in Events : \/ e \in Held(w)
                           \/ /\ status'[e] = status[e] /\ lockedBy'[e] = lockedBy[e]
                              /\ e \in leased => e \in leased'
                           \/ ~(status[e] = "PROCESSING" /\ e \in leased),
         HoldsItsLeases(w)', Alive(w)', cur'[w] \notin batch'[w],
         pc'[w] \in {"idle", "claiming", "looping"} => cur'[w] = 0
  PROVE  LeaseInv'
<1>1. ASSUME NEW v \in Workers, v # w
      PROVE  HoldsItsLeases(v)'
  <2>1. ASSUME NEW e \in Held(v)
        PROVE  /\ status'[e] = status[e] /\ lockedBy'[e] = lockedBy[e]
               /\ e \in leased => e \in leased'
    <3>1. e \in Events /\ status[e] = "PROCESSING" /\ lockedBy[e] = v /\ e \in leased
      BY DEF LeaseInv, HoldsItsLeases, Held, TypeOK
    <3>2. e \notin Held(w)
      BY <1>1, <3>1 DEF LeaseInv, HoldsItsLeases
    <3> QED
      BY <3>1, <3>2
  <2> QED
    BY <1>1, <2>1, OthersHold DEF LeaseInv
<1> QED
  BY <1>1 DEF LeaseInv, Alive

LEMMA StepLease == IInv /\ LeaseInv /\ [Next]_vars => LeaseInv'
<1> SUFFICES ASSUME IInv, LeaseInv, [Next]_vars, faults' = 0
             PROVE  LeaseInv'
  BY DEF LeaseInv
<1>a. TypeOK /\ OnAnEvent /\ faults \in Nat
  BY DEF IInv, TypeOK
<1>1. ASSUME NEW w \in Workers, SuccessWriteError(w) \/ TickAborts(w) \/ Crash(w)
      PROVE  FALSE
  BY <1>1, <1>a DEF SuccessWriteError, TickAborts, Crash
<1>2. ASSUME NEW e \in Events, SlowLeaseExpires(e)
      PROVE  FALSE
  BY <1>2, <1>a DEF SlowLeaseExpires
<1>3. ASSUME NEW e \in Events, Enqueue(e) \/ Requeue(e) \/ BecomeDue(e) \/ AbandonedLeaseExpires(e)
      PROVE  LeaseInv'
  <2>1. faults = 0 /\ UNCHANGED <<batch, cur, pc>>
    BY <1>3 DEF Enqueue, Requeue, BecomeDue, AbandonedLeaseExpires, tick
  <2>2. ASSUME NEW w \in Workers, NEW f \in Held(w)
        PROVE  /\ status'[f] = status[f] /\ lockedBy'[f] = lockedBy[f]
               /\ f \in leased => f \in leased'
    <3>1. f \in Events /\ status[f] = "PROCESSING" /\ lockedBy[f] = w /\ Alive(w)
      BY <1>a, <2>1 DEF LeaseInv, HoldsItsLeases, Held, TypeOK
    <3>2. f \in batch[w] \/ f = cur[w]
      BY DEF Held
    <3> QED
      BY <1>3, <1>a, <3>1, <3>2
         DEF Enqueue, Requeue, BecomeDue, AbandonedLeaseExpires, Abandoned, TypeOK
  <2>3. ASSUME NEW w \in Workers
        PROVE  HoldsItsLeases(w)'
    BY <2>1, <2>2, OthersHold DEF LeaseInv
  <2> QED
    BY <2>1, <2>3 DEF LeaseInv, Alive
<1>4. ASSUME NEW w \in Workers, Dispatch(w)
      PROVE  LeaseInv'
  <2>a. faults = 0
    BY <1>4 DEF Dispatch, ReadCandidates, ClaimNext, EndClaim, NextEvent, Handler, MarkSucceeded,
                ReadFailed, WriteFailed
  <2>b. /\ HoldsItsLeases(w) /\ cur[w] \notin batch[w] /\ Alive(w)
        /\ pc[w] \in {"idle", "claiming", "looping"} => cur[w] = 0
    BY <2>a DEF LeaseInv
  <2>1. CASE ReadCandidates(w) \/ EndClaim(w) \/ Handler(w)
    <3>1. /\ UNCHANGED <<row, batch, cur>>
          /\ \A v \in Workers : v # w => pc'[v] = pc[v]
          /\ pc'[w] \in {"claiming", "looping", "resolved", "rejected"}
          /\ pc'[w] \in {"claiming", "looping"} => pc[w] \in {"idle", "claiming"}
      BY <1>a, <2>1 DEF ReadCandidates, EndClaim, Handler, TypeOK
    <3> QED
      BY <1>a, <2>a, <2>b, <3>1, WorkerKeepsLeases DEF row, HoldsItsLeases, Held, Alive
  <2>2. CASE NextEvent(w)
    <3>1. /\ UNCHANGED row
          /\ \A v \in Workers : v # w => UNCHANGED <<batch[v], cur[v], pc[v]>>
      BY <1>a, <2>2 DEF NextEvent, TypeOK
    <3>2. /\ Held(w)' = Held(w) /\ cur'[w] \notin batch'[w] /\ pc'[w] \in {"handling", "idle"}
          /\ pc'[w] = "idle" => cur'[w] = 0
      BY <1>a, <2>2, <2>b DEF NextEvent, TypeOK, Held, Events
    <3> QED
      BY <1>a, <2>a, <2>b, <3>1, <3>2, WorkerKeepsLeases DEF row, HoldsItsLeases, Alive
  <2>3. CASE ClaimNext(w)
    <3>1. PICK e \in cand[w] :
            /\ pc[w] = "claiming" /\ UNCHANGED <<pc, cur>>
            /\ \/ /\ Claimable(e)
                  /\ status' = [status EXCEPT ![e] = "PROCESSING"]
                  /\ lockedBy' = [lockedBy EXCEPT ![e] = w]
                  /\ leased' = leased \cup {e}
                  /\ batch' = [batch EXCEPT ![w] = @ \cup {e}]
               \/ UNCHANGED <<status, lockedBy, leased, batch>>
      BY <2>3 DEF ClaimNext
    <3>2. e \in Events /\ e # 0
      BY <1>a DEF TypeOK, Events
    <3>3. \A v \in Workers : v # w => UNCHANGED <<batch[v], cur[v], pc[v]>>
      BY <1>a, <3>1 DEF TypeOK
    <3>4. \A f \in Events : \/ /\ status'[f] = status[f] /\ lockedBy'[f] = lockedBy[f]
                               /\ f \in leased => f \in leased'
                            \/ ~(status[f] = "PROCESSING" /\ f \in leased)
      BY <1>a, <3>1, <3>2 DEF TypeOK, Claimable
    <3>5. HoldsItsLeases(w)' /\ cur'[w] \notin batch'[w]
      BY <1>a, <2>b, <3>1, <3>2 DEF TypeOK, HoldsItsLeases, Held
    <3> QED
      BY <1>a, <2>a, <2>b, <3>1, <3>3, <3>4, <3>5, WorkerKeepsLeases DEF Alive
  <2>4. CASE MarkSucceeded(w) \/ WriteFailed(w)
    <3>1. cur[w] \in Events /\ cur[w] \in Held(w)
      BY <1>a, <2>4 DEF OnAnEvent, MarkSucceeded, WriteFailed, Held, Events
    <3>2. /\ UNCHANGED batch /\ cur'[w] = 0 /\ pc'[w] = "looping"
          /\ \A v \in Workers : v # w => UNCHANGED <<batch[v], cur[v], pc[v]>>
      BY <1>a, <2>4 DEF MarkSucceeded, WriteFailed, TypeOK
    <3>3. \A f \in Events : f # cur[w] => /\ status'[f] = status[f] /\ lockedBy'[f] = lockedBy[f]
                                          /\ f \in leased => f \in leased'
      BY <1>a, <2>4 DEF MarkSucceeded, WriteFailed, RecordFailure, TypeOK
    <3>4. HoldsItsLeases(w)'
      BY <1>a, <2>b, <3>2, <3>3 DEF HoldsItsLeases, Held, TypeOK
    <3>5. cur'[w] \notin batch'[w]
      BY <1>a, <3>2 DEF TypeOK, Events
    <3> QED
      BY <1>a, <2>a, <3>1, <3>2, <3>3, <3>4, <3>5, WorkerKeepsLeases DEF Alive
  <2>5. CASE ReadFailed(w)
    <3>1. cur[w] \in Events /\ cur[w] \in Held(w) /\ Owns(w, cur[w])
      BY <1>a, <2>5, <2>b DEF OnAnEvent, ReadFailed, Held, Events, HoldsItsLeases, Owns
    <3>2. /\ UNCHANGED <<row, batch>> /\ cur'[w] = cur[w] /\ pc'[w] = "failing"
          /\ \A v \in Workers : v # w => UNCHANGED <<batch[v], cur[v], pc[v]>>
      BY <1>a, <2>5, <3>1 DEF ReadFailed, TypeOK
    <3> QED
      BY <1>a, <2>a, <2>b, <3>2, WorkerKeepsLeases DEF row, HoldsItsLeases, Held, Alive
  <2> QED
    BY <1>4, <2>1, <2>2, <2>3, <2>4, <2>5 DEF Dispatch
<1>5. CASE UNCHANGED vars
  BY <1>5 DEF vars, row, tick, LeaseInv, HoldsItsLeases, Held, Alive
<1> QED
  BY <1>1, <1>2, <1>3, <1>4, <1>5 DEF Next

\* Before anything has gone wrong no two dispatchers work on the same event, however
\* many there are and whichever candidates they read (the conditional updateMany of
\* claimPending is a compare-and-set, and the lease outlives the work).
THEOREM OneWorkerPerEventAlways == Spec => []OneWorkerPerEvent
<1>1. Init => LeaseInv
  BY DEF Init, LeaseInv, HoldsItsLeases, Held, Alive
<1>2. TypeOK /\ LeaseInv => OneWorkerPerEvent
  BY DEF TypeOK, LeaseInv, HoldsItsLeases, Held, OneWorkerPerEvent, Events
<1>3. IInv => TypeOK
  BY DEF IInv
<1> QED
  BY <1>1, <1>2, <1>3, StepLease, Inductive, PTL DEF Spec

-----------------------------------------------------------------------------
(* The dispatcher implements OutboxPromise *)

\* A worker only ever holds rows that exist.
HeldExists ==
  \A w \in Workers :
    /\ \A e \in cand[w] \cup batch[w] : status[e] # "ABSENT"
    /\ cur[w] \in Events => status[cur[w]] # "ABSENT"

\* No row is ever deleted.
LEMMA StatusStays ==
  ASSUME IInv, [Next]_vars, NEW e \in Events, status[e] # "ABSENT"
  PROVE  status'[e] # "ABSENT"
<1> USE DEF IInv, TypeOK, Statuses
<1>1. ASSUME NEW f \in Events,
             Enqueue(f) \/ Requeue(f) \/ BecomeDue(f) \/ AbandonedLeaseExpires(f)
               \/ SlowLeaseExpires(f)
      PROVE status'[e] # "ABSENT"
  BY <1>1 DEF Enqueue, Requeue, BecomeDue, AbandonedLeaseExpires, SlowLeaseExpires
<1>2. ASSUME NEW w \in Workers, ClaimNext(w) PROVE status'[e] # "ABSENT"
  BY <1>2 DEF ClaimNext
<1>3. ASSUME NEW w \in Workers,
             ReadCandidates(w) \/ EndClaim(w) \/ NextEvent(w) \/ Handler(w)
               \/ ReadFailed(w) \/ Crash(w)
      PROVE status'[e] # "ABSENT"
  BY <1>3 DEF ReadCandidates, EndClaim, NextEvent, Handler, ReadFailed, Crash, row
<1>4. ASSUME NEW w \in Workers, MarkSucceeded(w) \/ SuccessWriteError(w)
      PROVE status'[e] # "ABSENT"
  BY <1>4 DEF MarkSucceeded, SuccessWriteError
<1>5. ASSUME NEW w \in Workers, WriteFailed(w) \/ TickAborts(w) PROVE status'[e] # "ABSENT"
  BY <1>5 DEF WriteFailed, TickAborts, RecordFailure, row
<1>6. CASE UNCHANGED vars
  BY <1>6 DEF vars, row
<1> QED
  BY <1>1, <1>2, <1>3, <1>4, <1>5, <1>6 DEF Next, Dispatch

\* Candidates and claims are taken from the rows that exist.
LEMMA StepHeldExists == IInv /\ HeldExists /\ [Next]_vars => HeldExists'
<1> SUFFICES ASSUME IInv, HeldExists, [Next]_vars PROVE HeldExists'
  OBVIOUS
<1>a. \A e \in Events : status[e] # "ABSENT" => status'[e] # "ABSENT"
  BY StatusStays
<1>b. TypeOK
  BY DEF IInv
<1>1. ASSUME NEW e \in Events,
             Enqueue(e) \/ Requeue(e) \/ BecomeDue(e) \/ AbandonedLeaseExpires(e)
               \/ SlowLeaseExpires(e)
      PROVE HeldExists'
  BY <1>1, <1>a, <1>b
     DEF Enqueue, Requeue, BecomeDue, AbandonedLeaseExpires, SlowLeaseExpires, tick,
         HeldExists, TypeOK
<1>2. ASSUME NEW w \in Workers, ReadCandidates(w) PROVE HeldExists'
  BY <1>2, <1>b DEF ReadCandidates, Oldest, Claimable, row, HeldExists, TypeOK
<1>3. ASSUME NEW w \in Workers, ClaimNext(w) PROVE HeldExists'
  BY <1>3, <1>a, <1>b DEF ClaimNext, HeldExists, TypeOK
<1>4. ASSUME NEW w \in Workers, EndClaim(w) \/ NextEvent(w) PROVE HeldExists'
  BY <1>4, <1>b DEF EndClaim, NextEvent, row, HeldExists, TypeOK
<1>5. ASSUME NEW w \in Workers, Handler(w) \/ Crash(w) PROVE HeldExists'
  BY <1>5, <1>b DEF Handler, Crash, row, HeldExists, TypeOK
<1>6. ASSUME NEW w \in Workers, MarkSucceeded(w) \/ SuccessWriteError(w) PROVE HeldExists'
  BY <1>6, <1>a, <1>b DEF MarkSucceeded, SuccessWriteError, HeldExists, TypeOK, Events
<1>7. ASSUME NEW w \in Workers, ReadFailed(w) PROVE HeldExists'
  BY <1>7, <1>b DEF ReadFailed, row, HeldExists, TypeOK, Events
<1>8. ASSUME NEW w \in Workers, WriteFailed(w) \/ TickAborts(w) PROVE HeldExists'
  BY <1>8, <1>a, <1>b DEF WriteFailed, TickAborts, HeldExists, TypeOK, Events
<1>9. CASE UNCHANGED vars
  BY <1>9 DEF vars, row, tick, HeldExists
<1> QED
  BY <1>1, <1>2, <1>3, <1>4, <1>5, <1>6, <1>7, <1>8, <1>9 DEF Next, Dispatch

LEMMA HeldExistsAlways == Spec => []HeldExists
<1>1. Init => HeldExists
  BY DEF Init, HeldExists, Events
<1> QED
  BY <1>1, StepHeldExists, Inductive, PTL DEF Spec

\* The phase of an event depends on its status alone.
LEMMA PhaseUnchanged ==
  ASSUME UNCHANGED <<status, handled>>
  PROVE  UNCHANGED <<phase, handled>>
BY DEF phase

\* A change of one row is a change of one phase.
LEMMA PhaseOfOneRow ==
  ASSUME TypeOK, NEW e \in Events, NEW s \in Statuses, status' = [status EXCEPT ![e] = s],
         NEW p, p = CASE s = "ABSENT" -> "absent"
                      [] s \in {"PENDING", "PROCESSING"} -> "queued"
                      [] s = "SUCCEEDED" -> "done"
                      [] s = "DEAD" -> "dead"
  PROVE  phase' = [phase EXCEPT ![e] = p]
<1>1. \A f \in Events : /\ status'[f] = IF f = e THEN s ELSE status[f]
                        /\ status[f] \in Statuses
  BY DEF TypeOK
<1>2. phase'[e] = p
  BY <1>1 DEF phase
<1>3. \A f \in Events : f # e => phase'[f] = phase[f]
  <2> SUFFICES ASSUME NEW f \in Events, f # e PROVE phase'[f] = phase[f]
    OBVIOUS
  <2>1. status'[f] = status[f] /\ status[f] \in Statuses
    BY <1>1
  <2> QED
    BY <2>1 DEF phase, Statuses
<1>4. /\ phase \in [Events -> {"absent", "queued", "done", "dead"}]
      /\ phase' \in [Events -> {"absent", "queued", "done", "dead"}]
  BY <1>1 DEF phase, Statuses
<1> QED
  BY <1>2, <1>3, <1>4

\* Every step of the dispatcher is a step of the promise or changes nothing of it.
LEMMA StepPromise ==
  IInv /\ HeldExists /\ [Next]_vars => [Promise!Next]_<<phase, handled>>
<1> SUFFICES ASSUME IInv, HeldExists, [Next]_vars
             PROVE  Promise!Next \/ UNCHANGED <<phase, handled>>
  OBVIOUS
<1>a. TypeOK
  BY DEF IInv
<1>b. \A e \in Events :
        /\ status[e] = "ABSENT" => phase[e] = "absent"
        /\ status[e] \in {"PENDING", "PROCESSING"} => phase[e] = "queued"
        /\ status[e] = "SUCCEEDED" => phase[e] = "done"
        /\ status[e] = "DEAD" => phase[e] = "dead"
        /\ status[e] # "ABSENT" => phase[e] # "absent"
  BY <1>a DEF phase, TypeOK, Statuses
<1>1. ASSUME NEW e \in Events, Enqueue(e) PROVE Promise!Next
  <2>1. phase' = [phase EXCEPT ![e] = "queued"]
    BY <1>1, <1>a, PhaseOfOneRow DEF Enqueue, Statuses
  <2> QED
    BY <1>1, <1>b, <2>1 DEF Enqueue, Promise!Next, Promise!Put
<1>2. ASSUME NEW e \in Events, Requeue(e) PROVE Promise!Next
  <2>1. phase' = [phase EXCEPT ![e] = "queued"]
    BY <1>2, <1>a, PhaseOfOneRow DEF Requeue, Statuses
  <2> QED
    BY <1>2, <1>b, <2>1 DEF Requeue, Promise!Next, Promise!Revive
<1>3. ASSUME NEW w \in Workers, ClaimNext(w) PROVE UNCHANGED <<phase, handled>>
  <2>1. PICK e \in Events : \/ Claimable(e) /\ status' = [status EXCEPT ![e] = "PROCESSING"]
                            \/ UNCHANGED status
    BY <1>3, <1>a DEF ClaimNext, TypeOK
  <2>2. CASE Claimable(e) /\ status' = [status EXCEPT ![e] = "PROCESSING"]
    <3>1. phase' = [phase EXCEPT ![e] = "queued"]
      BY <1>a, <2>2, PhaseOfOneRow DEF Statuses
    <3>2. phase[e] = "queued"
      BY <1>b, <2>2 DEF Claimable
    <3>3. UNCHANGED phase
      BY <3>1, <3>2 DEF phase
    <3> QED
      BY <1>3, <3>3 DEF ClaimNext
  <2>3. CASE UNCHANGED status
    BY <1>3, <2>3, PhaseUnchanged DEF ClaimNext
  <2> QED
    BY <2>1, <2>2, <2>3
<1>4. ASSUME NEW w \in Workers, Handler(w) PROVE Promise!Next \/ UNCHANGED <<phase, handled>>
  <2>1. cur[w] \in Events /\ phase[cur[w]] # "absent"
    BY <1>4, <1>b DEF Handler, IInv, OnAnEvent, HeldExists
  <2>2. UNCHANGED phase
    BY <1>4 DEF Handler, row, phase
  <2> QED
    BY <1>4, <2>1, <2>2 DEF Handler, Promise!Next, Promise!Deliver
<1>5. ASSUME NEW w \in Workers, MarkSucceeded(w) \/ SuccessWriteError(w)
      PROVE Promise!Next \/ UNCHANGED <<phase, handled>>
  <2>1. cur[w] \in Events /\ cur[w] \in handled /\ pc[w] = "resolved"
    BY <1>5 DEF MarkSucceeded, SuccessWriteError, IInv, OnAnEvent, ResolvedWasHandled
  <2>2. CASE Owns(w, cur[w]) /\ status' = [status EXCEPT ![cur[w]] = "SUCCEEDED"]
    <3>1. phase' = [phase EXCEPT ![cur[w]] = "done"]
      BY <1>a, <2>1, <2>2, PhaseOfOneRow DEF Statuses
    <3> QED
      BY <1>5, <1>b, <2>1, <2>2, <3>1
         DEF MarkSucceeded, SuccessWriteError, Owns, Promise!Next, Promise!Acknowledge
  <2>3. CASE UNCHANGED status
    BY <1>5, <2>3, PhaseUnchanged DEF MarkSucceeded, SuccessWriteError
  <2> QED
    BY <1>5, <2>2, <2>3 DEF MarkSucceeded, SuccessWriteError
<1>6. ASSUME NEW w \in Workers, WriteFailed(w) \/ TickAborts(w)
      PROVE Promise!Next \/ UNCHANGED <<phase, handled>>
  <2>1. CASE pc[w] = "failing" /\ Owns(w, cur[w]) /\ status' = [status EXCEPT ![cur[w]] = verdict[w]]
    <3>1. cur[w] \in Events /\ verdict[w] \in {"PENDING", "DEAD"} /\ phase[cur[w]] = "queued"
      BY <1>a, <1>b, <2>1 DEF IInv, OnAnEvent, TypeOK, Owns
    <3>2. CASE verdict[w] = "PENDING"
      <4>1. phase' = [phase EXCEPT ![cur[w]] = "queued"]
        BY <1>a, <2>1, <3>1, <3>2, PhaseOfOneRow DEF Statuses
      <4>2. UNCHANGED phase
        BY <3>1, <4>1 DEF phase
      <4> QED
        BY <1>6, <4>2 DEF WriteFailed, TickAborts
    <3>3. CASE verdict[w] = "DEAD"
      <4>1. phase' = [phase EXCEPT ![cur[w]] = "dead"]
        BY <1>a, <2>1, <3>1, <3>3, PhaseOfOneRow DEF Statuses
      <4> QED
        BY <1>6, <3>1, <4>1 DEF WriteFailed, TickAborts, Promise!Next, Promise!GiveUp
    <3> QED
      BY <3>1, <3>2, <3>3
  <2>2. CASE UNCHANGED status
    BY <1>6, <2>2, PhaseUnchanged DEF WriteFailed, TickAborts
  <2> QED
    BY <1>6, <2>1, <2>2 DEF WriteFailed, TickAborts, RecordFailure, row
<1>7. ASSUME NEW e \in Events, BecomeDue(e) \/ AbandonedLeaseExpires(e) \/ SlowLeaseExpires(e)
      PROVE UNCHANGED <<phase, handled>>
  BY <1>7, PhaseUnchanged DEF BecomeDue, AbandonedLeaseExpires, SlowLeaseExpires
<1>8. ASSUME NEW w \in Workers,
             ReadCandidates(w) \/ EndClaim(w) \/ NextEvent(w) \/ ReadFailed(w) \/ Crash(w)
      PROVE UNCHANGED <<phase, handled>>
  BY <1>8, PhaseUnchanged DEF ReadCandidates, EndClaim, NextEvent, ReadFailed, Crash, row
<1>9. CASE UNCHANGED vars
  BY <1>9, PhaseUnchanged DEF vars, row
<1> QED
  BY <1>1, <1>2, <1>3, <1>4, <1>5, <1>6, <1>7, <1>8, <1>9 DEF Next, Dispatch

\* The dispatcher implements OutboxPromise for any number of events, workers,
\* attempts, requeues and faults.
THEOREM KeepsPromiseAlways == Spec => KeepsPromise
<1>1. Init => Promise!Init
  BY DEF Init, Promise!Init, phase
<1> QED
  BY <1>1, StepPromise, Inductive, HeldExistsAlways, PTL DEF Spec, KeepsPromise, Promise!Spec
=============================================================================
