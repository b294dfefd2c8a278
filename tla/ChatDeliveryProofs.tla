-------------------------- MODULE ChatDeliveryProofs --------------------------
(***************************************************************************)
(* Theorems about the delivery of a chat turn for every number of workers, *)
(* handlers, attempts, stalls and faults: type correctness, that the       *)
(* durable facts of a turn agree, that the stream follows the database,    *)
(* that what one system reports as done is done in the next, and that the  *)
(* rows implement ChatTurnLifecycle.                                       *)
(***************************************************************************)
EXTENDS ChatDelivery, TLAPS

\* Before the enqueue transaction nothing of the turn exists anywhere.
AbsentIsUntouched ==
  turn = "ABSENT" =>
    /\ request = "absent" /\ bull = "ABSENT"
    /\ \A h \in Handlers : hpc[h] = "idle"
    /\ \A w \in Workers : pc[w] = "idle"

\* A job Bull may still run has an attempt left, and only a running one is locked.
QueueIsSound ==
  /\ bull \in {"WAITING", "RUNNING"} => attemptsMade < MaxAttempts
  /\ owner # Nobody => bull = "RUNNING"

\* A worker in the middle of a delivery knows which attempt it is.
BusyHasAttempt == \A w \in Workers : pc[w] # "idle" => att[w] \in Attempts

\* A worker about to announce an outcome has seen the turn's verdict, which the
\* turn keeps: this is why a slow publisher does no harm to a succeeded turn.
AnnouncesVerdict ==
  \A w \in Workers :
    /\ pc[w] \in {"completed", "republish"} => Terminal(turn)
    /\ pc[w] = "failed" => turn = "FAILED"

IInv ==
  /\ TypeOK
  /\ AbsentIsUntouched
  /\ QueueIsSound
  /\ BusyHasAttempt
  /\ AnnouncesVerdict
  /\ DurableFactsAgree
  /\ StreamFollowsDatabase



-----------------------------------------------------------------------------
\* The initial state satisfies the inductive invariant.
LEMMA InitIInv == Init => IInv
<1> SUFFICES ASSUME Init PROVE IInv
  OBVIOUS
<1> USE DeliveryAssumption DEF Init, Attempts, Statuses, Verdicts, Terminal, HandlerSteps, WorkerSteps
<1>1. TypeOK
  <2>1. hpc \in [Handlers -> HandlerSteps] /\ seen \in [Handlers -> Statuses]
    OBVIOUS
  <2>2. pc \in [Workers -> WorkerSteps] /\ att \in [Workers -> 0 .. MaxAttempts]
    OBVIOUS
  <2>3. fail \in [Workers -> {"retryable", "final"}]
    OBVIOUS
  <2>4. owner \in Workers \cup {Nobody, Ghost} /\ linked \in BOOLEAN /\ delivered \in BOOLEAN
    OBVIOUS
  <2>5. attemptsMade \in 0 .. MaxAttempts /\ stalls \in 0 .. MaxStalled /\ faults \in 0 .. MaxFaults
    OBVIOUS
  <2> QED
    BY <2>1, <2>2, <2>3, <2>4, <2>5 DEF TypeOK
<1>2. AbsentIsUntouched
  BY DEF AbsentIsUntouched
<1>3. QueueIsSound
  BY DEF QueueIsSound
<1>4. BusyHasAttempt
  BY DEF BusyHasAttempt
<1>5. AnnouncesVerdict
  BY DEF AnnouncesVerdict
<1>6. DurableFactsAgree
  BY DEF DurableFactsAgree
<1>7. StreamFollowsDatabase
  BY DEF StreamFollowsDatabase
<1> QED
  BY <1>1, <1>2, <1>3, <1>4, <1>5, <1>6, <1>7 DEF IInv

\* Moving a worker or a handler to one of its steps, and a handler's reading a
\* row, keep these functions typed.
LEMMA GotoTyped ==
  ASSUME pc \in [Workers -> WorkerSteps], NEW w \in Workers,
         NEW s \in WorkerSteps, Goto(w, s)
  PROVE  pc' \in [Workers -> WorkerSteps]
BY DEF Goto

LEMMA HandlerGotoTyped ==
  ASSUME hpc \in [Handlers -> HandlerSteps], NEW h \in Handlers,
         NEW s \in HandlerSteps, HandlerGoto(h, s)
  PROVE  hpc' \in [Handlers -> HandlerSteps]
BY DEF HandlerGoto

LEMMA SeenTyped ==
  ASSUME seen \in [Handlers -> Statuses], NEW h \in Handlers, NEW v \in Statuses
  PROVE  [seen EXCEPT ![h] = v] \in [Handlers -> Statuses]
OBVIOUS

\* Every step of the delivery preserves the inductive invariant.
LEMMA StepIInv == IInv /\ [Next]_vars => IInv'
<1> SUFFICES ASSUME IInv, [Next]_vars PROVE IInv'
  OBVIOUS
<1> USE DeliveryAssumption
    DEF IInv, Attempts, Statuses, Verdicts, Terminal, HandlerSteps, WorkerSteps,
        db, outbox, queue, worker
<1>1. ASSUME Enqueue PROVE IInv'
  <2>1. TypeOK'
    BY <1>1 DEF TypeOK, Enqueue
  <2>2. AbsentIsUntouched'
    BY <1>1 DEF AbsentIsUntouched, Enqueue
  <2>3. QueueIsSound'
    BY <1>1 DEF QueueIsSound, Enqueue
  <2>4. BusyHasAttempt'
    BY <1>1 DEF BusyHasAttempt, Enqueue
  <2>5. AnnouncesVerdict'
    BY <1>1 DEF AnnouncesVerdict, Enqueue
  <2>6. DurableFactsAgree'
    BY <1>1 DEF DurableFactsAgree, Enqueue
  <2>7. StreamFollowsDatabase'
    BY <1>1 DEF StreamFollowsDatabase, Enqueue
  <2> QED
    BY <2>1, <2>2, <2>3, <2>4, <2>5, <2>6, <2>7
<1>2. ASSUME Cancel PROVE IInv'
  <2>1. TypeOK'
    BY <1>2 DEF TypeOK, Cancel
  <2>2. AbsentIsUntouched'
    BY <1>2 DEF AbsentIsUntouched, Cancel
  <2>3. QueueIsSound'
    BY <1>2 DEF QueueIsSound, Cancel
  <2>4. BusyHasAttempt'
    BY <1>2 DEF BusyHasAttempt, Cancel
  <2>5. AnnouncesVerdict'
    BY <1>2 DEF AnnouncesVerdict, Cancel
  <2>6. DurableFactsAgree'
    BY <1>2 DEF DurableFactsAgree, Cancel
  <2>7. StreamFollowsDatabase'
    BY <1>2 DEF StreamFollowsDatabase, Cancel
  <2> QED
    BY <2>1, <2>2, <2>3, <2>4, <2>5, <2>6, <2>7
<1>3. ASSUME NEW h \in Handlers, StartHandler(h) PROVE IInv'
  <2>1. TypeOK'
    BY <1>3 DEF TypeOK, StartHandler, HandlerGoto
  <2>2. AbsentIsUntouched'
    BY <1>3 DEF AbsentIsUntouched, StartHandler, HandlerGoto
  <2>3. QueueIsSound'
    BY <1>3 DEF QueueIsSound, StartHandler, HandlerGoto
  <2>4. BusyHasAttempt'
    BY <1>3 DEF BusyHasAttempt, StartHandler, HandlerGoto
  <2>5. AnnouncesVerdict'
    BY <1>3 DEF AnnouncesVerdict, StartHandler, HandlerGoto
  <2>6. DurableFactsAgree'
    BY <1>3 DEF DurableFactsAgree, StartHandler, HandlerGoto
  <2>7. StreamFollowsDatabase'
    BY <1>3 DEF StreamFollowsDatabase, StartHandler, HandlerGoto
  <2> QED
    BY <2>1, <2>2, <2>3, <2>4, <2>5, <2>6, <2>7
<1>4. ASSUME NEW h \in Handlers, ReadFirstRow(h) PROVE IInv'
  <2>1. TypeOK'
    <3>1. hpc' \in [Handlers -> HandlerSteps]
      BY <1>4, HandlerGotoTyped DEF TypeOK, ReadFirstRow
    <3>2. seen' \in [Handlers -> Statuses]
      <4>1. turn \in Statuses /\ job \in Statuses
        BY <1>4 DEF TypeOK, AbsentIsUntouched, ReadFirstRow
      <4> QED
        BY <1>4, <4>1, SeenTyped DEF TypeOK, ReadFirstRow
    <3> QED
      BY <1>4, <3>1, <3>2 DEF TypeOK, ReadFirstRow
  <2>2. AbsentIsUntouched'
    BY <1>4 DEF AbsentIsUntouched, ReadFirstRow, HandlerGoto
  <2>3. QueueIsSound'
    BY <1>4 DEF QueueIsSound, ReadFirstRow, HandlerGoto
  <2>4. BusyHasAttempt'
    BY <1>4 DEF BusyHasAttempt, ReadFirstRow, HandlerGoto
  <2>5. AnnouncesVerdict'
    BY <1>4 DEF AnnouncesVerdict, ReadFirstRow, HandlerGoto
  <2>6. DurableFactsAgree'
    BY <1>4 DEF DurableFactsAgree, ReadFirstRow, HandlerGoto
  <2>7. StreamFollowsDatabase'
    BY <1>4 DEF StreamFollowsDatabase, ReadFirstRow, HandlerGoto
  <2> QED
    BY <2>1, <2>2, <2>3, <2>4, <2>5, <2>6, <2>7
<1>5. ASSUME NEW h \in Handlers, ReadSecondRow(h) PROVE IInv'
  <2>1. TypeOK'
    <3>1. hpc' \in [Handlers -> HandlerSteps] /\ seen' \in [Handlers -> Statuses]
      BY <1>5 DEF TypeOK, ReadSecondRow, Decide, HandlerGoto, Resolve, Reject, Forgotten
    <3>2. job' \in Statuses /\ delivered' \in BOOLEAN
      BY <1>5 DEF TypeOK, AbsentIsUntouched, ReadSecondRow, Decide, HandlerGoto, Resolve, Reject, Forgotten
    <3> QED
      BY <1>5, <3>1, <3>2 DEF TypeOK, ReadSecondRow
  <2>2. AbsentIsUntouched'
    BY <1>5 DEF AbsentIsUntouched, ReadSecondRow, Decide, HandlerGoto, Resolve, Reject, Forgotten
  <2>3. QueueIsSound'
    BY <1>5 DEF QueueIsSound, ReadSecondRow, Decide, HandlerGoto, Resolve, Reject, Forgotten
  <2>4. BusyHasAttempt'
    BY <1>5 DEF BusyHasAttempt, ReadSecondRow, Decide, HandlerGoto, Resolve, Reject, Forgotten
  <2>5. AnnouncesVerdict'
    BY <1>5 DEF AnnouncesVerdict, ReadSecondRow, Decide, HandlerGoto, Resolve, Reject, Forgotten
  <2>6. DurableFactsAgree'
    BY <1>5 DEF DurableFactsAgree, ReadSecondRow, Decide, HandlerGoto, Resolve, Reject, Forgotten
  <2>7. StreamFollowsDatabase'
    BY <1>5 DEF StreamFollowsDatabase, ReadSecondRow, Decide, HandlerGoto, Resolve, Reject, Forgotten
  <2> QED
    BY <2>1, <2>2, <2>3, <2>4, <2>5, <2>6, <2>7
<1>6. ASSUME NEW h \in Handlers, VerifyClaimed(h) PROVE IInv'
  <2>1. TypeOK'
    <3>1. hpc' \in [Handlers -> HandlerSteps] /\ seen' \in [Handlers -> Statuses]
      BY <1>6 DEF TypeOK, VerifyClaimed, HandlerGoto, Resolve, Reject
    <3>2. job' \in Statuses /\ delivered' \in BOOLEAN
      BY <1>6 DEF TypeOK, AbsentIsUntouched, VerifyClaimed, HandlerGoto, Resolve, Reject
    <3> QED
      BY <1>6, <3>1, <3>2 DEF TypeOK, VerifyClaimed
  <2>2. AbsentIsUntouched'
    BY <1>6 DEF AbsentIsUntouched, VerifyClaimed, HandlerGoto, Resolve, Reject
  <2>3. QueueIsSound'
    BY <1>6 DEF QueueIsSound, VerifyClaimed, HandlerGoto, Resolve, Reject
  <2>4. BusyHasAttempt'
    BY <1>6 DEF BusyHasAttempt, VerifyClaimed, HandlerGoto, Resolve, Reject
  <2>5. AnnouncesVerdict'
    BY <1>6 DEF AnnouncesVerdict, VerifyClaimed, HandlerGoto, Resolve, Reject
  <2>6. DurableFactsAgree'
    BY <1>6 DEF DurableFactsAgree, VerifyClaimed, HandlerGoto, Resolve, Reject
  <2>7. StreamFollowsDatabase'
    BY <1>6 DEF StreamFollowsDatabase, VerifyClaimed, HandlerGoto, Resolve, Reject
  <2> QED
    BY <2>1, <2>2, <2>3, <2>4, <2>5, <2>6, <2>7
<1>7. ASSUME NEW h \in Handlers, EnsureBullJob(h) PROVE IInv'
  <2>1. TypeOK'
    BY <1>7 DEF TypeOK, EnsureBullJob, HandlerGoto
  <2>2. AbsentIsUntouched'
    BY <1>7 DEF AbsentIsUntouched, EnsureBullJob, HandlerGoto
  <2>3. QueueIsSound'
    BY <1>7 DEF QueueIsSound, EnsureBullJob, HandlerGoto
  <2>4. BusyHasAttempt'
    BY <1>7 DEF BusyHasAttempt, EnsureBullJob, HandlerGoto
  <2>5. AnnouncesVerdict'
    BY <1>7 DEF AnnouncesVerdict, EnsureBullJob, HandlerGoto
  <2>6. DurableFactsAgree'
    BY <1>7 DEF DurableFactsAgree, EnsureBullJob, HandlerGoto
  <2>7. StreamFollowsDatabase'
    BY <1>7 DEF StreamFollowsDatabase, EnsureBullJob, HandlerGoto
  <2> QED
    BY <2>1, <2>2, <2>3, <2>4, <2>5, <2>6, <2>7
<1>8. ASSUME NEW h \in Handlers, LinkBullJob(h) PROVE IInv'
  <2>1. TypeOK'
    BY <1>8 DEF TypeOK, LinkBullJob, HandlerGoto, Resolve
  <2>2. AbsentIsUntouched'
    BY <1>8 DEF AbsentIsUntouched, LinkBullJob, HandlerGoto, Resolve
  <2>3. QueueIsSound'
    BY <1>8 DEF QueueIsSound, LinkBullJob, HandlerGoto, Resolve
  <2>4. BusyHasAttempt'
    BY <1>8 DEF BusyHasAttempt, LinkBullJob, HandlerGoto, Resolve
  <2>5. AnnouncesVerdict'
    BY <1>8 DEF AnnouncesVerdict, LinkBullJob, HandlerGoto, Resolve
  <2>6. DurableFactsAgree'
    BY <1>8 DEF DurableFactsAgree, LinkBullJob, HandlerGoto, Resolve
  <2>7. StreamFollowsDatabase'
    BY <1>8 DEF StreamFollowsDatabase, LinkBullJob, HandlerGoto, Resolve
  <2> QED
    BY <2>1, <2>2, <2>3, <2>4, <2>5, <2>6, <2>7
<1>9. ASSUME NEW h \in Handlers, ReconcileTerminalJob(h) PROVE IInv'
  <2>1. TypeOK'
    <3>1. hpc' \in [Handlers -> HandlerSteps] /\ seen' \in [Handlers -> Statuses]
      BY <1>9 DEF TypeOK, ReconcileTerminalJob, HandlerGoto, Resolve, Reject
    <3>2. job' \in Statuses /\ delivered' \in BOOLEAN
      BY <1>9 DEF TypeOK, AbsentIsUntouched, ReconcileTerminalJob, HandlerGoto, Resolve, Reject
    <3> QED
      BY <1>9, <3>1, <3>2 DEF TypeOK, ReconcileTerminalJob
  <2>2. AbsentIsUntouched'
    BY <1>9 DEF AbsentIsUntouched, ReconcileTerminalJob, HandlerGoto, Resolve, Reject
  <2>3. QueueIsSound'
    BY <1>9 DEF QueueIsSound, ReconcileTerminalJob, HandlerGoto, Resolve, Reject
  <2>4. BusyHasAttempt'
    BY <1>9 DEF BusyHasAttempt, ReconcileTerminalJob, HandlerGoto, Resolve, Reject
  <2>5. AnnouncesVerdict'
    BY <1>9 DEF AnnouncesVerdict, ReconcileTerminalJob, HandlerGoto, Resolve, Reject
  <2>6. DurableFactsAgree'
    BY <1>9 DEF DurableFactsAgree, ReconcileTerminalJob, HandlerGoto, Resolve, Reject
  <2>7. StreamFollowsDatabase'
    BY <1>9 DEF StreamFollowsDatabase, ReconcileTerminalJob, HandlerGoto, Resolve, Reject
  <2> QED
    BY <2>1, <2>2, <2>3, <2>4, <2>5, <2>6, <2>7
<1>10. ASSUME NEW h \in Handlers, HandlerFails(h) PROVE IInv'
  <2>1. TypeOK'
    BY <1>10 DEF TypeOK, HandlerFails, HandlerGoto, Reject, Forgotten, Fault
  <2>2. AbsentIsUntouched'
    BY <1>10 DEF AbsentIsUntouched, HandlerFails, HandlerGoto, Reject, Forgotten, Fault
  <2>3. QueueIsSound'
    BY <1>10 DEF QueueIsSound, HandlerFails, HandlerGoto, Reject, Forgotten, Fault
  <2>4. BusyHasAttempt'
    BY <1>10 DEF BusyHasAttempt, HandlerFails, HandlerGoto, Reject, Forgotten, Fault
  <2>5. AnnouncesVerdict'
    BY <1>10 DEF AnnouncesVerdict, HandlerFails, HandlerGoto, Reject, Forgotten, Fault
  <2>6. DurableFactsAgree'
    BY <1>10 DEF DurableFactsAgree, HandlerFails, HandlerGoto, Reject, Forgotten, Fault
  <2>7. StreamFollowsDatabase'
    BY <1>10 DEF StreamFollowsDatabase, HandlerFails, HandlerGoto, Reject, Forgotten, Fault
  <2> QED
    BY <2>1, <2>2, <2>3, <2>4, <2>5, <2>6, <2>7
<1>11. ASSUME Acknowledge PROVE IInv'
  <2>1. TypeOK'
    BY <1>11 DEF TypeOK, Acknowledge
  <2>2. AbsentIsUntouched'
    BY <1>11 DEF AbsentIsUntouched, Acknowledge
  <2>3. QueueIsSound'
    BY <1>11 DEF QueueIsSound, Acknowledge
  <2>4. BusyHasAttempt'
    BY <1>11 DEF BusyHasAttempt, Acknowledge
  <2>5. AnnouncesVerdict'
    BY <1>11 DEF AnnouncesVerdict, Acknowledge
  <2>6. DurableFactsAgree'
    BY <1>11 DEF DurableFactsAgree, Acknowledge
  <2>7. StreamFollowsDatabase'
    BY <1>11 DEF StreamFollowsDatabase, Acknowledge
  <2> QED
    BY <2>1, <2>2, <2>3, <2>4, <2>5, <2>6, <2>7
<1>12. ASSUME DeadLetter PROVE IInv'
  <2>1. TypeOK'
    BY <1>12 DEF TypeOK, DeadLetter, Fault
  <2>2. AbsentIsUntouched'
    BY <1>12 DEF AbsentIsUntouched, DeadLetter, Fault
  <2>3. QueueIsSound'
    BY <1>12 DEF QueueIsSound, DeadLetter, Fault
  <2>4. BusyHasAttempt'
    BY <1>12 DEF BusyHasAttempt, DeadLetter, Fault
  <2>5. AnnouncesVerdict'
    BY <1>12 DEF AnnouncesVerdict, DeadLetter, Fault
  <2>6. DurableFactsAgree'
    BY <1>12 DEF DurableFactsAgree, DeadLetter, Fault
  <2>7. StreamFollowsDatabase'
    BY <1>12 DEF StreamFollowsDatabase, DeadLetter, Fault
  <2> QED
    BY <2>1, <2>2, <2>3, <2>4, <2>5, <2>6, <2>7
<1>13. ASSUME Revive PROVE IInv'
  <2>1. TypeOK'
    BY <1>13 DEF TypeOK, Revive
  <2>2. AbsentIsUntouched'
    BY <1>13 DEF AbsentIsUntouched, Revive
  <2>3. QueueIsSound'
    BY <1>13 DEF QueueIsSound, Revive
  <2>4. BusyHasAttempt'
    BY <1>13 DEF BusyHasAttempt, Revive
  <2>5. AnnouncesVerdict'
    BY <1>13 DEF AnnouncesVerdict, Revive
  <2>6. DurableFactsAgree'
    BY <1>13 DEF DurableFactsAgree, Revive
  <2>7. StreamFollowsDatabase'
    BY <1>13 DEF StreamFollowsDatabase, Revive
  <2> QED
    BY <2>1, <2>2, <2>3, <2>4, <2>5, <2>6, <2>7
<1>14. ASSUME NEW w \in Workers, Fetch(w) PROVE IInv'
  <2>1. TypeOK'
    <3>1. pc' \in [Workers -> WorkerSteps]
      BY <1>14, GotoTyped DEF TypeOK, Fetch
    <3>2. att' \in [Workers -> 0 .. MaxAttempts]
      BY <1>14 DEF TypeOK, QueueIsSound, Fetch, AttemptNumber
    <3> QED
      BY <1>14, <3>1, <3>2 DEF TypeOK, Fetch
  <2>2. AbsentIsUntouched'
    BY <1>14 DEF AbsentIsUntouched, Fetch, AttemptNumber, Goto
  <2>3. QueueIsSound'
    BY <1>14 DEF QueueIsSound, Fetch, AttemptNumber, Goto
  <2>4. BusyHasAttempt'
    BY <1>14 DEF TypeOK, QueueIsSound, BusyHasAttempt, Fetch, AttemptNumber, Goto
  <2>5. AnnouncesVerdict'
    BY <1>14 DEF AnnouncesVerdict, Fetch, AttemptNumber, Goto
  <2>6. DurableFactsAgree'
    BY <1>14 DEF DurableFactsAgree, Fetch, AttemptNumber, Goto
  <2>7. StreamFollowsDatabase'
    BY <1>14 DEF StreamFollowsDatabase, Fetch, AttemptNumber, Goto
  <2> QED
    BY <2>1, <2>2, <2>3, <2>4, <2>5, <2>6, <2>7
<1>15. ASSUME NEW w \in Workers, Claim(w) PROVE IInv'
  <2>1. CASE Terminal(turn) /\ Reconcilable /\ ReconcileJob /\ Goto(w, "republish") /\ UNCHANGED <<turn, linked>>
    <3>1. TypeOK'
      BY <1>15, <2>1 DEF TypeOK, Claim, Reconcilable, ReconcileJob, Goto
    <3>2. AbsentIsUntouched'
      BY <1>15, <2>1 DEF AbsentIsUntouched, Claim, Reconcilable, ReconcileJob, Goto
    <3>3. QueueIsSound'
      BY <1>15, <2>1 DEF QueueIsSound, Claim, Reconcilable, ReconcileJob, Goto
    <3>4. BusyHasAttempt'
      BY <1>15, <2>1 DEF BusyHasAttempt, Claim, Reconcilable, ReconcileJob, Goto
    <3>5. AnnouncesVerdict'
      BY <1>15, <2>1 DEF AnnouncesVerdict, Claim, Reconcilable, ReconcileJob, Goto
    <3>6. DurableFactsAgree'
      BY <1>15, <2>1 DEF DurableFactsAgree, Claim, Reconcilable, ReconcileJob, Goto
    <3>7. StreamFollowsDatabase'
      BY <1>15, <2>1 DEF StreamFollowsDatabase, Claim, Reconcilable, ReconcileJob, Goto
    <3> QED
      BY <3>1, <3>2, <3>3, <3>4, <3>5, <3>6, <3>7
  <2>2. CASE /\ ~Terminal(turn) /\ ~Terminal(job) /\ att[w] \in Attempts
             /\ turn' = "ACTIVE" /\ job' = "ACTIVE" /\ linked' = TRUE /\ Goto(w, "generating")
    <3>1. TypeOK'
      BY <1>15, <2>2 DEF TypeOK, Claim, Reconcilable, ReconcileJob, Goto
    <3>2. AbsentIsUntouched'
      BY <1>15, <2>2 DEF AbsentIsUntouched, Claim, Reconcilable, ReconcileJob, Goto
    <3>3. QueueIsSound'
      BY <1>15, <2>2 DEF QueueIsSound, Claim, Reconcilable, ReconcileJob, Goto
    <3>4. BusyHasAttempt'
      BY <1>15, <2>2 DEF BusyHasAttempt, Claim, Reconcilable, ReconcileJob, Goto
    <3>5. AnnouncesVerdict'
      BY <1>15, <2>2 DEF AnnouncesVerdict, Claim, Reconcilable, ReconcileJob, Goto
    <3>6. DurableFactsAgree'
      BY <1>15, <2>2 DEF DurableFactsAgree, Claim, Reconcilable, ReconcileJob, Goto
    <3>7. StreamFollowsDatabase'
      BY <1>15, <2>2 DEF StreamFollowsDatabase, Claim, Reconcilable, ReconcileJob, Goto
    <3> QED
      BY <3>1, <3>2, <3>3, <3>4, <3>5, <3>6, <3>7
  <2>3. CASE Goto(w, "throw") /\ UNCHANGED <<turn, job, linked>>
    <3>1. TypeOK'
      BY <1>15, <2>3 DEF TypeOK, Claim, Reconcilable, ReconcileJob, Goto
    <3>2. AbsentIsUntouched'
      BY <1>15, <2>3 DEF AbsentIsUntouched, Claim, Reconcilable, ReconcileJob, Goto
    <3>3. QueueIsSound'
      BY <1>15, <2>3 DEF QueueIsSound, Claim, Reconcilable, ReconcileJob, Goto
    <3>4. BusyHasAttempt'
      BY <1>15, <2>3 DEF BusyHasAttempt, Claim, Reconcilable, ReconcileJob, Goto
    <3>5. AnnouncesVerdict'
      BY <1>15, <2>3 DEF AnnouncesVerdict, Claim, Reconcilable, ReconcileJob, Goto
    <3>6. DurableFactsAgree'
      BY <1>15, <2>3 DEF DurableFactsAgree, Claim, Reconcilable, ReconcileJob, Goto
    <3>7. StreamFollowsDatabase'
      BY <1>15, <2>3 DEF StreamFollowsDatabase, Claim, Reconcilable, ReconcileJob, Goto
    <3> QED
      BY <3>1, <3>2, <3>3, <3>4, <3>5, <3>6, <3>7
  <2> QED
    BY <1>15, <2>1, <2>2, <2>3 DEF Claim
<1>16. ASSUME NEW w \in Workers, Dispatch(w) PROVE IInv'
  <2>1. TypeOK'
    <3>1. pc' \in [Workers -> WorkerSteps] /\ dispatched' \subseteq Attempts
      BY <1>16 DEF TypeOK, BusyHasAttempt, Dispatch, Goto
    <3> QED
      BY <1>16, <3>1 DEF TypeOK, BusyHasAttempt, Dispatch, Goto
  <2>2. AbsentIsUntouched'
    BY <1>16 DEF AbsentIsUntouched, Dispatch, Goto
  <2>3. QueueIsSound'
    BY <1>16 DEF QueueIsSound, Dispatch, Goto
  <2>4. BusyHasAttempt'
    BY <1>16 DEF BusyHasAttempt, Dispatch, Goto
  <2>5. AnnouncesVerdict'
    BY <1>16 DEF AnnouncesVerdict, Dispatch, Goto
  <2>6. DurableFactsAgree'
    BY <1>16 DEF DurableFactsAgree, Dispatch, Goto
  <2>7. StreamFollowsDatabase'
    BY <1>16 DEF StreamFollowsDatabase, Dispatch, Goto
  <2> QED
    BY <2>1, <2>2, <2>3, <2>4, <2>5, <2>6, <2>7
<1>17. ASSUME NEW w \in Workers, AlreadyDispatched(w) PROVE IInv'
  <2>1. TypeOK'
    BY <1>17 DEF TypeOK, AlreadyDispatched, Goto
  <2>2. AbsentIsUntouched'
    BY <1>17 DEF AbsentIsUntouched, AlreadyDispatched, Goto
  <2>3. QueueIsSound'
    BY <1>17 DEF QueueIsSound, AlreadyDispatched, Goto
  <2>4. BusyHasAttempt'
    BY <1>17 DEF BusyHasAttempt, AlreadyDispatched, Goto
  <2>5. AnnouncesVerdict'
    BY <1>17 DEF AnnouncesVerdict, AlreadyDispatched, Goto
  <2>6. DurableFactsAgree'
    BY <1>17 DEF DurableFactsAgree, AlreadyDispatched, Goto
  <2>7. StreamFollowsDatabase'
    BY <1>17 DEF StreamFollowsDatabase, AlreadyDispatched, Goto
  <2> QED
    BY <2>1, <2>2, <2>3, <2>4, <2>5, <2>6, <2>7
<1>18. ASSUME NEW w \in Workers, NotAdmitted(w) PROVE IInv'
  <2>1. TypeOK'
    BY <1>18 DEF TypeOK, NotAdmitted, Caught, Goto
  <2>2. AbsentIsUntouched'
    BY <1>18 DEF AbsentIsUntouched, NotAdmitted, Caught, Goto
  <2>3. QueueIsSound'
    BY <1>18 DEF QueueIsSound, NotAdmitted, Caught, Goto
  <2>4. BusyHasAttempt'
    BY <1>18 DEF BusyHasAttempt, NotAdmitted, Caught, Goto
  <2>5. AnnouncesVerdict'
    BY <1>18 DEF AnnouncesVerdict, NotAdmitted, Caught, Goto
  <2>6. DurableFactsAgree'
    BY <1>18 DEF DurableFactsAgree, NotAdmitted, Caught, Goto
  <2>7. StreamFollowsDatabase'
    BY <1>18 DEF StreamFollowsDatabase, NotAdmitted, Caught, Goto
  <2> QED
    BY <2>1, <2>2, <2>3, <2>4, <2>5, <2>6, <2>7
<1>19. ASSUME NEW w \in Workers, Generate(w) PROVE IInv'
  <2>1. TypeOK'
    BY <1>19 DEF TypeOK, Generate, Caught, Goto
  <2>2. AbsentIsUntouched'
    BY <1>19 DEF AbsentIsUntouched, Generate, Caught, Goto
  <2>3. QueueIsSound'
    BY <1>19 DEF QueueIsSound, Generate, Caught, Goto
  <2>4. BusyHasAttempt'
    BY <1>19 DEF TypeOK, BusyHasAttempt, Generate, Caught, Goto
  <2>5. AnnouncesVerdict'
    BY <1>19 DEF TypeOK, AnnouncesVerdict, Generate, Caught, Goto
  <2>6. DurableFactsAgree'
    BY <1>19 DEF DurableFactsAgree, Generate, Caught, Goto
  <2>7. StreamFollowsDatabase'
    BY <1>19 DEF StreamFollowsDatabase, Generate, Caught, Goto
  <2> QED
    BY <2>1, <2>2, <2>3, <2>4, <2>5, <2>6, <2>7
<1>20. ASSUME NEW w \in Workers, CommitSuccess(w) PROVE IInv'
  <2>1. CASE /\ Terminal(turn) /\ Reconcilable /\ ReconcileJob /\ Goto(w, "completed")
             /\ UNCHANGED <<turn, linked, answer, events, fail>>
    <3>1. TypeOK'
      BY <1>20, <2>1 DEF TypeOK, CommitSuccess, Reconcilable, ReconcileJob, WriteAnswer, Caught, Goto
    <3>2. AbsentIsUntouched'
      BY <1>20, <2>1 DEF AbsentIsUntouched, CommitSuccess, Reconcilable, ReconcileJob, WriteAnswer, Caught, Goto
    <3>3. QueueIsSound'
      BY <1>20, <2>1 DEF QueueIsSound, CommitSuccess, Reconcilable, ReconcileJob, WriteAnswer, Caught, Goto
    <3>4. BusyHasAttempt'
      BY <1>20, <2>1 DEF BusyHasAttempt, CommitSuccess, Reconcilable, ReconcileJob, WriteAnswer, Caught, Goto
    <3>5. AnnouncesVerdict'
      BY <1>20, <2>1 DEF AnnouncesVerdict, CommitSuccess, Reconcilable, ReconcileJob, WriteAnswer, Caught, Goto
    <3>6. DurableFactsAgree'
      BY <1>20, <2>1 DEF DurableFactsAgree, CommitSuccess, Reconcilable, ReconcileJob, WriteAnswer, Caught, Goto
    <3>7. StreamFollowsDatabase'
      BY <1>20, <2>1 DEF StreamFollowsDatabase, CommitSuccess, Reconcilable, ReconcileJob, WriteAnswer, Caught, Goto
    <3> QED
      BY <3>1, <3>2, <3>3, <3>4, <3>5, <3>6, <3>7
  <2>2. CASE turn = "ACTIVE" /\ ~Terminal(job) /\ WriteAnswer(w) /\ Goto(w, "completed") /\ UNCHANGED fail
    <3>1. TypeOK'
      BY <1>20, <2>2 DEF TypeOK, CommitSuccess, Reconcilable, ReconcileJob, WriteAnswer, Caught, Goto
    <3>2. AbsentIsUntouched'
      BY <1>20, <2>2 DEF AbsentIsUntouched, CommitSuccess, Reconcilable, ReconcileJob, WriteAnswer, Caught, Goto
    <3>3. QueueIsSound'
      BY <1>20, <2>2 DEF QueueIsSound, CommitSuccess, Reconcilable, ReconcileJob, WriteAnswer, Caught, Goto
    <3>4. BusyHasAttempt'
      BY <1>20, <2>2 DEF BusyHasAttempt, CommitSuccess, Reconcilable, ReconcileJob, WriteAnswer, Caught, Goto
    <3>5. AnnouncesVerdict'
      BY <1>20, <2>2 DEF AnnouncesVerdict, CommitSuccess, Reconcilable, ReconcileJob, WriteAnswer, Caught, Goto
    <3>6. DurableFactsAgree'
      BY <1>20, <2>2 DEF DurableFactsAgree, CommitSuccess, Reconcilable, ReconcileJob, WriteAnswer, Caught, Goto, TypeOK, BusyHasAttempt
    <3>7. StreamFollowsDatabase'
      BY <1>20, <2>2 DEF StreamFollowsDatabase, CommitSuccess, Reconcilable, ReconcileJob, WriteAnswer, Caught, Goto
    <3> QED
      BY <3>1, <3>2, <3>3, <3>4, <3>5, <3>6, <3>7
  <2>3. CASE Caught(w, "final") /\ UNCHANGED db
    <3>1. TypeOK'
      BY <1>20, <2>3 DEF TypeOK, CommitSuccess, Reconcilable, ReconcileJob, WriteAnswer, Caught, Goto
    <3>2. AbsentIsUntouched'
      BY <1>20, <2>3 DEF AbsentIsUntouched, CommitSuccess, Reconcilable, ReconcileJob, WriteAnswer, Caught, Goto
    <3>3. QueueIsSound'
      BY <1>20, <2>3 DEF QueueIsSound, CommitSuccess, Reconcilable, ReconcileJob, WriteAnswer, Caught, Goto
    <3>4. BusyHasAttempt'
      BY <1>20, <2>3 DEF BusyHasAttempt, CommitSuccess, Reconcilable, ReconcileJob, WriteAnswer, Caught, Goto
    <3>5. AnnouncesVerdict'
      BY <1>20, <2>3 DEF AnnouncesVerdict, CommitSuccess, Reconcilable, ReconcileJob, WriteAnswer, Caught, Goto
    <3>6. DurableFactsAgree'
      BY <1>20, <2>3 DEF DurableFactsAgree, CommitSuccess, Reconcilable, ReconcileJob, WriteAnswer, Caught, Goto
    <3>7. StreamFollowsDatabase'
      BY <1>20, <2>3 DEF StreamFollowsDatabase, CommitSuccess, Reconcilable, ReconcileJob, WriteAnswer, Caught, Goto
    <3> QED
      BY <3>1, <3>2, <3>3, <3>4, <3>5, <3>6, <3>7
  <2> QED
    BY <1>20, <2>1, <2>2, <2>3 DEF CommitSuccess
<1>21. ASSUME NEW w \in Workers, HandleRetryable(w) PROVE IInv'
  <2>1. TypeOK'
    BY <1>21 DEF TypeOK, HandleRetryable, Goto
  <2>2. AbsentIsUntouched'
    BY <1>21 DEF AbsentIsUntouched, HandleRetryable, Goto
  <2>3. QueueIsSound'
    BY <1>21 DEF QueueIsSound, HandleRetryable, Goto
  <2>4. BusyHasAttempt'
    BY <1>21 DEF BusyHasAttempt, HandleRetryable, Goto
  <2>5. AnnouncesVerdict'
    BY <1>21 DEF AnnouncesVerdict, HandleRetryable, Goto
  <2>6. DurableFactsAgree'
    BY <1>21 DEF DurableFactsAgree, HandleRetryable, Goto
  <2>7. StreamFollowsDatabase'
    BY <1>21 DEF StreamFollowsDatabase, HandleRetryable, Goto
  <2> QED
    BY <2>1, <2>2, <2>3, <2>4, <2>5, <2>6, <2>7
<1>22. ASSUME NEW w \in Workers, HandleFinal(w) PROVE IInv'
  <2>1. CASE Terminal(turn) /\ Reconcilable /\ ReconcileJob /\ Goto(w, "republish") /\ UNCHANGED <<turn, events>>
    <3>1. TypeOK'
      BY <1>22, <2>1 DEF TypeOK, HandleFinal, Reconcilable, ReconcileJob, Goto
    <3>2. AbsentIsUntouched'
      BY <1>22, <2>1 DEF AbsentIsUntouched, HandleFinal, Reconcilable, ReconcileJob, Goto
    <3>3. QueueIsSound'
      BY <1>22, <2>1 DEF QueueIsSound, HandleFinal, Reconcilable, ReconcileJob, Goto
    <3>4. BusyHasAttempt'
      BY <1>22, <2>1 DEF BusyHasAttempt, HandleFinal, Reconcilable, ReconcileJob, Goto
    <3>5. AnnouncesVerdict'
      BY <1>22, <2>1 DEF AnnouncesVerdict, HandleFinal, Reconcilable, ReconcileJob, Goto
    <3>6. DurableFactsAgree'
      BY <1>22, <2>1 DEF DurableFactsAgree, HandleFinal, Reconcilable, ReconcileJob, Goto
    <3>7. StreamFollowsDatabase'
      BY <1>22, <2>1 DEF StreamFollowsDatabase, HandleFinal, Reconcilable, ReconcileJob, Goto
    <3> QED
      BY <3>1, <3>2, <3>3, <3>4, <3>5, <3>6, <3>7
  <2>2. CASE /\ ~Terminal(turn) /\ ~Terminal(job) /\ turn' = "FAILED" /\ job' = "FAILED"
             /\ events' = events \cup {"failed"} /\ Goto(w, "failed")
    <3>1. TypeOK'
      BY <1>22, <2>2 DEF TypeOK, HandleFinal, Reconcilable, ReconcileJob, Goto
    <3>2. AbsentIsUntouched'
      BY <1>22, <2>2 DEF AbsentIsUntouched, HandleFinal, Reconcilable, ReconcileJob, Goto
    <3>3. QueueIsSound'
      BY <1>22, <2>2 DEF QueueIsSound, HandleFinal, Reconcilable, ReconcileJob, Goto
    <3>4. BusyHasAttempt'
      BY <1>22, <2>2 DEF BusyHasAttempt, HandleFinal, Reconcilable, ReconcileJob, Goto
    <3>5. AnnouncesVerdict'
      BY <1>22, <2>2 DEF AnnouncesVerdict, HandleFinal, Reconcilable, ReconcileJob, Goto
    <3>6. DurableFactsAgree'
      BY <1>22, <2>2 DEF DurableFactsAgree, HandleFinal, Reconcilable, ReconcileJob, Goto
    <3>7. StreamFollowsDatabase'
      BY <1>22, <2>2 DEF StreamFollowsDatabase, HandleFinal, Reconcilable, ReconcileJob, Goto
    <3> QED
      BY <3>1, <3>2, <3>3, <3>4, <3>5, <3>6, <3>7
  <2>3. CASE Goto(w, "throw") /\ UNCHANGED <<turn, job, events>>
    <3>1. TypeOK'
      BY <1>22, <2>3 DEF TypeOK, HandleFinal, Reconcilable, ReconcileJob, Goto
    <3>2. AbsentIsUntouched'
      BY <1>22, <2>3 DEF AbsentIsUntouched, HandleFinal, Reconcilable, ReconcileJob, Goto
    <3>3. QueueIsSound'
      BY <1>22, <2>3 DEF QueueIsSound, HandleFinal, Reconcilable, ReconcileJob, Goto
    <3>4. BusyHasAttempt'
      BY <1>22, <2>3 DEF BusyHasAttempt, HandleFinal, Reconcilable, ReconcileJob, Goto
    <3>5. AnnouncesVerdict'
      BY <1>22, <2>3 DEF AnnouncesVerdict, HandleFinal, Reconcilable, ReconcileJob, Goto
    <3>6. DurableFactsAgree'
      BY <1>22, <2>3 DEF DurableFactsAgree, HandleFinal, Reconcilable, ReconcileJob, Goto
    <3>7. StreamFollowsDatabase'
      BY <1>22, <2>3 DEF StreamFollowsDatabase, HandleFinal, Reconcilable, ReconcileJob, Goto
    <3> QED
      BY <3>1, <3>2, <3>3, <3>4, <3>5, <3>6, <3>7
  <2> QED
    BY <1>22, <2>1, <2>2, <2>3 DEF HandleFinal
<1>23. ASSUME NEW w \in Workers, Publish(w) PROVE IInv'
  <2>1. TypeOK'
    BY <1>23 DEF TypeOK, Publish, Announcement, Goto
  <2>2. AbsentIsUntouched'
    BY <1>23 DEF AbsentIsUntouched, Publish, Announcement, Goto
  <2>3. QueueIsSound'
    BY <1>23 DEF QueueIsSound, Publish, Announcement, Goto
  <2>4. BusyHasAttempt'
    BY <1>23 DEF BusyHasAttempt, Publish, Announcement, Goto
  <2>5. AnnouncesVerdict'
    BY <1>23 DEF AnnouncesVerdict, Publish, Announcement, Goto
  <2>6. DurableFactsAgree'
    BY <1>23 DEF DurableFactsAgree, Publish, Announcement, Goto
  <2>7. StreamFollowsDatabase'
    BY <1>23 DEF TypeOK, AnnouncesVerdict, StreamFollowsDatabase, Publish, Announcement, Goto
  <2> QED
    BY <2>1, <2>2, <2>3, <2>4, <2>5, <2>6, <2>7
<1>24. ASSUME NEW w \in Workers, Return(w) PROVE IInv'
  <2>1. TypeOK'
    BY <1>24 DEF TypeOK, Return, Leave, Goto
  <2>2. AbsentIsUntouched'
    BY <1>24 DEF AbsentIsUntouched, Return, Leave, Goto
  <2>3. QueueIsSound'
    BY <1>24 DEF QueueIsSound, Return, Leave, Goto
  <2>4. BusyHasAttempt'
    BY <1>24 DEF TypeOK, BusyHasAttempt, Return, Leave, Goto
  <2>5. AnnouncesVerdict'
    BY <1>24 DEF AnnouncesVerdict, Return, Leave, Goto
  <2>6. DurableFactsAgree'
    BY <1>24 DEF DurableFactsAgree, Return, Leave, Goto
  <2>7. StreamFollowsDatabase'
    BY <1>24 DEF StreamFollowsDatabase, Return, Leave, Goto
  <2> QED
    BY <2>1, <2>2, <2>3, <2>4, <2>5, <2>6, <2>7
<1>25. ASSUME NEW w \in Workers, Throw(w) PROVE IInv'
  <2>1. TypeOK'
    <3>1. pc' \in [Workers -> WorkerSteps]
      BY <1>25 DEF TypeOK, Throw, Leave, Goto
    <3> QED
      BY <1>25, <3>1 DEF TypeOK, QueueIsSound, Throw, Leave, Goto
  <2>2. AbsentIsUntouched'
    BY <1>25 DEF AbsentIsUntouched, Throw, Leave, Goto
  <2>3. QueueIsSound'
    BY <1>25 DEF QueueIsSound, Throw, Leave, Goto
  <2>4. BusyHasAttempt'
    BY <1>25 DEF TypeOK, BusyHasAttempt, Throw, Leave, Goto
  <2>5. AnnouncesVerdict'
    BY <1>25 DEF AnnouncesVerdict, Throw, Leave, Goto
  <2>6. DurableFactsAgree'
    BY <1>25 DEF DurableFactsAgree, Throw, Leave, Goto
  <2>7. StreamFollowsDatabase'
    BY <1>25 DEF StreamFollowsDatabase, Throw, Leave, Goto
  <2> QED
    BY <2>1, <2>2, <2>3, <2>4, <2>5, <2>6, <2>7
<1>26. ASSUME NEW w \in Workers, CommitFails(w) PROVE IInv'
  <2>1. CASE UNCHANGED db
    <3>1. TypeOK'
      BY <1>26, <2>1 DEF TypeOK, CommitFails, WriteAnswer, Caught, Goto, Fault
    <3>2. AbsentIsUntouched'
      BY <1>26, <2>1 DEF AbsentIsUntouched, CommitFails, WriteAnswer, Caught, Goto, Fault
    <3>3. QueueIsSound'
      BY <1>26, <2>1 DEF QueueIsSound, CommitFails, WriteAnswer, Caught, Goto, Fault
    <3>4. BusyHasAttempt'
      BY <1>26, <2>1 DEF BusyHasAttempt, CommitFails, WriteAnswer, Caught, Goto, Fault
    <3>5. AnnouncesVerdict'
      BY <1>26, <2>1 DEF AnnouncesVerdict, CommitFails, WriteAnswer, Caught, Goto, Fault
    <3>6. DurableFactsAgree'
      BY <1>26, <2>1 DEF DurableFactsAgree, CommitFails, WriteAnswer, Caught, Goto, Fault
    <3>7. StreamFollowsDatabase'
      BY <1>26, <2>1 DEF StreamFollowsDatabase, CommitFails, WriteAnswer, Caught, Goto, Fault
    <3> QED
      BY <3>1, <3>2, <3>3, <3>4, <3>5, <3>6, <3>7
  <2>2. CASE turn = "ACTIVE" /\ ~Terminal(job) /\ WriteAnswer(w)
    <3>1. TypeOK'
      BY <1>26, <2>2 DEF TypeOK, CommitFails, WriteAnswer, Caught, Goto, Fault
    <3>2. AbsentIsUntouched'
      BY <1>26, <2>2 DEF AbsentIsUntouched, CommitFails, WriteAnswer, Caught, Goto, Fault
    <3>3. QueueIsSound'
      BY <1>26, <2>2 DEF QueueIsSound, CommitFails, WriteAnswer, Caught, Goto, Fault
    <3>4. BusyHasAttempt'
      BY <1>26, <2>2 DEF BusyHasAttempt, CommitFails, WriteAnswer, Caught, Goto, Fault
    <3>5. AnnouncesVerdict'
      BY <1>26, <2>2 DEF AnnouncesVerdict, CommitFails, WriteAnswer, Caught, Goto, Fault
    <3>6. DurableFactsAgree'
      BY <1>26, <2>2 DEF DurableFactsAgree, CommitFails, WriteAnswer, Caught, Goto, Fault, TypeOK, BusyHasAttempt
    <3>7. StreamFollowsDatabase'
      BY <1>26, <2>2 DEF StreamFollowsDatabase, CommitFails, WriteAnswer, Caught, Goto, Fault
    <3> QED
      BY <3>1, <3>2, <3>3, <3>4, <3>5, <3>6, <3>7
  <2> QED
    BY <1>26, <2>1, <2>2 DEF CommitFails
<1>27. ASSUME NEW w \in Workers, CallFails(w) PROVE IInv'
  <2>1. TypeOK'
    BY <1>27 DEF TypeOK, CallFails, Goto, Fault
  <2>2. AbsentIsUntouched'
    BY <1>27 DEF AbsentIsUntouched, CallFails, Goto, Fault
  <2>3. QueueIsSound'
    BY <1>27 DEF QueueIsSound, CallFails, Goto, Fault
  <2>4. BusyHasAttempt'
    BY <1>27 DEF BusyHasAttempt, CallFails, Goto, Fault
  <2>5. AnnouncesVerdict'
    BY <1>27 DEF AnnouncesVerdict, CallFails, Goto, Fault
  <2>6. DurableFactsAgree'
    BY <1>27 DEF DurableFactsAgree, CallFails, Goto, Fault
  <2>7. StreamFollowsDatabase'
    BY <1>27 DEF StreamFollowsDatabase, CallFails, Goto, Fault
  <2> QED
    BY <2>1, <2>2, <2>3, <2>4, <2>5, <2>6, <2>7
<1>28. ASSUME NEW w \in Workers, Crash(w) PROVE IInv'
  <2>1. TypeOK'
    BY <1>28 DEF TypeOK, Crash, Leave, Goto, Fault
  <2>2. AbsentIsUntouched'
    BY <1>28 DEF AbsentIsUntouched, Crash, Leave, Goto, Fault
  <2>3. QueueIsSound'
    BY <1>28 DEF QueueIsSound, Crash, Leave, Goto, Fault
  <2>4. BusyHasAttempt'
    BY <1>28 DEF TypeOK, BusyHasAttempt, Crash, Leave, Goto, Fault
  <2>5. AnnouncesVerdict'
    BY <1>28 DEF AnnouncesVerdict, Crash, Leave, Goto, Fault
  <2>6. DurableFactsAgree'
    BY <1>28 DEF DurableFactsAgree, Crash, Leave, Goto, Fault
  <2>7. StreamFollowsDatabase'
    BY <1>28 DEF StreamFollowsDatabase, Crash, Leave, Goto, Fault
  <2> QED
    BY <2>1, <2>2, <2>3, <2>4, <2>5, <2>6, <2>7
<1>29. ASSUME Stall PROVE IInv'
  <2>1. TypeOK'
    BY <1>29 DEF TypeOK, Stall, Fault
  <2>2. AbsentIsUntouched'
    BY <1>29 DEF AbsentIsUntouched, Stall, Fault
  <2>3. QueueIsSound'
    BY <1>29 DEF QueueIsSound, Stall, Fault
  <2>4. BusyHasAttempt'
    BY <1>29 DEF BusyHasAttempt, Stall, Fault
  <2>5. AnnouncesVerdict'
    BY <1>29 DEF AnnouncesVerdict, Stall, Fault
  <2>6. DurableFactsAgree'
    BY <1>29 DEF DurableFactsAgree, Stall, Fault
  <2>7. StreamFollowsDatabase'
    BY <1>29 DEF StreamFollowsDatabase, Stall, Fault
  <2> QED
    BY <2>1, <2>2, <2>3, <2>4, <2>5, <2>6, <2>7
<1>30. ASSUME Forget PROVE IInv'
  <2>1. TypeOK'
    BY <1>30 DEF TypeOK, Forget
  <2>2. AbsentIsUntouched'
    BY <1>30 DEF AbsentIsUntouched, Forget
  <2>3. QueueIsSound'
    BY <1>30 DEF QueueIsSound, Forget
  <2>4. BusyHasAttempt'
    BY <1>30 DEF BusyHasAttempt, Forget
  <2>5. AnnouncesVerdict'
    BY <1>30 DEF AnnouncesVerdict, Forget
  <2>6. DurableFactsAgree'
    BY <1>30 DEF DurableFactsAgree, Forget
  <2>7. StreamFollowsDatabase'
    BY <1>30 DEF StreamFollowsDatabase, Forget
  <2> QED
    BY <2>1, <2>2, <2>3, <2>4, <2>5, <2>6, <2>7
<1>31. CASE UNCHANGED vars
  BY <1>31 DEF vars, TypeOK, AbsentIsUntouched, QueueIsSound, BusyHasAttempt, AnnouncesVerdict,
     DurableFactsAgree, StreamFollowsDatabase
<1> QED
  BY <1>1, <1>2, <1>3, <1>4, <1>5, <1>6, <1>7, <1>8, <1>9, <1>10, <1>11,
     <1>12, <1>13, <1>14, <1>15, <1>16, <1>17, <1>18, <1>19, <1>20, <1>21, <1>22,
     <1>23, <1>24, <1>25, <1>26, <1>27, <1>28, <1>29, <1>30, <1>31
     DEF Next, Handle, Process

\* The inductive invariant holds always.
THEOREM Inductive == Spec => []IInv
BY InitIInv, StepIInv, PTL DEF Spec

\* Every variable of the delivery keeps its type, whatever the bounds.
THEOREM TypeCorrect == Spec => []TypeOK
BY Inductive, PTL DEF IInv

\* Answer, terminal events, turn status and job status never contradict each
\* other, for any number of workers, attempts, stalls and faults.
THEOREM DurableFactsAlways == Spec => []DurableFactsAgree
BY Inductive, PTL DEF IInv

\* A terminal stream event is published after the verdict it announces, and a
\* succeeded turn is never announced as failed.
THEOREM StreamFollowsAlways == Spec => []StreamFollowsDatabase
BY Inductive, PTL DEF IInv

-----------------------------------------------------------------------------
(* The rows implement the lifecycle of a turn *)

lifecycle == <<turn, answer, verdict, events>>

\* A step that leaves the rows alone is invisible to the lifecycle.
LEMMA RowsUnchanged ==
  ASSUME UNCHANGED <<turn, job, answer, events>>
  PROVE  UNCHANGED lifecycle
BY DEF lifecycle, verdict

\* A worker that finds the turn settled gives its job the turn's verdict, once.
LEMMA ReconcileIsSettle ==
  ASSUME Terminal(turn), Reconcilable, ReconcileJob, UNCHANGED <<turn, answer, events>>
  PROVE  Lifecycle!SettleJob \/ UNCHANGED lifecycle
<1>1. CASE Terminal(job)
  BY <1>1, RowsUnchanged DEF Reconcilable, ReconcileJob
<1>2. CASE ~Terminal(job)
  BY <1>2 DEF ReconcileJob, Lifecycle!SettleJob, Lifecycle!Verdicts, Terminal, Verdicts, verdict
<1> QED
  BY <1>1, <1>2

\* The success transaction is the one step that answers.
LEMMA AnswerIsWritten ==
  ASSUME NEW w \in Workers, att[w] \in Attempts,
         turn = "ACTIVE", ~Terminal(job), WriteAnswer(w)
  PROVE  Lifecycle!Next
<1>1. Lifecycle!Answer(att[w])
  BY DEF WriteAnswer, Lifecycle!Answer, verdict, Terminal, Verdicts
<1> QED
  BY <1>1 DEF Lifecycle!Next

\* Every step of the delivery is a step of the lifecycle or changes nothing of it.
LEMMA StepLifecycle == IInv /\ [Next]_vars => [Lifecycle!Next]_lifecycle
<1> SUFFICES ASSUME IInv, [Next]_vars PROVE Lifecycle!Next \/ UNCHANGED lifecycle
  OBVIOUS
<1> USE DEF Terminal, Verdicts, Lifecycle!Verdicts
<1>a. TypeOK /\ AbsentIsUntouched /\ BusyHasAttempt
  BY DEF IInv
<1>1. CASE Enqueue
  <2> Lifecycle!Accept
    BY <1>1 DEF Enqueue, Lifecycle!Accept, verdict
  <2> QED
    BY DEF Lifecycle!Next
<1>2. CASE Cancel
  <2> Lifecycle!Cancel
    BY <1>2 DEF Cancel, Lifecycle!Cancel, verdict
  <2> QED
    BY DEF Lifecycle!Next
<1>3. ASSUME NEW h \in Handlers, ReconcileTerminalJob(h)
      PROVE  Lifecycle!Next \/ UNCHANGED lifecycle
  <2>1. CASE Terminal(job)
    BY <1>3, <2>1, RowsUnchanged DEF ReconcileTerminalJob
  <2>2. CASE ~Terminal(job) /\ Terminal(turn)
    <3> Lifecycle!SettleJob
      BY <1>3, <2>2 DEF ReconcileTerminalJob, Lifecycle!SettleJob, verdict
    <3> QED
      BY DEF Lifecycle!Next
  <2>3. CASE ~Terminal(job) /\ ~Terminal(turn)
    BY <1>3, <2>3 DEF ReconcileTerminalJob, lifecycle, verdict
  <2> QED
    BY <2>1, <2>2, <2>3
<1>4. ASSUME NEW w \in Workers, Claim(w)
      PROVE  Lifecycle!Next \/ UNCHANGED lifecycle
  <2>1. CASE Terminal(turn) /\ Reconcilable /\ ReconcileJob /\ UNCHANGED turn
    BY <1>4, <2>1, ReconcileIsSettle DEF Claim, Lifecycle!Next
  <2>2. CASE /\ ~Terminal(turn) /\ ~Terminal(job) /\ pc[w] = "claiming"
             /\ turn' = "ACTIVE" /\ job' = "ACTIVE"
    <3>1. turn \in {"QUEUED", "ACTIVE"}
      BY <1>a, <2>2 DEF TypeOK, AbsentIsUntouched
    <3>2. verdict = "OPEN" /\ UNCHANGED <<answer, verdict, events>>
      BY <1>4, <2>2 DEF Claim, verdict
    <3>3. CASE turn = "QUEUED"
      BY <2>2, <3>2, <3>3 DEF Lifecycle!Next, Lifecycle!Start
    <3> QED
      BY <2>2, <3>1, <3>2, <3>3 DEF lifecycle
  <2>3. CASE UNCHANGED <<turn, job>>
    BY <1>4, <2>3, RowsUnchanged DEF Claim
  <2> QED
    BY <1>4, <2>1, <2>2, <2>3 DEF Claim
<1>5. ASSUME NEW w \in Workers, CommitSuccess(w)
      PROVE  Lifecycle!Next \/ UNCHANGED lifecycle
  <2>1. CASE Terminal(turn) /\ Reconcilable /\ ReconcileJob /\ UNCHANGED <<turn, answer, events>>
    BY <2>1, ReconcileIsSettle DEF Lifecycle!Next
  <2>2. CASE turn = "ACTIVE" /\ ~Terminal(job) /\ WriteAnswer(w)
    BY <1>5, <1>a, <2>2, AnswerIsWritten DEF CommitSuccess, BusyHasAttempt
  <2>3. CASE UNCHANGED db
    BY <2>3, RowsUnchanged DEF db
  <2> QED
    BY <1>5, <2>1, <2>2, <2>3 DEF CommitSuccess
<1>6. ASSUME NEW w \in Workers, CommitFails(w)
      PROVE  Lifecycle!Next \/ UNCHANGED lifecycle
  <2>1. CASE turn = "ACTIVE" /\ ~Terminal(job) /\ WriteAnswer(w)
    BY <1>6, <1>a, <2>1, AnswerIsWritten DEF CommitFails, BusyHasAttempt
  <2>2. CASE UNCHANGED db
    BY <2>2, RowsUnchanged DEF db
  <2> QED
    BY <1>6, <2>1, <2>2 DEF CommitFails
<1>7. ASSUME NEW w \in Workers, HandleRetryable(w)
      PROVE  UNCHANGED lifecycle
  BY <1>7 DEF HandleRetryable, lifecycle, verdict
<1>8. ASSUME NEW w \in Workers, HandleFinal(w)
      PROVE  Lifecycle!Next \/ UNCHANGED lifecycle
  <2>1. CASE Terminal(turn) /\ Reconcilable /\ ReconcileJob /\ UNCHANGED <<turn, events>>
    BY <1>8, <2>1, ReconcileIsSettle DEF HandleFinal, Lifecycle!Next
  <2>2. CASE /\ ~Terminal(turn) /\ ~Terminal(job) /\ pc[w] = "failing"
             /\ turn' = "FAILED" /\ job' = "FAILED" /\ events' = events \cup {"failed"}
    <3>1. turn \in {"QUEUED", "ACTIVE"}
      BY <1>a, <2>2 DEF TypeOK, AbsentIsUntouched
    <3>2. Lifecycle!Fail
      BY <1>8, <2>2, <3>1 DEF HandleFinal, Lifecycle!Fail, verdict
    <3> QED
      BY <3>2 DEF Lifecycle!Next
  <2>3. CASE UNCHANGED <<turn, job, events>>
    BY <1>8, <2>3, RowsUnchanged DEF HandleFinal
  <2> QED
    BY <1>8, <2>1, <2>2, <2>3 DEF HandleFinal
<1>9. ASSUME NEW h \in Handlers,
             StartHandler(h) \/ ReadFirstRow(h) \/ ReadSecondRow(h) \/ VerifyClaimed(h)
               \/ EnsureBullJob(h) \/ LinkBullJob(h) \/ HandlerFails(h)
      PROVE  UNCHANGED lifecycle
  BY <1>9, RowsUnchanged
     DEF StartHandler, ReadFirstRow, ReadSecondRow, VerifyClaimed, EnsureBullJob, LinkBullJob,
         HandlerFails, db
<1>10. ASSUME NEW w \in Workers,
              Fetch(w) \/ Dispatch(w) \/ AlreadyDispatched(w) \/ NotAdmitted(w) \/ Generate(w)
                \/ Publish(w) \/ Return(w) \/ Throw(w) \/ CallFails(w) \/ Crash(w)
       PROVE  UNCHANGED lifecycle
  BY <1>10, RowsUnchanged
     DEF Fetch, Dispatch, AlreadyDispatched, NotAdmitted, Generate, Publish, Return, Throw,
         CallFails, Crash, db
<1>11. CASE Acknowledge \/ DeadLetter \/ Revive \/ Stall \/ Forget \/ UNCHANGED vars
  BY <1>11, RowsUnchanged DEF Acknowledge, DeadLetter, Revive, Stall, Forget, vars, db
<1> QED
  BY <1>1, <1>2, <1>3, <1>4, <1>5, <1>6, <1>7, <1>8, <1>9, <1>10, <1>11 DEF Next, Handle, Process

\* The rows of a turn implement ChatTurnLifecycle whatever the workers, the
\* outbox, BullMQ and the faults do, for every value of the constants.
THEOREM ImplementsLifecycleAlways == Spec => ImplementsLifecycle
<1>1. Init => Lifecycle!Init
  BY DEF Init, Lifecycle!Init, verdict, Terminal, Verdicts
<1>2. IInv /\ [Next]_vars => [Lifecycle!Next]_<<turn, answer, verdict, events>>
  BY StepLifecycle DEF lifecycle
<1> QED
  BY <1>1, <1>2, Inductive, PTL DEF Spec, ImplementsLifecycle, Lifecycle!Spec

-----------------------------------------------------------------------------
(* What one system reports as done is done in the next *)

Open == ~Terminal(turn)

\* What a step of a worker or of a handler has established of the turn.
StepsKnowTurn ==
  /\ bull = "COMPLETED" => Terminal(turn)
  /\ \A w \in Workers :
       /\ pc[w] = "return" => Terminal(turn)
       /\ pc[w] \in {"generating", "running", "committing", "failing"} =>
            linked /\ turn \notin {"ABSENT", "QUEUED"}
  /\ \A h \in Handlers :
       /\ hpc[h] = "turnRead" /\ Terminal(seen[h]) => turn = seen[h]
       /\ hpc[h] = "reconciling" => Terminal(turn)

\* The request is put with the turn, and acknowledged when a handler resolved.
RequestIsSound ==
  /\ request = "absent" => turn = "ABSENT"
  /\ request = "done" => delivered

\* Nothing fails by itself: while no fault has happened and the turn is open, the
\* only busy worker holds Bull's lock, it runs Bull's next attempt, the attempts
\* dispatched are the ones before and perhaps its own, and it throws only when
\* another attempt is left.
UnfaultedRunsOnce ==
  faults = 0 /\ Open =>
    /\ owner # Ghost /\ bull # "FAILED"
    /\ \A w \in Workers :
         /\ pc[w] # "idle" => owner = w /\ att[w] = attemptsMade + 1
         /\ pc[w] = "throw" => att[w] < MaxAttempts
         /\ pc[w] \in {"idle", "claiming", "generating"} /\ owner \in {w, Nobody} =>
              attemptsMade + 1 \notin dispatched
    /\ \A a \in dispatched : a <= attemptsMade + 1
    /\ bull = "ABSENT" => dispatched = {}

\* Is Bull about to count a failed delivery?
Damaged == owner = Ghost \/ \E w \in Workers : owner = w /\ pc[w] = "throw"

\* Until the turn is claimed, every delivery Bull has counted cost a fault.
DeliveriesCostFaults ==
  turn \in {"ABSENT", "QUEUED"} =>
    attemptsMade + stalls + (IF Damaged THEN 1 ELSE 0) <= faults

\* Up to one fault, Bull has the job of a turn that a handler reported as queued
\* and no worker has claimed.
QueuedIsInBull ==
  faults <= 1 /\ turn \in {"ABSENT", "QUEUED"} =>
    /\ bull # "FAILED"
    /\ delivered => bull # "ABSENT"
    /\ \A h \in Handlers : hpc[h] = "linking" => bull # "ABSENT"

DInv ==
  /\ StepsKnowTurn
  /\ RequestIsSound
  /\ UnfaultedRunsOnce
  /\ DeliveriesCostFaults
  /\ QueuedIsInBull

\* The initial state satisfies these facts too.
LEMMA InitDInv == Init => DInv
<1> SUFFICES ASSUME Init PROVE DInv
  OBVIOUS
<1> USE DeliveryAssumption DEF Init, Terminal, Verdicts
<1>1. StepsKnowTurn
  BY DEF StepsKnowTurn
<1>2. RequestIsSound
  BY DEF RequestIsSound
<1>3. UnfaultedRunsOnce
  BY DEF UnfaultedRunsOnce
<1>4. DeliveriesCostFaults
  BY DEF DeliveriesCostFaults, Damaged
<1>5. QueuedIsInBull
  BY DEF QueuedIsInBull
<1> QED
  BY <1>1, <1>2, <1>3, <1>4, <1>5 DEF DInv

\* A turn keeps its verdict and never goes back to its queue, links and resolved
\* deliveries stay, and faults are only counted up.
LEMMA OnlyForward ==
  ASSUME IInv, [Next]_vars
  PROVE  /\ Terminal(turn) => turn' = turn
         /\ turn \notin {"ABSENT", "QUEUED"} => turn' \notin {"ABSENT", "QUEUED"}
         /\ turn # "ABSENT" => turn' # "ABSENT"
         /\ linked => linked'
         /\ delivered => delivered'
         /\ faults' >= faults
<1> USE DEF Terminal, Verdicts, db, outbox, queue, worker
<1>a. TypeOK /\ AbsentIsUntouched /\ faults \in Nat
  BY DEF IInv, TypeOK
<1>1. CASE Enqueue \/ Cancel \/ Acknowledge \/ DeadLetter \/ Revive \/ Stall \/ Forget
  BY <1>1, <1>a DEF Enqueue, Cancel, Acknowledge, DeadLetter, Revive, Stall, Forget, Fault
<1>2. ASSUME NEW h \in Handlers, StartHandler(h) \/ Handle(h) \/ HandlerFails(h)
      PROVE  /\ UNCHANGED turn
             /\ linked => linked'
             /\ delivered => delivered'
             /\ faults' >= faults
  BY <1>2, <1>a
     DEF StartHandler, Handle, HandlerFails, ReadFirstRow, ReadSecondRow, VerifyClaimed, EnsureBullJob,
         LinkBullJob, ReconcileTerminalJob, Decide, Resolve, Reject, Fault
<1>3. ASSUME NEW w \in Workers,
             Fetch(w) \/ Dispatch(w) \/ AlreadyDispatched(w) \/ NotAdmitted(w) \/ Generate(w)
               \/ HandleRetryable(w) \/ Publish(w) \/ Return(w) \/ Throw(w) \/ CallFails(w) \/ Crash(w)
      PROVE  UNCHANGED <<turn, linked, delivered>> /\ faults' >= faults
  BY <1>3, <1>a
     DEF Fetch, Dispatch, AlreadyDispatched, NotAdmitted, Generate, HandleRetryable, Publish, Return, Throw,
         CallFails, Crash, Fault
<1>4. ASSUME NEW w \in Workers, Claim(w) \/ CommitSuccess(w) \/ CommitFails(w) \/ HandleFinal(w)
      PROVE  /\ Terminal(turn) => turn' = turn
             /\ turn \notin {"ABSENT", "QUEUED"} => turn' \notin {"ABSENT", "QUEUED"}
             /\ turn # "ABSENT" => turn' # "ABSENT"
             /\ linked => linked'
             /\ delivered => delivered'
             /\ faults' >= faults
  <2>1. Claim(w) => UNCHANGED <<delivered, faults>> /\ (linked => linked')
    BY DEF Claim
  <2>2. CASE Claim(w)
    BY <1>a, <2>1, <2>2 DEF Claim
  <2>3. CASE CommitSuccess(w)
    BY <2>3, <1>a DEF CommitSuccess, WriteAnswer
  <2>4. CASE CommitFails(w)
    BY <2>4, <1>a DEF CommitFails, WriteAnswer, Fault
  <2>5. CASE HandleFinal(w)
    BY <2>5, <1>a DEF HandleFinal
  <2> QED
    BY <1>4, <2>2, <2>3, <2>4, <2>5
<1>5. CASE UNCHANGED vars
  BY <1>5, <1>a DEF vars
<1> QED
  BY <1>1, <1>2, <1>3, <1>4, <1>5 DEF Next, Process

\* What a step has established of the turn stays true until the step is taken.
LEMMA StepKnows ==
  ASSUME IInv, DInv, [Next]_vars
  PROVE  StepsKnowTurn'
<1> USE DEF Terminal, Verdicts, db, outbox, queue, worker
<1>a. TypeOK /\ AbsentIsUntouched /\ AnnouncesVerdict /\ StepsKnowTurn
  BY DEF IInv, DInv
<1>b. /\ Terminal(turn) => turn' = turn
      /\ turn \notin {"ABSENT", "QUEUED"} => turn' \notin {"ABSENT", "QUEUED"}
      /\ linked => linked'
  BY OnlyForward
<1>1. bull' = "COMPLETED" => Terminal(turn)'
  <2>1. ASSUME NEW w \in Workers, Return(w)
        PROVE  Terminal(turn)
    BY <1>a, <2>1 DEF Return, StepsKnowTurn
  <2>2. ASSUME bull' = "COMPLETED", bull # "COMPLETED"
        PROVE  \E w \in Workers : Return(w)
    BY <2>2
       DEF Next, Enqueue, Cancel, StartHandler, Handle, HandlerFails, ReadFirstRow, ReadSecondRow,
           VerifyClaimed, EnsureBullJob, LinkBullJob, ReconcileTerminalJob, Acknowledge, DeadLetter, Revive,
           Fetch, Process, Claim, Dispatch, AlreadyDispatched, NotAdmitted, Generate, CommitSuccess,
           HandleRetryable, HandleFinal, Publish, Throw, CommitFails, CallFails, Crash, Stall,
           Forget, vars
  <2> QED
    BY <1>a, <1>b, <2>1, <2>2 DEF StepsKnowTurn
<1>2. ASSUME NEW v \in Workers
      PROVE  /\ pc'[v] = "return" => Terminal(turn)'
             /\ pc'[v] \in {"generating", "running", "committing", "failing"} =>
                  linked' /\ turn' \notin {"ABSENT", "QUEUED"}
  <2>1. CASE pc'[v] = pc[v]
    BY <1>a, <1>b, <2>1 DEF StepsKnowTurn
  <2>2. ASSUME NEW w \in Workers, Goto(w, "idle") \/ Goto(w, "throw") \/ Goto(w, "claiming") \/ Goto(w, "completed")
                  \/ Goto(w, "failed") \/ Goto(w, "republish")
        PROVE  \/ pc'[v] = pc[v]
               \/ pc'[v] \notin {"return", "generating", "running", "committing", "failing"}
    BY <1>a, <2>2 DEF TypeOK, Goto
  <2>3. CASE UNCHANGED pc
    BY <2>1, <2>3
  <2>4. CASE \/ Enqueue \/ Cancel \/ Acknowledge \/ DeadLetter \/ Revive \/ Stall \/ Forget
             \/ UNCHANGED vars
    BY <2>3, <2>4 DEF Enqueue, Cancel, Acknowledge, DeadLetter, Revive, Stall, Forget, vars
  <2>5. ASSUME NEW h \in Handlers, StartHandler(h) \/ Handle(h) \/ HandlerFails(h)
        PROVE  UNCHANGED pc
    BY <2>5
       DEF StartHandler, Handle, HandlerFails, ReadFirstRow, ReadSecondRow, VerifyClaimed, EnsureBullJob,
           LinkBullJob, ReconcileTerminalJob
  <2>6. ASSUME NEW w \in Workers,
               \/ Fetch(w) \/ AlreadyDispatched(w) \/ HandleRetryable(w) \/ HandleFinal(w)
               \/ Return(w) \/ Throw(w) \/ CallFails(w) \/ Crash(w)
        PROVE  \/ pc'[v] = pc[v]
               \/ pc'[v] \notin {"return", "generating", "running", "committing", "failing"}
    <3>1. Goto(w, "idle") \/ Goto(w, "throw") \/ Goto(w, "claiming") \/ Goto(w, "failed") \/ Goto(w, "republish")
      BY <2>6 DEF Fetch, AlreadyDispatched, HandleRetryable, HandleFinal, Return, Throw, CallFails,
                  Crash, Leave
    <3> QED
      BY <2>2, <3>1
  <2>7. ASSUME NEW w \in Workers, Publish(w)
        PROVE  \/ pc'[v] = pc[v]
               \/ pc'[v] = "return" /\ Terminal(turn)
    BY <1>a, <2>7 DEF TypeOK, AnnouncesVerdict, Publish, Goto
  <2>8. ASSUME NEW w \in Workers, Claim(w)
        PROVE  \/ pc'[v] = pc[v]
               \/ pc'[v] \notin {"return", "generating", "running", "committing", "failing"}
               \/ pc'[v] = "generating" /\ linked' /\ turn' = "ACTIVE"
    BY <1>a, <2>8 DEF TypeOK, Claim, Goto
  <2>9. ASSUME NEW w \in Workers, Dispatch(w) \/ NotAdmitted(w) \/ Generate(w) \/ CommitFails(w)
        PROVE  \/ pc'[v] = pc[v]
               \/ pc'[v] # "return" /\ linked /\ turn \notin {"ABSENT", "QUEUED"}
    <3>1. pc[w] \in {"generating", "running", "committing"}
      BY <2>9 DEF Dispatch, NotAdmitted, Generate, CommitFails
    <3>2. linked /\ turn \notin {"ABSENT", "QUEUED"}
      BY <1>a, <3>1 DEF StepsKnowTurn
    <3> QED
      BY <1>a, <2>9, <3>2 DEF TypeOK, Dispatch, NotAdmitted, Generate, CommitFails, Caught, Goto
  <2>10. ASSUME NEW w \in Workers, CommitSuccess(w)
         PROVE  \/ pc'[v] = pc[v]
                \/ pc'[v] # "return" /\ linked /\ turn \notin {"ABSENT", "QUEUED"}
    <3>1. linked /\ turn \notin {"ABSENT", "QUEUED"}
      BY <1>a, <2>10 DEF StepsKnowTurn, CommitSuccess
    <3> QED
      BY <1>a, <2>10, <3>1 DEF TypeOK, CommitSuccess, Caught, Goto
  <2> QED
    BY <1>b, <2>1, <2>3, <2>4, <2>5, <2>6, <2>7, <2>8, <2>9, <2>10 DEF Next, Process
<1>3. ASSUME NEW g \in Handlers
      PROVE  /\ hpc'[g] = "turnRead" /\ Terminal(seen'[g]) => turn' = seen'[g]
             /\ hpc'[g] = "reconciling" => Terminal(turn)'
  <2>1. CASE hpc'[g] = hpc[g] /\ seen'[g] = seen[g]
    BY <1>a, <1>b, <2>1 DEF StepsKnowTurn
  <2>2. CASE \/ Enqueue \/ Cancel \/ Acknowledge \/ DeadLetter \/ Revive \/ Stall \/ Forget
             \/ UNCHANGED vars
    BY <2>1, <2>2 DEF Enqueue, Cancel, Acknowledge, DeadLetter, Revive, Stall, Forget, vars
  <2>3. ASSUME NEW w \in Workers, Fetch(w) \/ Process(w) \/ CommitFails(w) \/ CallFails(w) \/ Crash(w)
        PROVE  UNCHANGED <<hpc, seen>>
    BY <2>3
       DEF Fetch, Process, Claim, Dispatch, AlreadyDispatched, NotAdmitted, Generate, CommitSuccess,
           HandleRetryable, HandleFinal, Publish, Return, Throw, CommitFails, CallFails, Crash
  <2>4. ASSUME NEW h \in Handlers, StartHandler(h) \/ VerifyClaimed(h) \/ EnsureBullJob(h)
                                     \/ LinkBullJob(h) \/ ReconcileTerminalJob(h) \/ HandlerFails(h)
        PROVE  \/ hpc'[g] = hpc[g] /\ seen'[g] = seen[g]
               \/ hpc'[g] \in {"idle", "read", "linking"}
    BY <1>a, <2>4
       DEF TypeOK, StartHandler, VerifyClaimed, EnsureBullJob, LinkBullJob, ReconcileTerminalJob,
           HandlerFails, HandlerGoto, Resolve, Reject, Forgotten
  <2>5. ASSUME NEW h \in Handlers, ReadFirstRow(h)
        PROVE  \/ hpc'[g] = hpc[g] /\ seen'[g] = seen[g]
               \/ hpc'[g] = "jobRead"
               \/ hpc'[g] = "turnRead" /\ seen'[g] = turn /\ turn' = turn
    BY <1>a, <2>5 DEF TypeOK, ReadFirstRow, HandlerGoto
  <2>6. ASSUME NEW h \in Handlers, ReadSecondRow(h)
        PROVE  \/ hpc'[g] = hpc[g] /\ seen'[g] = seen[g]
               \/ hpc'[g] \in {"idle", "verifying", "adding"}
               \/ hpc'[g] = "reconciling" /\ Terminal(turn)
    <3>1. CASE g # h
      BY <1>a, <2>6, <3>1 DEF TypeOK, ReadSecondRow, Decide, HandlerGoto, Resolve, Reject, Forgotten
    <3>2. ASSUME hpc[h] = "turnRead", Terminal(seen[h])
          PROVE  Terminal(turn)
      BY <1>a, <3>2 DEF StepsKnowTurn
    <3>3. CASE g = h
      BY <1>a, <2>6, <3>2, <3>3 DEF TypeOK, ReadSecondRow, Decide, HandlerGoto, Resolve, Reject
    <3> QED
      BY <3>1, <3>3
  <2> QED
    BY <1>b, <2>1, <2>2, <2>3, <2>4, <2>5, <2>6 DEF Next, Handle
<1> QED
  BY <1>1, <1>2, <1>3 DEF StepsKnowTurn

\* A turn and its request appear together, and only what a handler resolved is
\* acknowledged.
LEMMA StepRequest ==
  ASSUME IInv, RequestIsSound, [Next]_vars
  PROVE  RequestIsSound'
<1> USE DEF db, outbox, queue, worker, RequestIsSound
<1>a. RequestIsSound /\ (delivered => delivered')
  BY OnlyForward
<1>1. request' = "absent" => request = "absent" /\ turn' = turn
  <2>1. CASE Enqueue \/ Acknowledge \/ DeadLetter \/ Revive
    BY <2>1 DEF Enqueue, Acknowledge, DeadLetter, Revive
  <2>2. ASSUME request' = "absent", turn = "ABSENT" PROVE turn' = turn
    <3>1. (\A h \in Handlers : hpc[h] = "idle") /\ (\A w \in Workers : pc[w] = "idle")
      BY <2>2 DEF IInv, AbsentIsUntouched
    <3> QED
      BY <2>1, <2>2, <3>1
         DEF Next, Cancel, StartHandler, Handle, HandlerFails, ReadFirstRow, ReadSecondRow,
             VerifyClaimed, EnsureBullJob, LinkBullJob, ReconcileTerminalJob,
             Fetch, Process, Claim, Dispatch, AlreadyDispatched, NotAdmitted, Generate, CommitSuccess,
             HandleRetryable, HandleFinal, Publish, Return, Throw, CommitFails, CallFails, Crash, Stall,
             Forget, vars
  <2>3. ASSUME request' = "absent" PROVE request = "absent"
    BY <2>1, <2>3
       DEF Next, Cancel, StartHandler, Handle, HandlerFails, ReadFirstRow, ReadSecondRow,
           VerifyClaimed, EnsureBullJob, LinkBullJob, ReconcileTerminalJob,
           Fetch, Process, Claim, Dispatch, AlreadyDispatched, NotAdmitted, Generate, CommitSuccess,
           HandleRetryable, HandleFinal, Publish, Return, Throw, CommitFails, CallFails, Crash, Stall,
           Forget, vars
  <2> QED
    BY <1>a, <2>2, <2>3
<1>2. request' = "done" => request = "done" \/ delivered
  BY DEF Next, Enqueue, Acknowledge, DeadLetter, Revive, Cancel, StartHandler, Handle, HandlerFails,
         ReadFirstRow, ReadSecondRow, VerifyClaimed, EnsureBullJob, LinkBullJob, ReconcileTerminalJob,
         Fetch, Process, Claim, Dispatch, AlreadyDispatched, NotAdmitted, Generate, CommitSuccess,
         HandleRetryable, HandleFinal, Publish, Return, Throw, CommitFails, CallFails, Crash, Stall,
         Forget, vars
<1> QED
  BY <1>a, <1>1, <1>2

\* A step without a fault, while the turn stays open, starts from such a state.
LEMMA StepUnfaulted ==
  ASSUME IInv, DInv, [Next]_vars
  PROVE  UnfaultedRunsOnce'
<1> SUFFICES ASSUME faults' = 0, Open' PROVE UnfaultedRunsOnce'
  BY DEF UnfaultedRunsOnce
<1> USE DeliveryAssumption DEF db, outbox, queue, worker
<1>a. /\ TypeOK /\ AbsentIsUntouched /\ QueueIsSound /\ BusyHasAttempt /\ AnnouncesVerdict
      /\ DurableFactsAgree /\ StepsKnowTurn /\ UnfaultedRunsOnce
  BY DEF IInv, DInv
<1>b. faults = 0 /\ Open
  BY <1>a, OnlyForward DEF Open, Terminal, TypeOK
<1>c. /\ owner # Ghost /\ bull # "FAILED" /\ bull # "COMPLETED"
      /\ \A w \in Workers :
           /\ pc[w] # "idle" => owner = w /\ att[w] = attemptsMade + 1
           /\ pc[w] = "throw" => att[w] < MaxAttempts
           /\ pc[w] \in {"idle", "claiming", "generating"} /\ owner \in {w, Nobody} =>
                attemptsMade + 1 \notin dispatched
      /\ \A a \in dispatched : a <= attemptsMade + 1
      /\ bull = "ABSENT" => dispatched = {}
  BY <1>a, <1>b DEF UnfaultedRunsOnce, StepsKnowTurn, Open
<1>d. /\ attemptsMade \in Nat
      /\ pc \in [Workers -> WorkerSteps] /\ att \in [Workers -> 0 .. MaxAttempts] /\ dispatched \subseteq Nat
  BY <1>a DEF TypeOK, Attempts
<1>e. ~ Terminal(job)
  BY <1>a, <1>b DEF DurableFactsAgree, Open
<1>1. CASE \/ Enqueue \/ Cancel \/ Acknowledge \/ Revive \/ UNCHANGED vars
  <2>1. UNCHANGED <<queue, worker, dispatched>>
    BY <1>1 DEF Enqueue, Cancel, Acknowledge, Revive, vars
  <2> QED
    BY <1>c, <2>1 DEF UnfaultedRunsOnce
<1>2. ASSUME NEW h \in Handlers, StartHandler(h) \/ Handle(h)
      PROVE  UnfaultedRunsOnce'
  <2>1. CASE EnsureBullJob(h) /\ bull = "ABSENT"
    <3>1. owner = Nobody /\ dispatched = {}
      BY <1>a, <1>c, <2>1 DEF QueueIsSound
    <3>2. \A w \in Workers : pc[w] = "idle"
      BY <1>c, <3>1
    <3>3. UNCHANGED <<owner, worker, dispatched>> /\ bull' = "WAITING" /\ attemptsMade' = 0
      BY <2>1 DEF EnsureBullJob
    <3> QED
      BY <3>1, <3>2, <3>3 DEF UnfaultedRunsOnce
  <2>2. CASE ~ (EnsureBullJob(h) /\ bull = "ABSENT")
    <3>1. UNCHANGED <<bull, attemptsMade, owner, worker, dispatched>>
      BY <1>2, <2>2
         DEF StartHandler, Handle, ReadFirstRow, ReadSecondRow, VerifyClaimed, EnsureBullJob,
             LinkBullJob, ReconcileTerminalJob
    <3> QED
      BY <1>c, <3>1 DEF UnfaultedRunsOnce
  <2> QED
    BY <2>1, <2>2
<1>3. CASE Stall \/ Forget
  <2> FALSE
    BY <1>3, <1>a, <1>b, <1>c DEF Stall, Forget, Fault, TypeOK
  <2> QED
    OBVIOUS
<1>4. ASSUME Fault PROVE FALSE
  BY <1>4, <1>b DEF Fault
<1>5. ASSUME NEW w \in Workers, Fetch(w)
      PROVE  UnfaultedRunsOnce'
  <2>1. owner = Nobody
    BY <1>5, <1>a DEF Fetch, QueueIsSound
  <2>2. \A v \in Workers : pc[v] = "idle" /\ attemptsMade + 1 \notin dispatched
    BY <1>c, <2>1
  <2> QED
    BY <1>5, <1>c, <1>d, <2>1, <2>2 DEF UnfaultedRunsOnce, Fetch, Goto, AttemptNumber
<1>6. ASSUME NEW w \in Workers, Claim(w)
      PROVE  UnfaultedRunsOnce'
  <2>1. pc' = [pc EXCEPT ![w] = "generating"] /\ UNCHANGED <<queue, att, dispatched>>
    BY <1>6, <1>a, <1>b, <1>e DEF Claim, Open, BusyHasAttempt, Goto
  <2>2. pc[w] = "claiming"
    BY <1>6 DEF Claim
  <2> QED
    BY <1>c, <1>d, <2>1, <2>2 DEF UnfaultedRunsOnce
<1>7. ASSUME NEW w \in Workers, Dispatch(w)
      PROVE  UnfaultedRunsOnce'
  <2>1. owner = w /\ att[w] = attemptsMade + 1 /\ \A v \in Workers : v # w => pc[v] = "idle"
    BY <1>7, <1>c DEF Dispatch
  <2>2. bull = "RUNNING"
    BY <1>a, <2>1 DEF QueueIsSound
  <2>3. /\ pc' = [pc EXCEPT ![w] = "running"] /\ dispatched' = dispatched \cup {attemptsMade + 1}
        /\ UNCHANGED <<queue, att>>
    BY <1>7, <2>1 DEF Dispatch, Goto
  <2> QED
    BY <1>c, <1>d, <2>1, <2>2, <2>3 DEF UnfaultedRunsOnce
<1>8. ASSUME NEW w \in Workers, AlreadyDispatched(w)
      PROVE  FALSE
  BY <1>8, <1>c DEF AlreadyDispatched
<1>9. ASSUME NEW w \in Workers, NotAdmitted(w) \/ Generate(w) \/ CommitSuccess(w)
      PROVE  UnfaultedRunsOnce'
  <2>1. PICK s \in {"failing", "committing", "completed"} : pc' = [pc EXCEPT ![w] = s]
    BY <1>9 DEF NotAdmitted, Generate, CommitSuccess, Caught, Goto
  <2>2. UNCHANGED <<queue, att, dispatched>>
    BY <1>9 DEF NotAdmitted, Generate, CommitSuccess
  <2>3. pc[w] # "idle"
    BY <1>9 DEF NotAdmitted, Generate, CommitSuccess
  <2> QED
    BY <1>c, <1>d, <2>1, <2>2, <2>3 DEF UnfaultedRunsOnce
<1>10. ASSUME NEW w \in Workers, HandleRetryable(w)
       PROVE  UnfaultedRunsOnce'
  <2>1. pc' = [pc EXCEPT ![w] = "throw"] /\ UNCHANGED <<queue, att, dispatched>>
    BY <1>10 DEF HandleRetryable, Goto
  <2>2. pc[w] # "idle" /\ att[w] < MaxAttempts
    BY <1>10 DEF HandleRetryable
  <2> QED
    BY <1>c, <1>d, <2>1, <2>2 DEF UnfaultedRunsOnce
<1>11. ASSUME NEW w \in Workers, HandleFinal(w)
       PROVE  UnfaultedRunsOnce'
  <2>1. linked
    BY <1>a, <1>11 DEF HandleFinal, StepsKnowTurn
  <2>2. turn' = "FAILED"
    BY <1>11, <1>b, <1>e, <2>1 DEF HandleFinal, Open
  <2> QED
    BY <2>2 DEF Open, Terminal, Verdicts
<1>12. ASSUME NEW w \in Workers, Publish(w) \/ Return(w)
       PROVE  FALSE
  <2>1. Terminal(turn)
    BY <1>12, <1>a DEF Publish, Return, AnnouncesVerdict, StepsKnowTurn, Terminal, Verdicts
  <2> QED
    BY <1>b, <2>1 DEF Open
<1>13. ASSUME NEW w \in Workers, Throw(w)
       PROVE  UnfaultedRunsOnce'
  <2>1. owner = w /\ att[w] = attemptsMade + 1 /\ att[w] < MaxAttempts
    BY <1>13, <1>c DEF Throw
  <2>2. \A v \in Workers : v # w => pc[v] = "idle"
    BY <1>c, <2>1
  <2>3. /\ bull' = "WAITING" /\ attemptsMade' = attemptsMade + 1 /\ owner' = Nobody
        /\ pc' = [pc EXCEPT ![w] = "idle"] /\ att' = [att EXCEPT ![w] = 0] /\ UNCHANGED dispatched
    BY <1>13, <2>1 DEF Throw, Leave, Goto
  <2>4. \A v \in Workers : pc'[v] = "idle"
    BY <1>d, <2>2, <2>3
  <2>5. \A a \in dispatched : a <= attemptsMade + 1 /\ a # attemptsMade + 2
    BY <1>c, <1>d
  <2> QED
    BY <1>c, <1>d, <2>3, <2>4, <2>5 DEF UnfaultedRunsOnce
<1> QED
  BY <1>1, <1>2, <1>3, <1>4, <1>5, <1>6, <1>7, <1>8, <1>9, <1>10, <1>11, <1>12, <1>13
     DEF Next, Process, HandlerFails, DeadLetter, CommitFails, CallFails, Crash

\* While nobody has claimed the turn, no delivery has got past its claim.
LEMMA BeforeClaim ==
  ASSUME IInv, DInv, turn \in {"ABSENT", "QUEUED"}, NEW w \in Workers
  PROVE  pc[w] \in {"idle", "claiming", "throw"}
<1>1. pc[w] \in WorkerSteps
  BY DEF IInv, TypeOK
<1> QED
  BY <1>1 DEF IInv, DInv, AnnouncesVerdict, StepsKnowTurn, WorkerSteps, Terminal, Verdicts

\* A failed delivery is counted once, and each costs a fault.
LEMMA StepCosts ==
  ASSUME IInv, DInv, [Next]_vars
  PROVE  DeliveriesCostFaults'
<1> SUFFICES ASSUME turn' \in {"ABSENT", "QUEUED"} PROVE DeliveriesCostFaults'
  BY DEF DeliveriesCostFaults
<1> USE DeliveryAssumption DEF db, outbox, queue, worker
<1>a. /\ TypeOK /\ QueueIsSound /\ BusyHasAttempt /\ DurableFactsAgree
  BY DEF IInv
<1>b. turn \in {"ABSENT", "QUEUED"}
  BY OnlyForward
<1>c. attemptsMade + stalls + (IF Damaged THEN 1 ELSE 0) <= faults
  BY <1>b DEF DInv, DeliveriesCostFaults
<1>d. /\ attemptsMade \in Nat /\ stalls \in Nat /\ faults \in Nat
      /\ pc \in [Workers -> WorkerSteps]
      /\ \A w \in Workers : pc[w] \in {"idle", "claiming", "throw"}
  BY <1>a, <1>b, BeforeClaim DEF TypeOK
<1>e. ~ Terminal(turn) /\ ~ Terminal(job)
  BY <1>a, <1>b DEF DurableFactsAgree, Terminal, Verdicts
<1>1. CASE UNCHANGED <<attemptsMade, stalls, owner, pc>> /\ faults' >= faults /\ faults' \in Nat
  BY <1>1, <1>c, <1>d DEF DeliveriesCostFaults, Damaged
<1>2. CASE \/ Enqueue \/ Cancel \/ Acknowledge \/ Revive \/ Forget \/ DeadLetter \/ UNCHANGED vars
  <2>1. UNCHANGED <<attemptsMade, stalls, owner, pc>> /\ faults' \in Nat
    BY <1>2, <1>d DEF Enqueue, Cancel, Acknowledge, Revive, Forget, DeadLetter, Fault, vars
  <2> QED
    BY <1>1, <2>1, OnlyForward
<1>3. ASSUME NEW h \in Handlers, StartHandler(h) \/ Handle(h) \/ HandlerFails(h)
      PROVE  DeliveriesCostFaults'
  <2>1. CASE EnsureBullJob(h) /\ bull = "ABSENT"
    <3>1. attemptsMade' = 0 /\ stalls' = 0 /\ UNCHANGED <<owner, pc, faults>>
      BY <2>1 DEF EnsureBullJob
    <3> QED
      BY <3>1, <1>c, <1>d DEF DeliveriesCostFaults, Damaged
  <2>2. CASE ~ (EnsureBullJob(h) /\ bull = "ABSENT")
    <3>1. UNCHANGED <<attemptsMade, stalls, owner, pc>> /\ faults' \in Nat
      BY <1>3, <1>d, <2>2
         DEF StartHandler, Handle, HandlerFails, ReadFirstRow, ReadSecondRow, VerifyClaimed, EnsureBullJob,
             LinkBullJob, ReconcileTerminalJob, Fault
    <3> QED
      BY <1>1, <3>1, OnlyForward
  <2> QED
    BY <2>1, <2>2
<1>4. ASSUME NEW w \in Workers, Fetch(w)
      PROVE  DeliveriesCostFaults'
  <2>1. ~ Damaged'
    BY <1>4, <1>d DEF Fetch, Goto, Damaged
  <2> QED
    BY <1>4, <1>c, <1>d, <2>1 DEF DeliveriesCostFaults, Fetch
<1>5. ASSUME NEW w \in Workers, Claim(w)
      PROVE  FALSE
  BY <1>5, <1>a, <1>e DEF Claim, BusyHasAttempt
<1>6. ASSUME NEW w \in Workers, Throw(w)
      PROVE  DeliveriesCostFaults'
  <2>1. CASE owner = w
    <3>1. Damaged
      BY <1>6, <2>1 DEF Throw, Damaged
    <3>2. ~ Damaged'
      BY <1>6, <2>1 DEF Throw, Damaged
    <3> QED
      BY <1>6, <1>c, <1>d, <2>1, <3>1, <3>2 DEF DeliveriesCostFaults, Throw
  <2>2. CASE owner # w
    <3>1. Damaged' => Damaged
      BY <1>6, <1>d, <2>2 DEF Throw, Leave, Goto, Damaged
    <3> QED
      BY <1>6, <1>c, <1>d, <2>2, <3>1 DEF DeliveriesCostFaults, Throw
  <2> QED
    BY <2>1, <2>2
<1>7. ASSUME NEW w \in Workers, CallFails(w) \/ Crash(w)
      PROVE  DeliveriesCostFaults'
  <2>1. UNCHANGED <<attemptsMade, stalls>> /\ faults' = faults + 1
    BY <1>7 DEF CallFails, Crash, Fault
  <2> QED
    BY <1>c, <1>d, <2>1 DEF DeliveriesCostFaults
<1>8. CASE Stall
  <2>1. owner' = Nobody /\ UNCHANGED attemptsMade /\ (stalls' = stalls \/ stalls' = stalls + 1)
    BY <1>8 DEF Stall
  <2>2. ~ Damaged'
    BY <1>8, <2>1 DEF Stall, Damaged
  <2>3. attemptsMade + stalls + 1 <= faults'
    <3>1. CASE owner = Ghost /\ UNCHANGED faults
      BY <1>c, <1>d, <3>1 DEF Damaged
    <3>2. CASE faults' = faults + 1
      BY <1>c, <1>d, <3>2
    <3> QED
      BY <1>8, <3>1, <3>2 DEF Stall, Fault
  <2>4. attemptsMade' + stalls' + 0 <= faults'
    <3>1. faults' \in Nat
      BY <1>8, <1>d DEF Stall, Fault
    <3> QED
      BY <1>d, <2>1, <2>3, <3>1
  <2> QED
    BY <2>2, <2>4 DEF DeliveriesCostFaults
<1>9. ASSUME NEW w \in Workers,
             Dispatch(w) \/ AlreadyDispatched(w) \/ NotAdmitted(w) \/ Generate(w) \/ CommitSuccess(w)
               \/ HandleRetryable(w) \/ HandleFinal(w) \/ Publish(w) \/ Return(w) \/ CommitFails(w)
      PROVE  FALSE
  BY <1>9, <1>d
     DEF Dispatch, AlreadyDispatched, NotAdmitted, Generate, CommitSuccess, HandleRetryable, HandleFinal,
         Publish, Return, CommitFails
<1> QED
  BY <1>2, <1>3, <1>4, <1>5, <1>6, <1>7, <1>8, <1>9 DEF Next, Process

\* Bull keeps a job that was reported as queued until a worker claims the turn,
\* whatever single fault happens: giving it up takes two counted deliveries.
LEMMA StepQueued ==
  ASSUME IInv, DInv, [Next]_vars, MaxAttempts > 1, MaxStalled > 0
  PROVE  QueuedIsInBull'
<1> SUFFICES ASSUME faults' <= 1, turn' \in {"ABSENT", "QUEUED"} PROVE QueuedIsInBull'
  BY DEF QueuedIsInBull
<1> USE DeliveryAssumption DEF db, outbox, queue, worker
<1>a. TypeOK /\ AbsentIsUntouched /\ DurableFactsAgree /\ StepsKnowTurn
  BY DEF IInv, DInv
<1>b. /\ turn \in {"ABSENT", "QUEUED"} /\ ~ Terminal(turn)
      /\ faults \in Nat /\ faults' \in Nat /\ faults <= 1
  <2>1. turn \in {"ABSENT", "QUEUED"} /\ faults' >= faults
    BY OnlyForward
  <2>2. faults \in Nat
    BY <1>a DEF TypeOK
  <2>3. faults' \in Nat
    BY <1>a, StepIInv DEF IInv, TypeOK
  <2> QED
    BY <2>1, <2>2, <2>3 DEF Terminal, Verdicts
<1>c. /\ bull # "FAILED" /\ bull # "COMPLETED"
      /\ delivered => bull # "ABSENT"
      /\ \A h \in Handlers : hpc[h] = "linking" => bull # "ABSENT"
  BY <1>a, <1>b DEF DInv, QueuedIsInBull, StepsKnowTurn
<1>d. /\ attemptsMade \in Nat /\ stalls \in Nat
      /\ attemptsMade + stalls + (IF Damaged THEN 1 ELSE 0) <= faults
      /\ \A w \in Workers : pc[w] \in {"idle", "claiming", "throw"}
  BY <1>a, <1>b, BeforeClaim DEF TypeOK, DInv, DeliveriesCostFaults
<1>1. CASE UNCHANGED <<delivered, hpc>> /\ bull' \notin {"FAILED", "ABSENT"}
  BY <1>1 DEF QueuedIsInBull
<1>2. CASE UNCHANGED <<bull, delivered, hpc>>
  BY <1>c, <1>2 DEF QueuedIsInBull
<1>3. CASE \/ Enqueue \/ Cancel \/ Acknowledge \/ Revive \/ DeadLetter \/ UNCHANGED vars
  BY <1>2, <1>3 DEF Enqueue, Cancel, Acknowledge, Revive, DeadLetter, vars
<1>4. CASE Forget
  BY <1>c, <1>4 DEF Forget
<1>5. CASE Stall
  <2>1. stalls < MaxStalled
    <3>1. CASE owner = Ghost /\ UNCHANGED faults
      BY <1>b, <1>d, <3>1 DEF Damaged
    <3>2. CASE faults' = faults + 1
      BY <1>b, <1>d, <3>2
    <3> QED
      BY <1>5, <3>1, <3>2 DEF Stall, Fault
  <2> QED
    BY <1>1, <1>5, <2>1 DEF Stall
<1>6. ASSUME NEW w \in Workers, Throw(w)
      PROVE  QueuedIsInBull'
  <2>1. CASE owner = w
    <3>1. Damaged
      BY <1>6, <2>1 DEF Throw, Damaged
    <3>2. attemptsMade + 1 < MaxAttempts
      BY <1>b, <1>d, <3>1
    <3> QED
      BY <1>1, <1>6, <2>1, <3>2 DEF Throw
  <2>2. CASE owner # w
    BY <1>2, <1>6, <2>2 DEF Throw
  <2> QED
    BY <2>1, <2>2
<1>7. ASSUME NEW w \in Workers, Fetch(w) \/ CallFails(w) \/ Crash(w)
      PROVE  QueuedIsInBull'
  BY <1>1, <1>2, <1>7 DEF Fetch, CallFails, Crash
<1>8. ASSUME NEW w \in Workers,
             Claim(w) \/ Dispatch(w) \/ AlreadyDispatched(w) \/ NotAdmitted(w) \/ Generate(w)
               \/ CommitSuccess(w) \/ HandleRetryable(w) \/ HandleFinal(w) \/ Publish(w) \/ Return(w)
               \/ CommitFails(w)
      PROVE  QueuedIsInBull'
  BY <1>2, <1>8, <1>d
     DEF Claim, Dispatch, AlreadyDispatched, NotAdmitted, Generate, CommitSuccess, HandleRetryable,
         HandleFinal, Publish, Return, CommitFails
<1>9. ASSUME NEW h \in Handlers, StartHandler(h) \/ Handle(h) \/ HandlerFails(h)
      PROVE  QueuedIsInBull'
  <2> DEFINE Reported == delivered \/ \E g \in Handlers : hpc[g] = "linking"
  <2>1. Reported => bull # "ABSENT"
    BY <1>c
  <2>2. CASE EnsureBullJob(h)
    BY <1>c, <2>2 DEF EnsureBullJob, QueuedIsInBull
  <2>3. ASSUME UNCHANGED bull, Reported' => Reported \/ bull # "ABSENT"
        PROVE  QueuedIsInBull'
    BY <1>c, <2>1, <2>3 DEF QueuedIsInBull
  <2>4. ASSUME NEW s \in {"idle", "read", "turnRead", "jobRead", "adding", "verifying", "reconciling"},
               HandlerGoto(h, s), UNCHANGED delivered
        PROVE  Reported' => Reported
    BY <1>a, <2>4 DEF TypeOK, HandlerGoto
  <2>5. CASE StartHandler(h) \/ ReadFirstRow(h) \/ HandlerFails(h)
    <3>1. \E s \in {"idle", "read", "turnRead", "jobRead"} : HandlerGoto(h, s)
      BY <2>5 DEF StartHandler, ReadFirstRow, HandlerFails, Reject
    <3>2. UNCHANGED <<bull, delivered>>
      BY <2>5 DEF StartHandler, ReadFirstRow, HandlerFails, Reject
    <3>3. Reported' => Reported
      BY <2>4, <3>1, <3>2
    <3> QED
      BY <2>3, <3>2, <3>3
  <2>6. CASE ReadSecondRow(h)
    <3>1. \E s \in {"idle", "adding", "verifying", "reconciling"} : HandlerGoto(h, s) /\ UNCHANGED delivered
      <4>1. hpc[h] = "turnRead" => ~ Terminal(seen[h])
        BY <1>a, <1>b DEF StepsKnowTurn
      <4> QED
        BY <1>b, <2>6, <4>1 DEF ReadSecondRow, Decide, Reject
    <3>2. Reported' => Reported
      BY <2>4, <3>1
    <3> QED
      BY <2>3, <2>6, <3>2 DEF ReadSecondRow
  <2>7. CASE VerifyClaimed(h)
    <3>1. CASE bull = "ABSENT"
      <4>1. HandlerGoto(h, "idle") /\ UNCHANGED delivered
        BY <2>7, <3>1 DEF VerifyClaimed, Reject
      <4>2. Reported' => Reported
        BY <2>4, <4>1
      <4> QED
        BY <2>3, <2>7, <4>2 DEF VerifyClaimed
    <3>2. CASE bull # "ABSENT"
      BY <2>3, <2>7, <3>2 DEF VerifyClaimed
    <3> QED
      BY <3>1, <3>2
  <2>8. CASE LinkBullJob(h)
    <3>1. bull # "ABSENT" /\ UNCHANGED bull
      BY <1>c, <2>8 DEF LinkBullJob
    <3> QED
      BY <2>3, <3>1
  <2>9. CASE ReconcileTerminalJob(h)
    BY <1>a, <1>b, <2>9 DEF ReconcileTerminalJob, StepsKnowTurn
  <2> QED
    BY <1>9, <2>2, <2>5, <2>6, <2>7, <2>8, <2>9 DEF Handle
<1> QED
  BY <1>3, <1>4, <1>5, <1>6, <1>7, <1>8, <1>9 DEF Next, Process

\* Bull tolerates a stall and another attempt, as the code and BullMQ configure
\* it: then an acknowledged request survives one fault anywhere, and a Bull job
\* that ends has left a verdict.
THEOREM DoneMeansDoneAlways ==
  ASSUME MaxAttempts > 1, MaxStalled > 0
  PROVE  Spec => []DoneMeansDone
<1>1. IInv /\ DInv /\ [Next]_vars => DInv'
  BY StepKnows, StepRequest, StepUnfaulted, StepCosts, StepQueued DEF DInv
<1>2. IInv /\ DInv => DoneMeansDone
  <2> SUFFICES ASSUME IInv, DInv PROVE DoneMeansDone
    OBVIOUS
  <2>1. BullEndsAfterTurn
    BY DEF DInv, StepsKnowTurn, UnfaultedRunsOnce, Open, BullEndsAfterTurn
  <2>2. AcknowledgedIsQueued
    BY DEF DInv, RequestIsSound, QueuedIsInBull, AcknowledgedIsQueued
  <2> QED
    BY <2>1, <2>2 DEF DoneMeansDone
<1> QED
  BY <1>1, <1>2, InitDInv, Inductive, PTL DEF Spec

=============================================================================
