------------------------- MODULE ChatRunBudgetProofs -------------------------
(***************************************************************************)
(* Proofs about ChatRunBudget: that a stage is executed once per           *)
(* reservation and accounted for, that a reservation only moves forward,   *)
(* and that the ledger's four counters are what the reservations say and   *)
(* stay within its limits.  A sum over reservations is a number of units,  *)
(* so the finite-set theorems say how it grows and shrinks.                *)
(***************************************************************************)
EXTENDS ChatRunBudget, FiniteSetTheorems, TLAPS

\* The types of everything but the counters.
Shape ==
  /\ res \in [Ids -> ReservationStatuses]
  /\ usage \in [Ids -> Nat] /\ spent \in [Ids -> Nat]
  /\ pc \in [Runners -> Steps]
  /\ rid \in [Runners -> Ids]
  /\ outcome \in [Runners -> Outcomes]
  /\ executed \subseteq Ids /\ repeated \subseteq executed

\* A runner between its grant and the end of its run.
Executing(w) == pc[w] \in {"executing", "running", "settling", "failing"}

\* What is so of the reservation of a runner at each place of runBudgetedStage.
At(w) ==
  /\ pc[w] = "executing" => rid[w] \notin executed /\ res[rid[w]] = "DISPATCHED"
  /\ pc[w] \in {"running", "settling"} => rid[w] \in executed /\ res[rid[w]] = "DISPATCHED"
  /\ pc[w] = "failing" => /\ rid[w] \in executed
                          /\ outcome[w] \in {"error", "fallback"}
                          /\ res[rid[w]] \in {"DISPATCHED", "SETTLED"}
  /\ pc[w] = "idle" =>
       /\ outcome[w] = "value" => rid[w] \in executed /\ res[rid[w]] = "SETTLED"
       /\ outcome[w] = "fallback" => rid[w] \in executed /\ res[rid[w]] # "RELEASED"
       /\ outcome[w] = "duplicate" => res[rid[w]] \in {"DISPATCHED", "UNCERTAIN", "SETTLED"}

\* One reservation is granted to one runner.
OneExecutor ==
  \A v, w \in Runners : Executing(v) /\ Executing(w) /\ rid[v] = rid[w] => v = w

StageInv ==
  /\ Shape
  /\ \A w \in Runners : At(w)
  /\ OneExecutor
  /\ SpendIsAccounted
  /\ ExecutedOnce

\* A step moves every reservation along the lifecycle or leaves it.
Forward == \A r \in Ids : res'[r] # res[r] => <<res[r], res'[r]>> \in Lifecycle

-----------------------------------------------------------------------------
(* Reservations move forward. *)

LEMMA ReleaseReservedForward ==
  ASSUME Shape, ReleaseReserved
  PROVE  Forward /\ \A r \in Ids : res'[r] # res[r] => res[r] = "RESERVED"
BY DEF ReleaseReserved, Reserved, Forward, Lifecycle, Shape

\* A runner's step changes at most its own reservation, and moves it forward.
LEMMA RunStageForward ==
  ASSUME StageInv, NEW w \in Runners, RunStage(w)
  PROVE  Forward /\ \A r \in Ids : res'[r] # res[r] => r = rid'[w]
<1> USE DEF Forward, Lifecycle, StageInv, Shape
<1>1. ASSUME NEW r \in Ids, ReserveExisting(w, r) \/ ReserveRefused(w, r)
      PROVE  UNCHANGED res
  BY <1>1 DEF ReserveExisting, ReserveRefused
<1>2. ASSUME NEW r \in Ids, ReserveNew(w, r)
      PROVE  Forward /\ \A q \in Ids : res'[q] # res[q] => q = rid'[w]
  BY <1>2 DEF ReserveNew, Begin
<1>3. CASE Dispatch(w)
  BY <1>3 DEF Dispatch, Granted
<1>4. CASE DispatchConflict(w) \/ Execute(w) \/ Resolves(w) \/ Rejects(w) \/ Crash(w)
  BY <1>4 DEF DispatchConflict, Execute, Resolves, Rejects, Crash
<1>5. CASE Release(w)
  BY <1>5 DEF Release
<1>6. CASE Settle(w)
  BY <1>6 DEF Settle, Charge
<1>7. CASE SettleFails(w)
  BY <1>7 DEF SettleFails, Charge
<1>8. CASE MarkUncertain(w)
  BY <1>8 DEF MarkUncertain
<1> QED
  BY <1>1, <1>2, <1>3, <1>4, <1>5, <1>6, <1>7, <1>8 DEF RunStage

LEMMA StepForward ==
  ASSUME StageInv, [Next]_vars
  PROVE  Forward
<1>1. ASSUME NEW r \in Ids, SettleUncertain(r) PROVE Forward
  BY <1>1 DEF SettleUncertain, Charge, Forward, Lifecycle, StageInv, Shape
<1>2. CASE Cancel \/ ReconcileTerminal
  BY <1>2, ReleaseReservedForward DEF Cancel, ReconcileTerminal, StageInv
<1>3. CASE TurnEnds \/ UNCHANGED vars
  BY <1>3 DEF TurnEnds, vars, Forward
<1> QED
  BY <1>1, <1>2, <1>3, RunStageForward DEF Next

-----------------------------------------------------------------------------
(* Types *)

LEMMA RunStageShape ==
  ASSUME StageInv, NEW w \in Runners, RunStage(w)
  PROVE  Shape'
<1> USE DEF StageInv, Shape, Steps, Outcomes, ReservationStatuses
<1>1. ASSUME NEW r \in Ids, ReserveExisting(w, r) PROVE Shape'
  BY <1>1 DEF ReserveExisting, Begin, Goto, history
<1>2. ASSUME NEW r \in Ids, ReserveNew(w, r) PROVE Shape'
  BY <1>2 DEF ReserveNew, Begin, Goto, history
<1>3. ASSUME NEW r \in Ids, ReserveRefused(w, r) PROVE Shape'
  BY <1>3 DEF ReserveRefused, Begin, Finish, history
<1>4. CASE Dispatch(w)
  BY <1>4 DEF Dispatch, Goto, history
<1>5. CASE DispatchConflict(w)
  BY <1>5 DEF DispatchConflict, Goto, Finish, history
<1>6. CASE Execute(w)
  <2>1. Request[rid[w]] + 1 \in Nat
    BY BudgetAssumption
  <2>2. PICK amount \in 0 .. Request[rid[w]] + 1 : spent' = [spent EXCEPT ![rid[w]] = amount]
    BY <1>6 DEF Execute
  <2>3. amount \in Nat
    BY <2>1
  <2>4. spent' \in [Ids -> Nat]
    BY <2>2, <2>3
  <2>5. executed' \subseteq Ids /\ repeated' \subseteq executed'
    BY <1>6 DEF Execute
  <2> QED
    BY <1>6, <2>4, <2>5 DEF Execute, Goto
<1>7. CASE Resolves(w) \/ Rejects(w)
  BY <1>7 DEF Resolves, Rejects, Goto, history
<1>8. CASE Release(w)
  BY <1>8 DEF Release, Finish, history
<1>9. CASE Settle(w)
  BY <1>9 DEF Settle, Charge, Finish, history
<1>10. CASE SettleFails(w)
  BY <1>10 DEF SettleFails, Charge, Goto, history, counters
<1>11. CASE MarkUncertain(w)
  BY <1>11 DEF MarkUncertain, Goto, history
<1>12. CASE Crash(w)
  BY <1>12 DEF Crash, Finish, history
<1> QED
  BY <1>1, <1>2, <1>3, <1>4, <1>5, <1>6, <1>7, <1>8, <1>9, <1>10, <1>11, <1>12 DEF RunStage

-----------------------------------------------------------------------------
(* What a stage does is accounted for. *)

\* A runner that stands still is still where its reservation says, whatever the
\* others did, as long as a reservation granted to it was left alone.
LEMMA Standing ==
  ASSUME StageInv, Shape', Forward, NEW v \in Runners,
         pc'[v] = pc[v], rid'[v] = rid[v], outcome'[v] = outcome[v],
         executed \subseteq executed',
         Executing(v) => /\ res'[rid[v]] = res[rid[v]]
                         /\ pc[v] = "executing" => rid[v] \notin executed'
  PROVE  At(v)'
<1>1. rid[v] \in Ids /\ At(v)
  BY DEF StageInv, Shape
<1>2. CASE Executing(v)
  BY <1>1, <1>2 DEF At, Executing
<1>3. CASE pc[v] = "idle"
  <2>1. outcome[v] = "value" => rid[v] \in executed' /\ res'[rid[v]] = "SETTLED"
    BY <1>1, <1>3 DEF At, Forward, Lifecycle
  <2>2. outcome[v] = "fallback" => rid[v] \in executed' /\ res'[rid[v]] # "RELEASED"
    BY <1>1, <1>3 DEF At, Forward, Lifecycle, StageInv, SpendIsAccounted
  <2>3. outcome[v] = "duplicate" => res'[rid[v]] \in {"DISPATCHED", "UNCERTAIN", "SETTLED"}
    BY <1>1, <1>3 DEF At, Forward, Lifecycle
  <2> QED
    BY <1>3, <2>1, <2>2, <2>3 DEF At
<1>4. CASE ~Executing(v) /\ pc[v] # "idle"
  BY <1>4 DEF At, Executing
<1> QED
  BY <1>2, <1>3, <1>4

\* A runner's step keeps StageInv when it keeps what is so of that runner and of its
\* reservation, and touches no reservation that another runner was granted.
LEMMA OneRunnerMoves ==
  ASSUME StageInv, Shape', Forward, NEW w \in Runners,
         \A v \in Runners \ {w} : pc'[v] = pc[v] /\ rid'[v] = rid[v] /\ outcome'[v] = outcome[v],
         \A r \in Ids : res'[r] # res[r] => r = rid'[w],
         executed \subseteq executed', executed' \subseteq executed \cup {rid'[w]},
         \A v \in Runners \ {w} : Executing(v) /\ rid[v] = rid'[w] =>
            /\ ~Executing(w)'
            /\ res'[rid[v]] = res[rid[v]]
            /\ executed' = executed,
         At(w)', SpendIsAccounted', ExecutedOnce'
  PROVE  StageInv'
<1>1. ASSUME NEW v \in Runners, v # w PROVE At(v)'
  <2>1. rid[v] \in Ids /\ At(v)
    BY DEF StageInv, Shape
  <2>2. Executing(v) => res'[rid[v]] = res[rid[v]]
    BY <1>1, <2>1
  <2>3. pc[v] = "executing" => rid[v] \notin executed'
    BY <1>1, <2>1 DEF At, Executing
  <2> QED
    BY <1>1, <2>2, <2>3, Standing
<1>2. OneExecutor'
  <2> SUFFICES ASSUME NEW u \in Runners, NEW v \in Runners,
                      Executing(u)', Executing(v)', rid'[u] = rid'[v], u # v
               PROVE  FALSE
    BY DEF OneExecutor
  <2>1. CASE u # w /\ v # w
    BY <2>1 DEF Executing, StageInv, OneExecutor
  <2>2. CASE u = w
    BY <2>2 DEF Executing
  <2>3. CASE v = w
    BY <2>3 DEF Executing
  <2> QED
    BY <2>1, <2>2, <2>3
<1> QED
  BY <1>1, <1>2 DEF StageInv

\* What the steps of one runner have in common.
LEMMA RunStageFrame ==
  ASSUME StageInv, NEW w \in Runners, RunStage(w)
  PROVE  \A v \in Runners \ {w} :
           pc'[v] = pc[v] /\ rid'[v] = rid[v] /\ outcome'[v] = outcome[v]
<1> USE DEF StageInv, Shape
<1>1. ASSUME NEW r \in Ids, ReserveExisting(w, r) \/ ReserveNew(w, r) \/ ReserveRefused(w, r),
             NEW v \in Runners \ {w}
      PROVE  pc'[v] = pc[v] /\ rid'[v] = rid[v] /\ outcome'[v] = outcome[v]
  BY <1>1 DEF ReserveExisting, ReserveNew, ReserveRefused, Begin, Goto, Finish
<1>2. CASE Dispatch(w) \/ DispatchConflict(w) \/ Release(w)
  BY <1>2 DEF Dispatch, DispatchConflict, Release, Goto, Finish
<1>3. CASE Execute(w) \/ Resolves(w) \/ Rejects(w)
  BY <1>3 DEF Execute, Resolves, Rejects, Goto
<1>4. CASE Settle(w) \/ SettleFails(w) \/ MarkUncertain(w) \/ Crash(w)
  BY <1>4 DEF Settle, SettleFails, MarkUncertain, Crash, Goto, Finish
<1> QED
  BY <1>1, <1>2, <1>3, <1>4 DEF RunStage

\* A reservation that moves to another status than SETTLED, or is not executed, keeps
\* the account of what was spent when nothing is written to it.
LEMMA AccountKept ==
  ASSUME StageInv, Shape', Forward, UNCHANGED <<executed, repeated, spent, usage>>,
         \A r \in executed : res'[r] = "SETTLED" => res[r] = "SETTLED"
  PROVE  SpendIsAccounted' /\ ExecutedOnce'
<1>1. ExecutedOnce'
  BY DEF StageInv, ExecutedOnce
<1>2. ASSUME NEW r \in executed'
      PROVE  \/ res'[r] \in {"DISPATCHED", "UNCERTAIN"}
             \/ res'[r] = "SETTLED" /\ usage'[r] = spent'[r]
  <2>1. r \in executed /\ r \in Ids
    BY <1>2 DEF StageInv, Shape
  <2> QED
    BY <2>1 DEF StageInv, SpendIsAccounted, Forward, Lifecycle
<1> QED
  BY <1>1, <1>2 DEF SpendIsAccounted

\* A settlement charges what was spent.
LEMMA AccountCharged ==
  ASSUME StageInv, Shape', Forward, NEW r \in Ids, Charge(r, spent[r]), UNCHANGED history
  PROVE  SpendIsAccounted' /\ ExecutedOnce'
<1>1. ExecutedOnce'
  BY DEF StageInv, ExecutedOnce, history
<1>2. ASSUME NEW q \in executed'
      PROVE  \/ res'[q] \in {"DISPATCHED", "UNCERTAIN"}
             \/ res'[q] = "SETTLED" /\ usage'[q] = spent'[q]
  <2>1. q \in executed /\ q \in Ids /\ spent' = spent
    BY <1>2 DEF StageInv, Shape, history
  <2>2. res'[r] = "SETTLED" /\ usage'[r] = spent[r]
    BY DEF Charge, StageInv, Shape
  <2>3. q # r => res'[q] = res[q] /\ usage'[q] = usage[q]
    BY <2>1 DEF Charge, StageInv, Shape
  <2> QED
    BY <2>1, <2>2, <2>3 DEF StageInv, SpendIsAccounted
<1> QED
  BY <1>1, <1>2 DEF SpendIsAccounted

\* A runner's step keeps StageInv.
LEMMA RunStageKeeps ==
  ASSUME StageInv, NEW w \in Runners, RunStage(w)
  PROVE  StageInv'
<1>1. /\ Shape /\ Shape' /\ Forward
      /\ \A r \in Ids : res'[r] # res[r] => r = rid'[w]
      /\ \A v \in Runners \ {w} :
           pc'[v] = pc[v] /\ rid'[v] = rid[v] /\ outcome'[v] = outcome[v]
  BY RunStageForward, RunStageShape, RunStageFrame DEF StageInv
<1>2. \A v \in Runners : At(v)
  BY DEF StageInv
<1>3. rid[w] \in Ids /\ rid'[w] \in Ids
  BY <1>1 DEF Shape
<1>4. \A v \in Runners \ {w} : Executing(w) /\ Executing(v) => rid[v] # rid[w]
  BY DEF StageInv, OneExecutor
<1>5. ASSUME NEW r \in Ids, ReserveExisting(w, r) PROVE StageInv'
  <2>1. pc'[w] = "dispatching" /\ UNCHANGED <<res, usage, history>>
    BY <1>1, <1>5 DEF ReserveExisting, Begin, Goto, Shape
  <2>2. SpendIsAccounted' /\ ExecutedOnce'
    BY <1>1, <2>1, AccountKept DEF history
  <2>3. At(w)' /\ ~Executing(w)'
    BY <2>1 DEF At, Executing
  <2> QED
    BY <1>1, <2>1, <2>2, <2>3, OneRunnerMoves DEF history
<1>6. ASSUME NEW r \in Ids, ReserveNew(w, r) PROVE StageInv'
  <2>1. /\ pc'[w] = "dispatching" /\ UNCHANGED <<usage, history>>
        /\ res[r] = "NONE" /\ res'[r] = "RESERVED" /\ rid'[w] = r
        /\ \A q \in Ids \ {r} : res'[q] = res[q]
    BY <1>1, <1>6 DEF ReserveNew, Begin, Goto, Shape
  <2>2. SpendIsAccounted' /\ ExecutedOnce'
    <3>1. \A q \in executed : res'[q] = "SETTLED" => res[q] = "SETTLED"
      BY <1>1, <2>1 DEF Shape
    <3> QED
      BY <1>1, <2>1, <3>1, AccountKept DEF history
  <2>3. At(w)' /\ ~Executing(w)'
    BY <2>1 DEF At, Executing
  <2>4. \A v \in Runners \ {w} : Executing(v) => rid[v] # r
    BY <1>2, <2>1 DEF At, Executing
  <2> QED
    BY <1>1, <2>1, <2>2, <2>3, <2>4, OneRunnerMoves DEF history
<1>7. ASSUME NEW r \in Ids, ReserveRefused(w, r) PROVE StageInv'
  <2>1. /\ pc'[w] = "idle" /\ UNCHANGED <<res, usage, history>>
        /\ outcome'[w] \in {"exhausted", "unavailable"}
    BY <1>1, <1>7 DEF ReserveRefused, Begin, Finish, Shape
  <2>2. SpendIsAccounted' /\ ExecutedOnce'
    BY <1>1, <2>1, AccountKept DEF history
  <2>3. At(w)' /\ ~Executing(w)'
    BY <2>1 DEF At, Executing
  <2> QED
    BY <1>1, <2>1, <2>2, <2>3, OneRunnerMoves DEF history
<1>8. CASE Dispatch(w)
  <2>1. /\ pc'[w] = "executing" /\ rid'[w] = rid[w] /\ UNCHANGED <<usage, history>>
        /\ res[rid[w]] = "RESERVED" /\ res'[rid[w]] = "DISPATCHED"
        /\ \A q \in Ids \ {rid[w]} : res'[q] = res[q]
    BY <1>1, <1>8 DEF Dispatch, Granted, Goto, Shape
  <2>2. SpendIsAccounted' /\ ExecutedOnce'
    <3>1. \A q \in executed : res'[q] = "SETTLED" => res[q] = "SETTLED"
      BY <1>1, <2>1 DEF Shape
    <3> QED
      BY <1>1, <2>1, <3>1, AccountKept DEF history
  <2>3. At(w)'
    <3>1. rid[w] \notin executed
      BY <2>1 DEF StageInv, SpendIsAccounted
    <3> QED
      BY <2>1, <3>1 DEF At, history
  <2>4. \A v \in Runners \ {w} : Executing(v) => rid[v] # rid[w]
    BY <1>2, <2>1 DEF At, Executing
  <2> QED
    BY <1>1, <2>1, <2>2, <2>3, <2>4, OneRunnerMoves DEF history
<1>9. CASE DispatchConflict(w)
  <2>1. /\ rid'[w] = rid[w] /\ UNCHANGED <<res, usage, history>>
        /\ \/ pc'[w] = "releasing"
           \/ /\ pc'[w] = "idle" /\ outcome'[w] = "duplicate"
              /\ res[rid[w]] \in {"DISPATCHED", "UNCERTAIN", "SETTLED"}
           \/ pc'[w] = "idle" /\ outcome'[w] = "refused"
    BY <1>1, <1>9 DEF DispatchConflict, Goto, Finish, Shape
  <2>2. SpendIsAccounted' /\ ExecutedOnce'
    BY <1>1, <2>1, AccountKept DEF history
  <2>3. At(w)' /\ ~Executing(w)'
    BY <2>1 DEF At, Executing
  <2> QED
    BY <1>1, <2>1, <2>2, <2>3, OneRunnerMoves DEF history
<1>10. CASE Release(w)
  <2>1. /\ pc'[w] = "idle" /\ outcome'[w] = "refused" /\ rid'[w] = rid[w]
        /\ UNCHANGED <<usage, history>>
        /\ \A q \in Ids : res'[q] # res[q] => res[q] = "RESERVED" /\ res'[q] = "RELEASED"
    BY <1>1, <1>10 DEF Release, Finish, Shape
  <2>2. SpendIsAccounted' /\ ExecutedOnce'
    <3>1. \A q \in executed : res'[q] = "SETTLED" => res[q] = "SETTLED"
      BY <1>1, <2>1 DEF Shape
    <3> QED
      BY <1>1, <2>1, <3>1, AccountKept DEF history
  <2>3. At(w)' /\ ~Executing(w)'
    BY <2>1 DEF At, Executing
  <2>4. \A v \in Runners : Executing(v) => res'[rid[v]] = res[rid[v]]
    BY <1>1, <1>2, <2>1 DEF At, Executing, Shape
  <2> QED
    BY <1>1, <2>1, <2>2, <2>3, <2>4, OneRunnerMoves DEF history
<1>11. CASE Execute(w)
  <2>1. /\ pc[w] = "executing" /\ pc'[w] = "running" /\ rid'[w] = rid[w]
        /\ UNCHANGED <<res, usage>>
        /\ executed' = executed \cup {rid[w]}
        /\ repeated' = repeated \cup ({rid[w]} \cap executed)
        /\ \A q \in Ids \ {rid[w]} : spent'[q] = spent[q]
    BY <1>1, <1>11 DEF Execute, Goto, Shape
  <2>2. rid[w] \notin executed /\ res[rid[w]] = "DISPATCHED"
    BY <1>2, <2>1 DEF At
  <2>3. SpendIsAccounted'
    <3>1. \A q \in executed : q \in Ids \ {rid[w]}
      BY <1>1, <2>2 DEF Shape
    <3> QED
      BY <2>1, <2>2, <3>1 DEF StageInv, SpendIsAccounted
  <2>4. ExecutedOnce'
    BY <2>1, <2>2 DEF StageInv, ExecutedOnce
  <2>5. At(w)'
    BY <2>1, <2>2 DEF At
  <2>6. \A v \in Runners \ {w} : Executing(v) => rid[v] # rid[w]
    BY <1>4, <2>1 DEF Executing
  <2> QED
    BY <1>1, <2>1, <2>3, <2>4, <2>5, <2>6, OneRunnerMoves
<1>12. CASE Resolves(w) \/ Rejects(w)
  <2>1. /\ pc[w] = "running" /\ rid'[w] = rid[w] /\ UNCHANGED <<res, usage, history>>
        /\ \/ pc'[w] = "settling"
           \/ pc'[w] = "failing" /\ outcome'[w] \in {"error", "fallback"}
    BY <1>1, <1>12 DEF Resolves, Rejects, Goto, Shape
  <2>2. SpendIsAccounted' /\ ExecutedOnce'
    BY <1>1, <2>1, AccountKept DEF history
  <2>3. At(w)'
    BY <1>2, <2>1 DEF At, history
  <2>4. \A v \in Runners \ {w} : Executing(v) => rid[v] # rid[w]
    BY <1>4, <2>1 DEF Executing
  <2> QED
    BY <1>1, <2>1, <2>2, <2>3, <2>4, OneRunnerMoves DEF history
<1>13. CASE Settle(w)
  <2>1. /\ pc[w] = "settling" /\ pc'[w] = "idle" /\ outcome'[w] = "value" /\ rid'[w] = rid[w]
        /\ Charge(rid[w], spent[rid[w]]) /\ UNCHANGED history
    BY <1>1, <1>13 DEF Settle, Finish, Shape
  <2>2. SpendIsAccounted' /\ ExecutedOnce'
    BY <1>1, <1>3, <2>1, AccountCharged
  <2>3. At(w)' /\ ~Executing(w)'
    BY <1>1, <1>2, <1>3, <2>1 DEF At, Executing, history, Charge, Shape
  <2>4. \A v \in Runners \ {w} : Executing(v) => rid[v] # rid[w]
    BY <1>4, <2>1 DEF Executing
  <2> QED
    BY <1>1, <2>1, <2>2, <2>3, <2>4, OneRunnerMoves DEF history
<1>14. CASE SettleFails(w)
  <2>1. /\ pc[w] = "settling" /\ pc'[w] = "failing" /\ outcome'[w] = "error" /\ rid'[w] = rid[w]
        /\ UNCHANGED <<res, usage>> \/ Charge(rid[w], spent[rid[w]])
        /\ UNCHANGED history
    BY <1>1, <1>14 DEF SettleFails, Goto, Shape
  <2>2. SpendIsAccounted' /\ ExecutedOnce'
    <3>1. CASE UNCHANGED <<res, usage>>
      BY <1>1, <2>1, <3>1, AccountKept DEF history
    <3>2. CASE Charge(rid[w], spent[rid[w]])
      BY <1>1, <1>3, <2>1, <3>2, AccountCharged
    <3> QED
      BY <2>1, <3>1, <3>2
  <2>3. res'[rid[w]] \in {"DISPATCHED", "SETTLED"}
    BY <1>1, <1>2, <1>3, <2>1 DEF At, Charge, Shape
  <2>4. At(w)'
    BY <1>2, <2>1, <2>3 DEF At, history
  <2>5. \A v \in Runners \ {w} : Executing(v) => rid[v] # rid[w]
    BY <1>4, <2>1 DEF Executing
  <2> QED
    BY <1>1, <2>1, <2>2, <2>4, <2>5, OneRunnerMoves DEF history
<1>15. CASE MarkUncertain(w)
  <2>1. /\ pc[w] = "failing" /\ pc'[w] = "idle" /\ rid'[w] = rid[w] /\ outcome'[w] = outcome[w]
        /\ UNCHANGED <<usage, history>>
        /\ \A q \in Ids : res'[q] # res[q] => res'[q] = "UNCERTAIN"
        /\ \A q \in Ids : res'[q] # res[q] => q = rid[w]
    BY <1>1, <1>15 DEF MarkUncertain, Goto, Shape
  <2>2. SpendIsAccounted' /\ ExecutedOnce'
    <3>1. \A q \in executed : res'[q] = "SETTLED" => res[q] = "SETTLED"
      BY <1>1, <2>1 DEF Shape
    <3> QED
      BY <1>1, <2>1, <3>1, AccountKept DEF history
  <2>3. At(w)' /\ ~Executing(w)'
    <3>1. /\ rid[w] \in executed /\ outcome[w] \in {"error", "fallback"}
          /\ res[rid[w]] \in {"DISPATCHED", "SETTLED"}
      BY <1>2, <2>1 DEF At
    <3>2. res'[rid[w]] # "RELEASED"
      BY <1>3, <2>1, <3>1
    <3> QED
      BY <2>1, <3>1, <3>2 DEF At, Executing, history
  <2>4. \A v \in Runners \ {w} : Executing(v) => rid[v] # rid[w]
    BY <1>4, <2>1 DEF Executing
  <2> QED
    BY <1>1, <2>1, <2>2, <2>3, <2>4, OneRunnerMoves DEF history
<1>16. CASE Crash(w)
  <2>1. /\ pc'[w] = "idle" /\ outcome'[w] = "none" /\ rid'[w] = rid[w]
        /\ UNCHANGED <<res, usage, history>>
    BY <1>1, <1>16 DEF Crash, Finish, Shape
  <2>2. SpendIsAccounted' /\ ExecutedOnce'
    BY <1>1, <2>1, AccountKept DEF history
  <2>3. At(w)' /\ ~Executing(w)'
    BY <2>1 DEF At, Executing
  <2> QED
    BY <1>1, <2>1, <2>2, <2>3, OneRunnerMoves DEF history
<1> QED
  BY <1>5, <1>6, <1>7, <1>8, <1>9, <1>10, <1>11, <1>12, <1>13, <1>14, <1>15, <1>16 DEF RunStage

-----------------------------------------------------------------------------
LEMMA InitStageInv == Init => StageInv
BY DEF Init, StageInv, Shape, At, OneExecutor, Executing, SpendIsAccounted, ExecutedOnce,
       Steps, Outcomes, ReservationStatuses

\* A step of the repository alone keeps StageInv: it moves no reservation that a runner
\* was granted.
LEMMA RepositoryKeeps ==
  ASSUME StageInv, Shape', Forward, UNCHANGED <<runner, executed>>,
         \A r \in Ids : res'[r] # res[r] => res[r] \in {"RESERVED", "UNCERTAIN"},
         SpendIsAccounted', ExecutedOnce'
  PROVE  StageInv'
<1>1. ASSUME NEW v \in Runners PROVE At(v)'
  <2>1. rid[v] \in Ids /\ At(v)
    BY DEF StageInv, Shape
  <2>2. Executing(v) => res'[rid[v]] = res[rid[v]]
    BY <2>1 DEF At, Executing
  <2>3. pc[v] = "executing" => rid[v] \notin executed'
    BY <2>1 DEF At
  <2> QED
    BY <2>2, <2>3, Standing DEF runner
<1>2. OneExecutor'
  BY DEF StageInv, OneExecutor, Executing, runner
<1> QED
  BY <1>1, <1>2 DEF StageInv

LEMMA StepStageInv == StageInv /\ [Next]_vars => StageInv'
<1> SUFFICES ASSUME StageInv, [Next]_vars PROVE StageInv'
  OBVIOUS
<1>1. Forward
  BY StepForward
<1>2. ASSUME NEW r \in Ids, SettleUncertain(r) PROVE StageInv'
  <2>1. res[r] = "UNCERTAIN" /\ Charge(r, spent[r]) /\ UNCHANGED <<runner, history>>
    BY <1>2 DEF SettleUncertain
  <2>2. Shape'
    BY <2>1 DEF Charge, StageInv, Shape, runner, history, ReservationStatuses
  <2>3. SpendIsAccounted' /\ ExecutedOnce'
    BY <1>1, <2>1, <2>2, AccountCharged
  <2>4. \A q \in Ids : res'[q] # res[q] => res[q] \in {"RESERVED", "UNCERTAIN"}
    BY <2>1 DEF Charge, StageInv, Shape
  <2> QED
    BY <1>1, <2>1, <2>2, <2>3, <2>4, RepositoryKeeps DEF history
<1>3. CASE Cancel \/ ReconcileTerminal
  <2>1. /\ ReleaseReserved /\ UNCHANGED <<usage, runner, executed, repeated, spent>>
    BY <1>3 DEF Cancel, ReconcileTerminal, history
  <2>2. \A q \in Ids : res'[q] # res[q] => res[q] = "RESERVED" /\ res'[q] = "RELEASED"
    BY <2>1 DEF ReleaseReserved, Reserved
  <2>3. Shape'
    BY <2>1 DEF ReleaseReserved, StageInv, Shape, runner, ReservationStatuses
  <2>4. SpendIsAccounted' /\ ExecutedOnce'
    <3>1. \A q \in executed : res'[q] = "SETTLED" => res[q] = "SETTLED"
      BY <2>2 DEF StageInv, Shape
    <3> QED
      BY <1>1, <2>1, <2>3, <3>1, AccountKept
  <2> QED
    BY <1>1, <2>1, <2>2, <2>3, <2>4, RepositoryKeeps
<1>4. CASE TurnEnds \/ UNCHANGED vars
  <2>1. UNCHANGED <<res, usage, runner, history>>
    BY <1>4 DEF TurnEnds, vars
  <2> QED
    BY <2>1 DEF StageInv, Shape, At, OneExecutor, Executing, SpendIsAccounted, ExecutedOnce,
                runner, history
<1> QED
  BY <1>2, <1>3, <1>4, RunStageKeeps DEF Next

LEMMA StageInvariance == Spec => []StageInv
BY InitStageInv, StepStageInv, PTL DEF Spec

\* Whatever runs a stage, however often, and whoever crashes: one reservation executes
\* its stage once, what the provider consumed stays held or is charged as it was
\* reported, and a caller is told what the reservation shows.
THEOREM StagesAlwaysAccounted == Spec => []StagesAreAccounted
<1>1. StageInv => StagesAreAccounted
  BY DEF StageInv, StagesAreAccounted, OutcomeIsJustified, At
<1> QED
  BY <1>1, StageInvariance, PTL

\* A reservation never goes back: nothing is reserved, dispatched or settled twice.
THEOREM LifecycleFollowed == Spec => FollowsLifecycle
<1>1. StageInv /\ [Next]_vars =>
        [\A r \in Ids : res'[r] # res[r] => <<res[r], res'[r]>> \in Lifecycle]_vars
  BY StepForward DEF Forward
<1> QED
  BY <1>1, StageInvariance, PTL DEF Spec, FollowsLifecycle

-----------------------------------------------------------------------------
(* The calls of a turn. *)

\* The ledger's calls are those of the reservations and within its limit, and what a
\* finished turn has not dispatched is free.
CallsInv ==
  /\ heldCalls = Cardinality(Open)
  /\ usedCalls = Cardinality(Settled)
  /\ usedCalls + heldCalls <= MaxCalls
  /\ NothingLeftReserved
  /\ reconciled => turn = "TERMINAL"

LEMMA Counts ==
  /\ IsFiniteSet(Open) /\ IsFiniteSet(Settled) /\ IsFiniteSet(Reserved)
  /\ Cardinality(Open) \in Nat /\ Cardinality(Settled) \in Nat
<1>1. Open \subseteq Ids /\ Settled \subseteq Ids /\ Reserved \subseteq Ids /\ IsFiniteSet(Ids)
  BY BudgetAssumption DEF Open, Settled, Reserved
<1>2. IsFiniteSet(Open) /\ IsFiniteSet(Settled) /\ IsFiniteSet(Reserved)
  BY <1>1, FS_Subset
<1> QED
  BY <1>2, FS_CardinalityType

\* No call is counted or freed where the open and the settled stay the same.
LEMMA CallsKept ==
  ASSUME CallsInv, UNCHANGED <<turn, ledger, reconciled, heldCalls, usedCalls>>,
         \A r \in Ids : res'[r] # res[r] =>
           <<res[r], res'[r]>> \in {<<"RESERVED", "DISPATCHED">>, <<"DISPATCHED", "UNCERTAIN">>}
  PROVE  CallsInv'
<1>1. Open' = Open /\ Settled' = Settled
  BY DEF Open, Settled
<1>2. Reserved' \subseteq Reserved
  BY DEF Reserved
<1> QED
  BY <1>1, <1>2 DEF CallsInv, NothingLeftReserved

LEMMA CallReserved ==
  ASSUME CallsInv, Shape, NEW r \in Ids, res[r] = "NONE", Available, Fits(r),
         res' = [res EXCEPT ![r] = "RESERVED"], heldCalls' = heldCalls + 1,
         UNCHANGED <<turn, ledger, usedCalls, reconciled>>
  PROVE  CallsInv'
<1>1. Open' = Open \cup {r} /\ r \notin Open /\ Settled' = Settled
  BY DEF Open, Settled, Shape
<1>2. heldCalls' = Cardinality(Open')
  BY <1>1, Counts, FS_AddElement DEF CallsInv
<1>3. usedCalls' + heldCalls' <= MaxCalls
  BY Counts, BudgetAssumption DEF CallsInv, Fits
<1> QED
  BY <1>1, <1>2, <1>3 DEF CallsInv, NothingLeftReserved, Available

LEMMA CallReleased ==
  ASSUME CallsInv, Shape, NEW r \in Ids, res[r] = "RESERVED",
         res' = [res EXCEPT ![r] = "RELEASED"], heldCalls' = heldCalls - 1,
         UNCHANGED <<turn, ledger, usedCalls, reconciled>>
  PROVE  CallsInv'
<1>1. Open' = Open \ {r} /\ r \in Open /\ Settled' = Settled /\ Reserved' \subseteq Reserved
  BY DEF Open, Settled, Reserved, Shape
<1>2. heldCalls' = Cardinality(Open')
  BY <1>1, Counts, FS_RemoveElement DEF CallsInv
<1>3. usedCalls' + heldCalls' <= MaxCalls
  BY Counts, BudgetAssumption DEF CallsInv
<1> QED
  BY <1>1, <1>2, <1>3 DEF CallsInv, NothingLeftReserved

LEMMA CallCharged ==
  ASSUME CallsInv, Shape, NEW r \in Ids, NEW amount, res[r] \in {"DISPATCHED", "UNCERTAIN"},
         Charge(r, amount), UNCHANGED <<turn, ledger, reconciled>>
  PROVE  CallsInv'
<1>1. /\ Open' = Open \ {r} /\ r \in Open
      /\ Settled' = Settled \cup {r} /\ r \notin Settled
      /\ Reserved' \subseteq Reserved
  BY DEF Charge, Open, Settled, Reserved, Shape
<1>2. heldCalls' = heldCalls - 1 /\ usedCalls' = usedCalls + 1
  BY DEF Charge
<1>3. heldCalls' = Cardinality(Open')
  BY <1>1, <1>2, Counts, FS_RemoveElement DEF CallsInv
<1>4. usedCalls' = Cardinality(Settled')
  BY <1>1, <1>2, Counts, FS_AddElement DEF CallsInv
<1>5. usedCalls' + heldCalls' <= MaxCalls
  BY <1>2, Counts, BudgetAssumption DEF CallsInv
<1> QED
  BY <1>1, <1>3, <1>4, <1>5 DEF CallsInv, NothingLeftReserved

LEMMA CallsFreed ==
  ASSUME CallsInv, Shape, ReleaseReserved, UNCHANGED <<turn, usedCalls>>,
         reconciled' => turn = "TERMINAL"
  PROVE  CallsInv'
<1>1. /\ Open' = Open \ Reserved /\ Open \cap Reserved = Reserved
      /\ Settled' = Settled /\ Reserved' = {}
  BY DEF ReleaseReserved, Open, Settled, Reserved
<1>2. Cardinality(Open') = Cardinality(Open) - Cardinality(Reserved)
  <2>1. IsFiniteSet(Open)
    BY Counts
  <2>2. Cardinality(Open \ Reserved) = Cardinality(Open) - Cardinality(Open \cap Reserved)
    BY <2>1, FS_Difference
  <2> QED
    BY <1>1, <2>2
<1>3. Cardinality(Reserved) \in Nat /\ heldCalls' = heldCalls - Cardinality(Reserved)
  BY Counts, FS_CardinalityType DEF ReleaseReserved
<1>4. usedCalls' + heldCalls' <= MaxCalls
  BY <1>3, Counts, BudgetAssumption DEF CallsInv
<1> QED
  BY <1>1, <1>2, <1>3, <1>4 DEF CallsInv, NothingLeftReserved

LEMMA InitCallsInv == Init => CallsInv
<1> SUFFICES ASSUME Init PROVE CallsInv
  OBVIOUS
<1>1. Open = {} /\ Settled = {} /\ Reserved = {}
  BY DEF Init, Open, Settled, Reserved
<1> QED
  BY <1>1, FS_EmptySet, BudgetAssumption DEF Init, CallsInv, NothingLeftReserved

LEMMA StepCallsInv == CallsInv /\ StageInv /\ [Next]_vars => CallsInv'
<1> SUFFICES ASSUME CallsInv, StageInv, [Next]_vars PROVE CallsInv'
  OBVIOUS
<1>1. Shape /\ \A w \in Runners : rid[w] \in Ids /\ At(w)
  BY DEF StageInv, Shape
<1>2. ASSUME NEW w \in Runners, RunStage(w) PROVE CallsInv'
  <2>1. ASSUME NEW r \in Ids, ReserveExisting(w, r) \/ ReserveRefused(w, r) PROVE CallsInv'
    BY <2>1, CallsKept DEF ReserveExisting, ReserveRefused, Begin, history
  <2>2. ASSUME NEW r \in Ids, ReserveNew(w, r) PROVE CallsInv'
    BY <1>1, <2>2, CallReserved DEF ReserveNew, Begin, history
  <2>3. CASE Dispatch(w)
    <3>1. \A q \in Ids : res'[q] # res[q] => res[q] = "RESERVED" /\ res'[q] = "DISPATCHED"
      BY <1>1, <2>3 DEF Dispatch, Granted, Shape
    <3> QED
      BY <2>3, <3>1, CallsKept DEF Dispatch, history, counters
  <2>4. CASE DispatchConflict(w) \/ Execute(w) \/ Resolves(w) \/ Rejects(w) \/ Crash(w)
    BY <2>4, CallsKept DEF DispatchConflict, Execute, Resolves, Rejects, Crash, history, counters
  <2>5. CASE Release(w)
    <3>1. CASE res[rid[w]] = "RESERVED"
      BY <1>1, <2>5, <3>1, CallReleased DEF Release, history
    <3>2. CASE res[rid[w]] # "RESERVED"
      BY <2>5, <3>2, CallsKept DEF Release, history
    <3> QED
      BY <3>1, <3>2
  <2>6. CASE Settle(w)
    BY <1>1, <2>6, CallCharged DEF Settle, history
  <2>7. CASE SettleFails(w)
    <3>1. CASE UNCHANGED <<res, usage, counters>>
      BY <2>7, <3>1, CallsKept DEF SettleFails, history, counters
    <3>2. CASE res[rid[w]] = "DISPATCHED" /\ Charge(rid[w], spent[rid[w]])
      BY <1>1, <2>7, <3>2, CallCharged DEF SettleFails, history
    <3> QED
      BY <2>7, <3>1, <3>2 DEF SettleFails
  <2>8. CASE MarkUncertain(w)
    <3>1. \A q \in Ids : res'[q] # res[q] => res[q] = "DISPATCHED" /\ res'[q] = "UNCERTAIN"
      BY <1>1, <2>8 DEF MarkUncertain, Shape
    <3> QED
      BY <2>8, <3>1, CallsKept DEF MarkUncertain, history, counters
  <2> QED
    BY <1>2, <2>1, <2>2, <2>3, <2>4, <2>5, <2>6, <2>7, <2>8 DEF RunStage
<1>3. ASSUME NEW r \in Ids, SettleUncertain(r) PROVE CallsInv'
  BY <1>1, <1>3, CallCharged DEF SettleUncertain, history
<1>4. CASE Cancel
  BY <1>1, <1>4, CallsFreed DEF Cancel, history, CallsInv
<1>5. CASE ReconcileTerminal
  BY <1>1, <1>5, CallsFreed DEF ReconcileTerminal
<1>6. CASE TurnEnds
  BY <1>6 DEF TurnEnds, CallsInv, NothingLeftReserved, Open, Settled, Reserved, counters, history
<1>7. CASE UNCHANGED vars
  BY <1>7, CallsKept DEF vars, counters, history
<1> QED
  BY <1>2, <1>3, <1>4, <1>5, <1>6, <1>7 DEF Next

LEMMA CallsInvariance == Spec => []CallsInv
BY InitCallsInv, StepCallsInv, StageInvariance, PTL DEF Spec

\* Concurrent stages, attempts and redeliveries never hold and use more calls than the
\* ledger allows, and its two counters of calls are exactly what the reservations say.
THEOREM CallsAlwaysCounted ==
  Spec => [](/\ heldCalls = Cardinality(Open) /\ usedCalls = Cardinality(Settled)
             /\ usedCalls + heldCalls <= MaxCalls)
<1>1. CallsInv => /\ heldCalls = Cardinality(Open) /\ usedCalls = Cardinality(Settled)
                  /\ usedCalls + heldCalls <= MaxCalls
  BY DEF CallsInv
<1> QED
  BY <1>1, CallsInvariance, PTL

\* Once a terminal turn was reconciled, or the ledger cancelled, nothing is reserved
\* and nothing ever will be.
THEOREM ReservationsAreFreed == Spec => []NothingLeftReserved
<1>1. CallsInv => NothingLeftReserved
  BY DEF CallsInv
<1> QED
  BY <1>1, CallsInvariance, PTL

-----------------------------------------------------------------------------
(* The cost of a turn. *)

\* Adding a member adds its units.
LEMMA TotalAdd ==
  ASSUME NEW f, NEW S, NEW r, r \notin S, f[r] \in Nat, IsFiniteSet(Units(f, S))
  PROVE  /\ IsFiniteSet(Units(f, S \cup {r}))
         /\ Total(f, S \cup {r}) = Total(f, S) + f[r]
<1> DEFINE New == {r} \X (1 .. f[r])
<1>1. Units(f, S \cup {r}) = Units(f, S) \cup New
  BY DEF Units
<1>2. Units(f, S) \cap New = {}
  BY DEF Units
<1>3. IsFiniteSet(New) /\ Cardinality(New) = f[r]
  <2>1. IsFiniteSet({r}) /\ Cardinality({r}) = 1
    BY FS_Singleton
  <2>2. IsFiniteSet(1 .. f[r]) /\ Cardinality(1 .. f[r]) = f[r]
    BY FS_Interval
  <2>3. IsFiniteSet(New) /\ Cardinality(New) = Cardinality({r}) * Cardinality(1 .. f[r])
    BY <2>1, <2>2, FS_Product
  <2> QED
    BY <2>1, <2>2, <2>3
<1> HIDE DEF New
<1>4. /\ IsFiniteSet(Units(f, S) \cup New)
      /\ Cardinality(Units(f, S) \cup New) =
           Cardinality(Units(f, S)) + Cardinality(New) - Cardinality(Units(f, S) \cap New)
  BY <1>3, FS_Union
<1>5. Cardinality({}) = 0 /\ Cardinality(Units(f, S)) \in Nat
  BY FS_EmptySet, FS_CardinalityType
<1>6. Cardinality(Units(f, S) \cup New) = Cardinality(Units(f, S)) + f[r] - 0
  BY <1>2, <1>3, <1>4, <1>5
<1>7. Cardinality(Units(f, S) \cup New) = Cardinality(Units(f, S)) + f[r]
  BY <1>5, <1>6
<1> QED
  BY <1>1, <1>4, <1>7 DEF Total

\* Taking members out takes out their units.
LEMMA TotalWithout ==
  ASSUME NEW f, NEW S, NEW T, T \subseteq S, IsFiniteSet(Units(f, S))
  PROVE  /\ IsFiniteSet(Units(f, S \ T)) /\ IsFiniteSet(Units(f, T))
         /\ Total(f, S \ T) = Total(f, S) - Total(f, T)
<1>1. Units(f, S \ T) = Units(f, S) \ Units(f, T)
  BY DEF Units
<1>2. Units(f, T) \subseteq Units(f, S)
  BY DEF Units
<1>3. Units(f, S) \cap Units(f, T) = Units(f, T)
  BY <1>2
<1>4. /\ IsFiniteSet(Units(f, S) \ Units(f, T))
      /\ Cardinality(Units(f, S) \ Units(f, T)) =
           Cardinality(Units(f, S)) - Cardinality(Units(f, S) \cap Units(f, T))
  BY FS_Difference
<1>5. IsFiniteSet(Units(f, T))
  BY <1>2, FS_Subset
<1> QED
  BY <1>1, <1>3, <1>4, <1>5 DEF Total

LEMMA TotalRemove ==
  ASSUME NEW f, NEW S, NEW r \in S, f[r] \in Nat, IsFiniteSet(Units(f, S))
  PROVE  /\ IsFiniteSet(Units(f, S \ {r}))
         /\ Total(f, S \ {r}) = Total(f, S) - f[r]
<1>1. IsFiniteSet(Units(f, S \ {r}))
  BY TotalWithout
<1>2. Total(f, (S \ {r}) \cup {r}) = Total(f, S \ {r}) + f[r]
  BY <1>1, TotalAdd
<1>3. (S \ {r}) \cup {r} = S
  OBVIOUS
<1>4. Total(f, S \ {r}) \in Nat
  BY <1>1, FS_CardinalityType DEF Total
<1>5. Total(f, S) = Total(f, S \ {r}) + f[r]
  BY <1>2, <1>3
<1> QED
  BY <1>1, <1>4, <1>5

\* A sum depends on the amounts of the members alone.
LEMMA SameUnits ==
  ASSUME NEW f, NEW g, NEW S, \A r \in S : f[r] = g[r]
  PROVE  Units(f, S) = Units(g, S)
BY DEF Units

\* What is held is what the open reservations asked for, what is used is what the
\* settled ones reported, and together they are within the limit.
CostInv ==
  /\ IsFiniteSet(Units(Request, Open)) /\ IsFiniteSet(Units(usage, Settled))
  /\ heldCost = CostOf(Open)
  /\ usedCost = Total(usage, Settled)
  /\ usedCost + heldCost <= MaxCost

LEMMA CostsAreNat ==
  ASSUME CostInv
  PROVE  heldCost \in Nat /\ usedCost \in Nat
BY FS_CardinalityType DEF CostInv, CostOf, Total

LEMMA CostKept ==
  ASSUME CostInv, UNCHANGED <<heldCost, usedCost, usage>>,
         \A r \in Ids : res'[r] # res[r] =>
           <<res[r], res'[r]>> \in {<<"RESERVED", "DISPATCHED">>, <<"DISPATCHED", "UNCERTAIN">>}
  PROVE  CostInv'
<1>1. Open' = Open /\ Settled' = Settled
  BY DEF Open, Settled
<1> QED
  BY <1>1 DEF CostInv, CostOf

LEMMA CostReserved ==
  ASSUME CostInv, Shape, NEW r \in Ids, res[r] = "NONE", Fits(r),
         res' = [res EXCEPT ![r] = "RESERVED"], heldCost' = heldCost + Request[r],
         UNCHANGED <<usedCost, usage>>
  PROVE  CostInv'
<1>1. Open' = Open \cup {r} /\ r \notin Open /\ Settled' = Settled
  BY DEF Open, Settled, Shape
<1>2. Request[r] \in Nat /\ MaxCost \in Nat
  BY BudgetAssumption
<1>3. /\ IsFiniteSet(Units(Request, Open \cup {r}))
      /\ Total(Request, Open \cup {r}) = Total(Request, Open) + Request[r]
  BY <1>1, <1>2, TotalAdd DEF CostInv
<1>4. usedCost' + heldCost' <= MaxCost
  BY <1>2, CostsAreNat DEF Fits
<1> QED
  BY <1>1, <1>3, <1>4 DEF CostInv, CostOf

LEMMA CostReleased ==
  ASSUME CostInv, Shape, NEW r \in Ids, res[r] = "RESERVED",
         res' = [res EXCEPT ![r] = "RELEASED"], heldCost' = heldCost - Request[r],
         UNCHANGED <<usedCost, usage>>
  PROVE  CostInv'
<1>1. Open' = Open \ {r} /\ r \in Open /\ Settled' = Settled
  BY DEF Open, Settled, Shape
<1>2. Request[r] \in Nat /\ MaxCost \in Nat
  BY BudgetAssumption
<1>3. /\ IsFiniteSet(Units(Request, Open \ {r}))
      /\ Total(Request, Open \ {r}) = Total(Request, Open) - Request[r]
  BY <1>1, <1>2, TotalRemove DEF CostInv
<1>4. usedCost' + heldCost' <= MaxCost
  BY <1>2, CostsAreNat DEF CostInv
<1> QED
  BY <1>1, <1>3, <1>4 DEF CostInv, CostOf

\* A settlement gives the whole request back and charges at most as much.
LEMMA CostCharged ==
  ASSUME CostInv, Shape, NEW r \in Ids, NEW amount \in Nat, amount <= Request[r],
         res[r] \in {"DISPATCHED", "UNCERTAIN"}, Charge(r, amount)
  PROVE  CostInv'
<1>1. /\ Open' = Open \ {r} /\ r \in Open
      /\ Settled' = Settled \cup {r} /\ r \notin Settled
  BY DEF Charge, Open, Settled, Shape
<1>2. Request[r] \in Nat /\ MaxCost \in Nat
  BY BudgetAssumption
<1>3. /\ IsFiniteSet(Units(Request, Open \ {r}))
      /\ Total(Request, Open \ {r}) = Total(Request, Open) - Request[r]
  BY <1>1, <1>2, TotalRemove DEF CostInv
<1>4. usage' = [usage EXCEPT ![r] = amount] /\ usage'[r] = amount /\ Settled \subseteq Ids
  BY DEF Charge, Shape, Settled
<1>5. Units(usage', Settled) = Units(usage, Settled)
  <2>1. \A q \in Settled : usage'[q] = usage[q]
    BY <1>1, <1>4 DEF Shape
  <2> QED
    BY <2>1, SameUnits
<1>6. /\ IsFiniteSet(Units(usage', Settled \cup {r}))
      /\ Total(usage', Settled \cup {r}) = Total(usage', Settled) + amount
  <2>1. IsFiniteSet(Units(usage', Settled)) /\ usage'[r] \in Nat
    BY <1>4, <1>5 DEF CostInv
  <2>2. /\ IsFiniteSet(Units(usage', Settled \cup {r}))
        /\ Total(usage', Settled \cup {r}) = Total(usage', Settled) + usage'[r]
    BY <1>1, <2>1, TotalAdd
  <2> QED
    BY <1>4, <2>2
<1>7. Total(usage', Settled) = Total(usage, Settled)
  BY <1>5 DEF Total
<1>8. heldCost' = heldCost - Request[r] /\ usedCost' = usedCost + amount
  BY DEF Charge
<1>9. usedCost' + heldCost' <= MaxCost
  BY <1>2, <1>8, CostsAreNat DEF CostInv
<1> QED
  BY <1>1, <1>3, <1>6, <1>7, <1>8, <1>9 DEF CostInv, CostOf

LEMMA CostFreed ==
  ASSUME CostInv, ReleaseReserved, UNCHANGED <<usedCost, usage>>
  PROVE  CostInv'
<1>1. Open' = Open \ Reserved /\ Reserved \subseteq Open /\ Settled' = Settled
  BY DEF ReleaseReserved, Open, Settled, Reserved
<1>2. /\ IsFiniteSet(Units(Request, Open \ Reserved)) /\ IsFiniteSet(Units(Request, Reserved))
      /\ Total(Request, Open \ Reserved) = Total(Request, Open) - Total(Request, Reserved)
  BY <1>1, TotalWithout DEF CostInv
<1>3. Total(Request, Reserved) \in Nat
  BY <1>2, FS_CardinalityType DEF Total
<1>4. heldCost' = heldCost - Total(Request, Reserved)
  BY DEF ReleaseReserved, CostOf
<1>5. usedCost' + heldCost' <= MaxCost
  BY <1>3, <1>4, CostsAreNat, BudgetAssumption DEF CostInv
<1> QED
  BY <1>1, <1>2, <1>4, <1>5 DEF CostInv, CostOf

LEMMA InitCostInv == Init => CostInv
<1> SUFFICES ASSUME Init PROVE CostInv
  OBVIOUS
<1>1. Open = {} /\ Settled = {}
  BY DEF Init, Open, Settled
<1>2. Units(Request, {}) = {} /\ Units(usage, {}) = {}
  BY DEF Units
<1>3. IsFiniteSet({}) /\ Cardinality({}) = 0
  BY FS_EmptySet
<1> QED
  BY <1>1, <1>2, <1>3, BudgetAssumption DEF Init, CostInv, CostOf, Total

LEMMA StepCostInv == CostInv /\ StageInv /\ [Next]_vars => CostInv'
<1> SUFFICES ASSUME CostInv, StageInv, [Next]_vars PROVE CostInv'
  OBVIOUS
<1>1. Shape /\ (\A w \in Runners : rid[w] \in Ids) /\ (\A r \in Ids : spent[r] \in Nat)
  BY DEF StageInv, Shape
<1>2. ASSUME NEW w \in Runners, RunStage(w) PROVE CostInv'
  <2>1. ASSUME NEW r \in Ids, ReserveExisting(w, r) \/ ReserveRefused(w, r) PROVE CostInv'
    BY <2>1, CostKept DEF ReserveExisting, ReserveRefused, Begin
  <2>2. ASSUME NEW r \in Ids, ReserveNew(w, r) PROVE CostInv'
    BY <1>1, <2>2, CostReserved DEF ReserveNew, Begin
  <2>3. CASE Dispatch(w)
    <3>1. \A q \in Ids : res'[q] # res[q] => res[q] = "RESERVED" /\ res'[q] = "DISPATCHED"
      BY <1>1, <2>3 DEF Dispatch, Granted, Shape
    <3> QED
      BY <2>3, <3>1, CostKept DEF Dispatch, counters
  <2>4. CASE DispatchConflict(w) \/ Execute(w) \/ Resolves(w) \/ Rejects(w) \/ Crash(w)
    BY <2>4, CostKept DEF DispatchConflict, Execute, Resolves, Rejects, Crash, counters
  <2>5. CASE Release(w)
    <3>1. CASE res[rid[w]] = "RESERVED"
      BY <1>1, <2>5, <3>1, CostReleased DEF Release
    <3>2. CASE res[rid[w]] # "RESERVED"
      BY <2>5, <3>2, CostKept DEF Release
    <3> QED
      BY <3>1, <3>2
  <2>6. CASE Settle(w)
    BY <1>1, <2>6, CostCharged DEF Settle, UsageFits
  <2>7. CASE SettleFails(w)
    <3>1. CASE UNCHANGED <<res, usage, counters>>
      BY <3>1, CostKept DEF counters
    <3>2. CASE /\ res[rid[w]] = "DISPATCHED" /\ UsageFits(rid[w], spent[rid[w]])
               /\ Charge(rid[w], spent[rid[w]])
      BY <1>1, <3>2, CostCharged DEF UsageFits
    <3> QED
      BY <2>7, <3>1, <3>2 DEF SettleFails
  <2>8. CASE MarkUncertain(w)
    <3>1. \A q \in Ids : res'[q] # res[q] => res[q] = "DISPATCHED" /\ res'[q] = "UNCERTAIN"
      BY <1>1, <2>8 DEF MarkUncertain, Shape
    <3> QED
      BY <2>8, <3>1, CostKept DEF MarkUncertain, counters
  <2> QED
    BY <1>2, <2>1, <2>2, <2>3, <2>4, <2>5, <2>6, <2>7, <2>8 DEF RunStage
<1>3. ASSUME NEW r \in Ids, SettleUncertain(r) PROVE CostInv'
  BY <1>1, <1>3, CostCharged DEF SettleUncertain, UsageFits
<1>4. CASE Cancel \/ ReconcileTerminal
  BY <1>4, CostFreed DEF Cancel, ReconcileTerminal
<1>5. CASE TurnEnds \/ UNCHANGED vars
  BY <1>5, CostKept DEF TurnEnds, vars, counters
<1> QED
  BY <1>2, <1>3, <1>4, <1>5 DEF Next

LEMMA CostInvariance == Spec => []CostInv
BY InitCostInv, StepCostInv, StageInvariance, PTL DEF Spec

\* The ledger can be believed: its four counters are what the reservations say, calls and
\* cost together stay within their limits whatever runs at once, crashes or is redelivered,
\* and what a finished turn has not used is free again.
THEOREM LedgerAlwaysSound == Spec => []LedgerIsSound
<1>1. CallsInv /\ CostInv => LedgerIsSound
  BY DEF CallsInv, CostInv, LedgerIsSound, CountersMatchReservations, NoOverspend
<1> QED
  BY <1>1, CallsInvariance, CostInvariance, PTL

\* The turn, the ledger and the history keep their types by themselves.
Flags ==
  turn \in {"OPEN", "TERMINAL"} /\ ledger \in {"OPEN", "CANCELLED"} /\ reconciled \in BOOLEAN

LEMMA StepFlags == Flags /\ [Next]_vars => Flags'
<1> SUFFICES ASSUME Flags, [Next]_vars PROVE Flags'
  OBVIOUS
<1> USE DEF Flags, history
<1>1. ASSUME NEW w \in Runners, RunStage(w) PROVE UNCHANGED <<turn, ledger, reconciled>>
  BY <1>1
     DEF RunStage, ReserveExisting, ReserveNew, ReserveRefused, Begin, Dispatch, DispatchConflict,
         Release, Execute, Resolves, Rejects, Settle, SettleFails, MarkUncertain, Crash
<1>2. ASSUME NEW r \in Ids, SettleUncertain(r) PROVE UNCHANGED <<turn, ledger, reconciled>>
  BY <1>2 DEF SettleUncertain
<1>3. CASE Cancel \/ TurnEnds \/ ReconcileTerminal \/ UNCHANGED vars
  BY <1>3 DEF Cancel, TurnEnds, ReconcileTerminal, vars
<1> QED
  BY <1>1, <1>2, <1>3 DEF Next

\* Every variable keeps its type, the counters included: none of the sums ever goes below
\* zero.
THEOREM TypeCorrect == Spec => []TypeOK
<1>1. Init => Flags
  BY DEF Init, Flags
<1>2. StageInv /\ CallsInv /\ CostInv /\ Flags => TypeOK
  <2> SUFFICES ASSUME StageInv, CallsInv, CostInv, Flags PROVE TypeOK
    OBVIOUS
  <2>1. heldCalls \in Nat /\ usedCalls \in Nat /\ heldCost \in Nat /\ usedCost \in Nat
    BY Counts, CostsAreNat DEF CallsInv
  <2> QED
    BY <2>1 DEF StageInv, Shape, Flags, TypeOK
<1> QED
  BY <1>1, <1>2, StepFlags, StageInvariance, CallsInvariance, CostInvariance, PTL DEF Spec

=============================================================================
