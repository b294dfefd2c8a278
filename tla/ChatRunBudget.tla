---------------------------- MODULE ChatRunBudget ----------------------------
(***************************************************************************)
(* The budget of one chat turn: the ledger and its reservations            *)
(* (chat-run-budget.repository.ts), and the runners that execute an agent  *)
(* stage under a reservation (runBudgetedStage, packages/agent).           *)
(*                                                                         *)
(* A reservation id is stage:turn:attempt, so a redelivered attempt runs   *)
(* the same ids again: any runner may run any id, at any time, and several *)
(* may run one id at once.  Every repository method is one serializable    *)
(* transaction and therefore one step.  The three quantities that are      *)
(* accounted alike (input tokens, output tokens, cost) are one, called     *)
(* cost; calls are counted beside it.                                      *)
(***************************************************************************)
EXTENDS Integers, FiniteSets

CONSTANTS
  Ids,        \* reservation ids of the turn
  Runners,    \* concurrent calls of runBudgetedStage
  Request,    \* [Ids -> Nat]: the cost an id reserves; a stage always asks the same
  MaxCalls,   \* ledger.maxCalls
  MaxCost     \* ledger.maxInputTokens, maxOutputTokens, maxCostMicros

ASSUME BudgetAssumption ==
  /\ IsFiniteSet(Ids)
  /\ Request \in [Ids -> Nat]
  /\ MaxCalls \in Nat
  /\ MaxCost \in Nat

VARIABLES
  turn,        \* "OPEN" while ChatTurn is QUEUED or ACTIVE, then "TERMINAL"
  ledger,      \* "OPEN", or "CANCELLED" once cancelledAt is set
  res,         \* [Ids -> ReservationStatuses]
  usage,       \* [Ids -> Nat]: usage written when a reservation is settled
  heldCalls, heldCost, usedCalls, usedCost,
  pc,          \* [Runners -> Steps]: where the runner is in runBudgetedStage
  rid,         \* [Runners -> Ids]: the id it runs, or ran last
  outcome,     \* [Runners -> Outcomes]: how its last run ended
  executed,    \* history: the ids whose stage was executed
  repeated,    \* history: the ids whose stage was executed more than once
  spent,       \* history: [Ids -> Nat], what the provider really consumed
  reconciled   \* history: has reconcileTerminal completed?

counters == <<heldCalls, heldCost, usedCalls, usedCost>>
runner == <<pc, rid, outcome>>
history == <<executed, repeated, spent, reconciled>>
vars == <<turn, ledger, res, usage, counters, runner, history>>

ReservationStatuses == {"NONE", "RESERVED", "DISPATCHED", "SETTLED", "RELEASED", "UNCERTAIN"}

Steps == {"idle", "dispatching", "releasing", "executing", "running", "settling", "failing"}

\* none: not run, or cut short by a crash or a failed database call.
Outcomes == {"none", "value", "fallback", "error",
             "exhausted", "unavailable", "duplicate", "refused"}

\* Reservations whose amounts the ledger still holds.
Open == {r \in Ids : res[r] \in {"RESERVED", "DISPATCHED", "UNCERTAIN"}}
Settled == {r \in Ids : res[r] = "SETTLED"}
Reserved == {r \in Ids : res[r] = "RESERVED"}

\* The sum of f over S, as the number of the units its members have.
Units(f, S) == UNION {{r} \X (1 .. f[r]) : r \in S}
Total(f, S) == Cardinality(Units(f, S))

CostOf(S) == Total(Request, S)

Init ==
  /\ turn = "OPEN"
  /\ ledger = "OPEN"
  /\ res = [r \in Ids |-> "NONE"]
  /\ usage = [r \in Ids |-> 0]
  /\ heldCalls = 0 /\ heldCost = 0 /\ usedCalls = 0 /\ usedCost = 0
  /\ pc = [w \in Runners |-> "idle"]
  /\ rid \in [Runners -> Ids]
  /\ outcome = [w \in Runners |-> "none"]
  /\ executed = {} /\ repeated = {}
  /\ spent = [r \in Ids |-> 0]
  /\ reconciled = FALSE

Goto(w, step) == pc' = [pc EXCEPT ![w] = step]

Finish(w, how) ==
  /\ pc' = [pc EXCEPT ![w] = "idle"]
  /\ outcome' = [outcome EXCEPT ![w] = how]

-----------------------------------------------------------------------------
(* reserve, the first call of runBudgetedStage. *)

\* Mutant of Available: only the ledger is looked at, not the turn.
AvailableLedgerOnly == ledger = "OPEN"

Available == ledger = "OPEN" /\ turn = "OPEN"

\* Mutant of Fits: the guard forgets what is held.
FitsUsedOnly(r) ==
  /\ usedCalls <= MaxCalls - 1
  /\ usedCost <= MaxCost - Request[r]

\* The conditional update of the ledger.
Fits(r) ==
  /\ usedCalls <= MaxCalls - 1 - heldCalls
  /\ usedCost <= MaxCost - Request[r] - heldCost

Begin(w, r) ==
  /\ pc[w] = "idle"
  /\ rid' = [rid EXCEPT ![w] = r]
  /\ UNCHANGED <<turn, ledger, usage, usedCalls, usedCost, history>>

\* A reservation with this id exists: it is returned as it is.
ReserveExisting(w, r) ==
  /\ Begin(w, r)
  /\ res[r] # "NONE"
  /\ Goto(w, "dispatching")
  /\ UNCHANGED <<res, heldCalls, heldCost, outcome>>

ReserveNew(w, r) ==
  /\ Begin(w, r)
  /\ res[r] = "NONE" /\ Available /\ Fits(r)
  /\ res' = [res EXCEPT ![r] = "RESERVED"]
  /\ heldCalls' = heldCalls + 1
  /\ heldCost' = heldCost + Request[r]
  /\ Goto(w, "dispatching")
  /\ UNCHANGED outcome

ReserveRefused(w, r) ==
  /\ Begin(w, r)
  /\ res[r] = "NONE" /\ ~(Available /\ Fits(r))
  /\ Finish(w, IF Available THEN "exhausted" ELSE "unavailable")
  /\ UNCHANGED <<res, heldCalls, heldCost>>

-----------------------------------------------------------------------------
(* The rest of runBudgetedStage. *)

\* Mutant of Granted: dispatching what is already dispatched is idempotent.
GrantedAgain(r) == res[r] \in {"RESERVED", "DISPATCHED"} /\ Available

\* dispatch grants one permission to execute: RESERVED -> DISPATCHED.
Granted(r) == res[r] = "RESERVED" /\ Available

Dispatch(w) ==
  /\ pc[w] = "dispatching"
  /\ Granted(rid[w])
  /\ res' = [res EXCEPT ![rid[w]] = "DISPATCHED"]
  /\ Goto(w, "executing")
  /\ UNCHANGED <<turn, ledger, usage, counters, rid, outcome, history>>

\* Not granted: an undispatched reservation is given back, a dispatched one
\* means another runner has it.
DispatchConflict(w) ==
  /\ pc[w] = "dispatching"
  /\ ~Granted(rid[w])
  /\ CASE res[rid[w]] = "RESERVED" -> Goto(w, "releasing") /\ UNCHANGED outcome
       [] res[rid[w]] \in {"DISPATCHED", "UNCERTAIN", "SETTLED"} -> Finish(w, "duplicate")
       [] OTHER -> Finish(w, "refused")
  /\ UNCHANGED <<turn, ledger, res, usage, counters, rid, history>>

\* Mutant of Release: the amounts are returned whatever the status.
ReleaseUnguarded(w) ==
  LET r == rid[w] IN
  /\ pc[w] = "releasing"
  /\ res' = [res EXCEPT ![r] = "RELEASED"]
  /\ heldCalls' = heldCalls - 1
  /\ heldCost' = heldCost - Request[r]
  /\ Finish(w, "refused")
  /\ UNCHANGED <<turn, ledger, usage, usedCalls, usedCost, rid, history>>

\* release moves RESERVED to RELEASED and returns the held amounts; on any
\* other status it changes nothing.
Release(w) ==
  LET r == rid[w] IN
  /\ pc[w] = "releasing"
  /\ IF res[r] = "RESERVED"
       THEN /\ res' = [res EXCEPT ![r] = "RELEASED"]
            /\ heldCalls' = heldCalls - 1
            /\ heldCost' = heldCost - Request[r]
       ELSE UNCHANGED <<res, heldCalls, heldCost>>
  /\ Finish(w, "refused")
  /\ UNCHANGED <<turn, ledger, usage, usedCalls, usedCost, rid, history>>

\* execute() is called; the provider will consume amount, which may exceed
\* what was reserved for it.
Execute(w) ==
  LET r == rid[w] IN
  /\ pc[w] = "executing"
  /\ \E amount \in 0 .. Request[r] + 1 : spent' = [spent EXCEPT ![r] = amount]
  /\ executed' = executed \cup {r}
  /\ repeated' = repeated \cup ({r} \cap executed)
  /\ Goto(w, "running")
  /\ UNCHANGED <<turn, ledger, res, usage, counters, rid, outcome, reconciled>>

Resolves(w) ==
  /\ pc[w] = "running"
  /\ Goto(w, "settling")
  /\ UNCHANGED <<turn, ledger, res, usage, counters, rid, outcome, history>>

\* execute() rejects, with an error or with a fallback value to return.
Rejects(w) ==
  /\ pc[w] = "running"
  /\ \E how \in {"error", "fallback"} : outcome' = [outcome EXCEPT ![w] = how]
  /\ Goto(w, "failing")
  /\ UNCHANGED <<turn, ledger, res, usage, counters, rid, history>>

\* What settle and settleUncertain ask of the ledger and the usage reported.
UsageFits(r, amount) ==
  /\ amount <= Request[r]
  /\ usedCalls <= MaxCalls - 1
  /\ usedCost <= MaxCost - amount

\* Mutant of Charge: the hold is reduced by what was used.
ChargeKeepsRest(r, amount) ==
  /\ res' = [res EXCEPT ![r] = "SETTLED"]
  /\ usage' = [usage EXCEPT ![r] = amount]
  /\ heldCalls' = heldCalls - 1
  /\ heldCost' = heldCost - amount
  /\ usedCalls' = usedCalls + 1
  /\ usedCost' = usedCost + amount

Charge(r, amount) ==
  /\ res' = [res EXCEPT ![r] = "SETTLED"]
  /\ usage' = [usage EXCEPT ![r] = amount]
  /\ heldCalls' = heldCalls - 1
  /\ heldCost' = heldCost - Request[r]
  /\ usedCalls' = usedCalls + 1
  /\ usedCost' = usedCost + amount

\* Mutant of Settle: a conflict is taken for success.
SettleIgnoresConflict(w) ==
  LET r == rid[w] IN
  /\ pc[w] = "settling"
  /\ IF res[r] = "DISPATCHED" /\ UsageFits(r, spent[r])
       THEN Charge(r, spent[r])
       ELSE UNCHANGED <<res, usage, counters>>
  /\ Finish(w, "value")
  /\ UNCHANGED <<turn, ledger, rid, history>>

Settle(w) ==
  LET r == rid[w] IN
  /\ pc[w] = "settling"
  /\ res[r] = "DISPATCHED" /\ UsageFits(r, spent[r])
  /\ Charge(r, spent[r])
  /\ Finish(w, "value")
  /\ UNCHANGED <<turn, ledger, rid, history>>

\* settle returns conflict, or fails before or after its commit: the catch
\* clause runs with an error to rethrow.
SettleFails(w) ==
  LET r == rid[w] IN
  /\ pc[w] = "settling"
  /\ \/ UNCHANGED <<res, usage, counters>>
     \/ /\ res[r] = "DISPATCHED" /\ UsageFits(r, spent[r])
        /\ Charge(r, spent[r])
  /\ Goto(w, "failing")
  /\ outcome' = [outcome EXCEPT ![w] = "error"]
  /\ UNCHANGED <<turn, ledger, rid, history>>

\* Mutant of MarkUncertain: a failed stage is refunded.
MarkUncertainRefunds(w) ==
  LET r == rid[w] IN
  /\ pc[w] = "failing"
  /\ IF res[r] = "DISPATCHED"
       THEN /\ res' = [res EXCEPT ![r] = "RELEASED"]
            /\ heldCalls' = heldCalls - 1
            /\ heldCost' = heldCost - Request[r]
       ELSE UNCHANGED <<res, heldCalls, heldCost>>
  /\ Goto(w, "idle")
  /\ UNCHANGED <<turn, ledger, usage, usedCalls, usedCost, rid, outcome, history>>

\* uncertain moves DISPATCHED to UNCERTAIN and keeps the hold.  An error of
\* the call is swallowed; either way the run ends as the catch clause decided.
MarkUncertain(w) ==
  LET r == rid[w] IN
  /\ pc[w] = "failing"
  /\ \/ UNCHANGED res
     \/ /\ res[r] = "DISPATCHED"
        /\ res' = [res EXCEPT ![r] = "UNCERTAIN"]
  /\ Goto(w, "idle")
  /\ UNCHANGED <<turn, ledger, usage, counters, rid, outcome, history>>

\* The process dies, or a call of reserve, dispatch or release throws.  A
\* commit whose answer is lost is the step followed by this one.
Crash(w) ==
  /\ pc[w] # "idle"
  /\ Finish(w, "none")
  /\ UNCHANGED <<turn, ledger, res, usage, counters, rid, history>>

-----------------------------------------------------------------------------
(* The repository's other transactions and the turn. *)

\* settleUncertain: the provider's evidence says what was consumed.
SettleUncertain(r) ==
  /\ res[r] = "UNCERTAIN" /\ UsageFits(r, spent[r])
  /\ heldCalls >= 1 /\ heldCost >= Request[r]
  /\ Charge(r, spent[r])
  /\ UNCHANGED <<turn, ledger, runner, history>>

\* Mutant of ReleaseReserved: everything still open is released.
ReleaseOpen ==
  /\ res' = [r \in Ids |-> IF r \in Open THEN "RELEASED" ELSE res[r]]
  /\ heldCalls' = heldCalls - Cardinality(Open)
  /\ heldCost' = heldCost - CostOf(Open)

ReleaseReserved ==
  /\ res' = [r \in Ids |-> IF r \in Reserved THEN "RELEASED" ELSE res[r]]
  /\ heldCalls' = heldCalls - Cardinality(Reserved)
  /\ heldCost' = heldCost - CostOf(Reserved)

Cancel ==
  /\ ledger = "OPEN"
  /\ ReleaseReserved
  /\ ledger' = "CANCELLED"
  /\ UNCHANGED <<turn, usage, usedCalls, usedCost, runner, history>>

\* The turn reaches COMPLETED, FAILED or CANCELLED.
TurnEnds ==
  /\ turn = "OPEN"
  /\ turn' = "TERMINAL"
  /\ UNCHANGED <<ledger, res, usage, counters, runner, history>>

\* reconcileTerminal throws while the turn is open.
ReconcileTerminal ==
  /\ turn = "TERMINAL"
  /\ ReleaseReserved
  /\ reconciled' = TRUE
  /\ UNCHANGED <<turn, ledger, usage, usedCalls, usedCost, runner, executed, repeated, spent>>

RunStage(w) ==
  \/ \E r \in Ids : ReserveExisting(w, r) \/ ReserveNew(w, r) \/ ReserveRefused(w, r)
  \/ Dispatch(w) \/ DispatchConflict(w) \/ Release(w)
  \/ Execute(w) \/ Resolves(w) \/ Rejects(w)
  \/ Settle(w) \/ SettleFails(w) \/ MarkUncertain(w)
  \/ Crash(w)

Next ==
  \/ \E w \in Runners : RunStage(w)
  \/ \E r \in Ids : SettleUncertain(r)
  \/ Cancel
  \/ TurnEnds
  \/ ReconcileTerminal

Spec == Init /\ [][Next]_vars

-----------------------------------------------------------------------------
TypeOK ==
  /\ turn \in {"OPEN", "TERMINAL"} /\ ledger \in {"OPEN", "CANCELLED"}
  /\ res \in [Ids -> ReservationStatuses]
  /\ usage \in [Ids -> Nat] /\ spent \in [Ids -> Nat]
  /\ heldCalls \in Nat /\ heldCost \in Int /\ usedCalls \in Nat /\ usedCost \in Nat
  /\ pc \in [Runners -> Steps]
  /\ rid \in [Runners -> Ids]
  /\ outcome \in [Runners -> Outcomes]
  /\ executed \subseteq Ids /\ repeated \subseteq executed
  /\ reconciled \in BOOLEAN

\* The four counters are exactly what the reservations say: holds are the open
\* reservations' amounts, used is what the settled ones reported.  A release
\* or a settlement applied twice, or to the wrong status, breaks it.
CountersMatchReservations ==
  /\ heldCalls = Cardinality(Open)
  /\ usedCalls = Cardinality(Settled)
  /\ heldCost = CostOf(Open)
  /\ usedCost = Total(usage, Settled)

\* Concurrent stages, attempts and redeliveries together never hold and use
\* more than the ledger allows.
NoOverspend ==
  /\ usedCalls + heldCalls <= MaxCalls
  /\ usedCost + heldCost <= MaxCost

\* A stage is executed at most once per reservation id, whatever runs it,
\* however often, and whoever crashes.
ExecutedOnce == repeated = {}

\* What a provider may have consumed is never given back: an executed
\* reservation stays held until it is settled at what was really consumed.
SpendIsAccounted ==
  \A r \in executed :
    \/ res[r] \in {"DISPATCHED", "UNCERTAIN"}
    \/ res[r] = "SETTLED" /\ usage[r] = spent[r]

\* Once a terminal turn was reconciled, or the ledger cancelled, nothing is
\* merely reserved and nothing ever will be.
NothingLeftReserved == (reconciled \/ ledger = "CANCELLED") => Reserved = {}

\* The ledger can be believed: its counters are the reservations', together they stay
\* within the limits, and what a finished turn has not used is free again.
LedgerIsSound == CountersMatchReservations /\ NoOverspend /\ NothingLeftReserved

\* How a run ended is what the reservation shows: a stage that returned a value
\* was executed and charged, a fallback's hold is kept, and a runner told that
\* the stage was already dispatched was told the truth.
OutcomeIsJustified ==
  \A w \in Runners : pc[w] = "idle" =>
    /\ outcome[w] = "value" => rid[w] \in executed /\ res[rid[w]] = "SETTLED"
    /\ outcome[w] = "fallback" => rid[w] \in executed /\ res[rid[w]] # "RELEASED"
    /\ outcome[w] = "duplicate" => res[rid[w]] \in {"DISPATCHED", "UNCERTAIN", "SETTLED"}

\* What a stage did, what it is charged and what its caller is told are one story,
\* whatever crashed or was lost on the way.
StagesAreAccounted == ExecutedOnce /\ SpendIsAccounted /\ OutcomeIsJustified

\* A reservation's status only moves forward along the documented lifecycle.
Lifecycle ==
  {<<"NONE", "RESERVED">>, <<"RESERVED", "DISPATCHED">>, <<"RESERVED", "RELEASED">>,
   <<"DISPATCHED", "SETTLED">>, <<"DISPATCHED", "UNCERTAIN">>, <<"UNCERTAIN", "SETTLED">>}

FollowsLifecycle ==
  [][\A r \in Ids : res'[r] # res[r] => <<res[r], res'[r]>> \in Lifecycle]_vars
=============================================================================
