----------------------------- MODULE MCAuditExport -----------------------------
(* One export, two worker slots, one handler run at a time. *)
EXTENDS AuditExport, TLC

CONSTANTS w1, w2, h1, nobody, ghost

MCWorkers == {w1, w2}
MCHandlers == {h1}

\* Idle slots are alike: the first of them takes the job.
IdleSlotsAreAlike ==
  task'[w2].at # "idle" /\ task[w2].at = "idle" => task[w1].at # "idle"

\* The second mishap strikes while a worker goes on that lost its lock: that worker,
\* or the maintenance beside it.
SecondWhenOvertaken ==
  faults = 1 /\ faults' = 2 =>
    \E w \in Workers : /\ task[w].at # "idle" /\ bull.owner # w
                       /\ task'[w] # task[w] \/ maint' # maint
=============================================================================
