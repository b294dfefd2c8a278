--------------------------- MODULE AuditExportProofs ---------------------------
(***************************************************************************)
(* A ready export keeps its archive, whole, until it is due; maintenance   *)
(* spares the export that is being built; rows and job keep the promise of *)
(* AuditExportPromise: for any number of workers, handlers and mishaps.    *)
(***************************************************************************)
EXTENDS AuditExport, TLAPS

-----------------------------------------------------------------------------
(* The invariant *)

Exports == [status : {"NONE", "QUEUED", "PROCESSING", "READY", "FAILED", "EXPIRED", "GONE"},
            token : Nat, lease : {"none", "live", "lapsed", "stale"}, object : Nat, due : BOOLEAN]
Maints == [at : {"idle", "dropSelected", "listOthers", "dropOthers", "markExpired",
                 "askOrphans", "listOrphans", "recheck", "askAgain", "dropOrphans", "findDead",
                 "failQueued", "askBull", "failStale", "deleteRow"},
           status : {"NONE", "PROCESSING"} \cup Terminal,
           token : Nat, object : Nat, listed : SUBSET Nat]

Done == {"READY", "FAILED", "EXPIRED", "GONE"}

\* A processing export has a token, a ready one an object; an active one is neither
\* due nor has its window been cut, and both its rows are open.
ExportInv ==
  /\ export \in Exports
  /\ export.status = "PROCESSING" <=> export.token # 0
  /\ export.status = "READY" <=> export.object # 0
  /\ export.due \/ cut => export.status \in Done
  /\ partial # {} => cut
  /\ export.status \in Active => job \in {"QUEUED", "ACTIVE"}
  /\ export.status = "NONE" => job = "NONE"

BullInv ==
  /\ bull.state = "RUNNING" <=> bull.owner # Nobody
  /\ bull.state \in {"ABSENT", "WAITING", "RUNNING"} => bull.made < MaxAttempts

\* An object that its worker may remove is not the selected one, and the object of the
\* attempt that holds the row is stored once it was written.
WorkerInv(w) ==
  /\ task[w].at \in {"idle", "reading", "claiming"} => task[w].token = 0
  /\ task[w].at \in Running => task[w].token # 0
  /\ task[w].maySelect => task[w].at \in {"reconciling", "failing", "delay", "return", "throw"}
  /\ task[w].at \in Running /\ ~task[w].maySelect => export.object # task[w].token
  /\ task[w].at \in {"rechecking", "marking"} /\ Holds(w) => task[w].token \in objects

\* No two attempts have the same token.
TokensDiffer ==
  \A w, v \in Workers : task[w].token # 0 /\ task[w].token = task[v].token => w = v

\* What the maintenance run read still holds where it acts on it: the export is due;
\* it is over, or, once the row was read again, its present object is protected or newer
\* than the listing; no worker that holds the job has the token.
MaintInv ==
  /\ maint \in Maints
  /\ maint.at \in {"dropSelected", "listOthers", "dropOthers", "markExpired"} => export.due
  /\ maint.at \in {"askOrphans", "listOrphans", "recheck", "askAgain", "dropOrphans"} =>
       /\ maint.status \in Terminal \cup {"PROCESSING"}
       /\ maint.status \in Terminal => export.status \in Terminal \cup {"GONE"}
  /\ maint.at \in {"askAgain", "dropOrphans"} /\ maint.status = "PROCESSING" =>
       /\ export.token \in maint.listed => export.token = maint.token
       /\ export.object \in maint.listed => export.object = maint.token
  /\ maint.at \in {"askBull", "failStale"} => maint.token # 0
  /\ maint.at = "failStale" => \A w \in Workers : bull.owner = w => task[w].token # maint.token

IInv ==
  /\ TypeOK /\ ExportInv /\ BullInv
  /\ (\A w \in Workers : WorkerInv(w)) /\ TokensDiffer
  /\ MaintInv /\ SelectedIsSound

-----------------------------------------------------------------------------
(* Types, apart from the bounds on tokens *)

Steps == Running \cup {"idle", "reading", "claiming", "return", "throw", "delay"}
Errors == {"none", "lost", "retry", "final"}
Tasks == [at : Steps, token : Nat, made : 0 .. MaxAttempts, seen : Nat,
          stored : BOOLEAN, maySelect : BOOLEAN, error : Errors]
Bulls == [state : {"ABSENT", "WAITING", "RUNNING", "COMPLETED", "FAILED"},
          made : 0 .. MaxAttempts, stalls : 0 .. MaxStalled,
          owner : Workers \cup {Nobody, Ghost}]

\* What only requests, handlers, the job row and the count of mishaps have to do with.
RestType ==
  /\ job \in {"NONE", "QUEUED", "ACTIVE", "SUCCEEDED", "FAILED"}
  /\ request \in {"absent", "queued", "done", "dead", "abandoned"}
  /\ handler \in [Handlers -> {"idle", "adding"}]
  /\ cut \in BOOLEAN /\ faults \in 0 .. MaxFaults

TaskType == task \in [Workers -> Tasks]
BullType == bull \in Bulls

\* Tokens are those that were issued.
Bounds ==
  /\ issued \in Nat
  /\ export.token <= issued /\ export.object <= issued
  /\ \A w \in Workers : task[w].token <= issued /\ task[w].seen <= issued
  /\ objects \subseteq Tokens /\ partial \subseteq Tokens
  /\ maint.token <= issued /\ maint.object <= issued /\ maint.listed \subseteq Tokens

LEMMA TypesApart ==
  TypeOK /\ ExportInv /\ MaintInv => TaskType /\ BullType /\ RestType /\ Bounds
  <1> SUFFICES ASSUME TypeOK, ExportInv, MaintInv
               PROVE  TaskType /\ BullType /\ RestType /\ Bounds
    OBVIOUS
  <1>1. issued \in Nat /\ Tokens \subseteq Nat
    BY DEF TypeOK, Tokens
  <1>2. TaskType
    BY <1>1 DEF TypeOK, TaskType, Tasks, Steps, Errors, Tokens
  <1>3. \A w \in Workers : task[w].token <= issued /\ task[w].seen <= issued
    BY <1>1 DEF TypeOK, Tokens
  <1>. QED BY <1>1, <1>2, <1>3 DEF TypeOK, BullType, Bulls, RestType, Bounds, Tokens

LEMMA TypesTogether ==
  ASSUME TaskType', BullType', RestType', Bounds', ExportInv', MaintInv'
  PROVE  TypeOK'
  <1>1. \A n \in Nat : n <= issued' => n \in Tokens' \cup {0}
    BY DEF Bounds, Tokens
  <1>2. \A w \in Workers : task'[w] \in [at : Steps, token : Tokens' \cup {0},
          made : 0 .. MaxAttempts, seen : Tokens' \cup {0}, stored : BOOLEAN,
          maySelect : BOOLEAN, error : Errors]
    BY <1>1 DEF TaskType, Tasks, Bounds
  <1>3. /\ export'.token \in Tokens' \cup {0} /\ export'.object \in Tokens' \cup {0}
        /\ maint'.token \in Tokens' \cup {0} /\ maint'.object \in Tokens' \cup {0}
    BY <1>1 DEF Bounds, ExportInv, Exports, MaintInv, Maints
  <1>. QED BY <1>2, <1>3
           DEF TypeOK, TaskType, BullType, RestType, Bounds, Bulls, ExportInv, Exports, MaintInv,
               Maints, Steps, Errors

-----------------------------------------------------------------------------
(* What the parts of an action do *)

\* The row after the step, but for the lease.
Row(status, token, object, due) ==
  /\ export' \in Exports
  /\ export'.status = status /\ export'.token = token /\ export'.object = object
  /\ export'.due = due
SameRow == Row(export.status, export.token, export.object, export.due)

\* A worker's variables after the step; the other workers are not touched.
Task(w, at, token, maySelect) ==
  /\ task' \in [Workers -> Tasks]
  /\ \A v \in Workers : v # w => task'[v] = task[v]
  /\ task'[w].at = at /\ task'[w].token = token /\ task'[w].maySelect = maySelect
SameSeen(w) == task'[w].seen = task[w].seen \/ task'[w].seen = 0

LEMMA RowUntouched ==
  ASSUME ExportInv
  PROVE  UNCHANGED export => SameRow
  BY DEF ExportInv, SameRow, Row

LEMMA RowLeased ==
  ASSUME ExportInv, NEW lease \in {"live", "lapsed", "stale"},
         export' = [export EXCEPT !.lease = lease]
  PROVE  SameRow
  BY DEF ExportInv, SameRow, Row, Exports

LEMMA RowStatus ==
  ASSUME ExportInv, NEW status \in {"QUEUED", "GONE"},
         export' = [export EXCEPT !.status = status]
  PROVE  Row(status, export.token, export.object, export.due)
  BY DEF ExportInv, Row, Exports

LEMMA RowDue ==
  ASSUME ExportInv, export' = [export EXCEPT !.due = TRUE]
  PROVE  Row(export.status, export.token, export.object, TRUE)
  BY DEF ExportInv, Row, Exports

LEMMA RowWithdrawn ==
  ASSUME ExportInv, NEW status \in Terminal,
         export' = [export EXCEPT !.status = status, !.object = 0]
  PROVE  Row(status, export.token, 0, export.due)
  <1>. DEFINE a == [export EXCEPT !.status = status]
  <1>1. a \in Exports /\ a.status = status /\ a.token = export.token /\ a.due = export.due
    BY DEF ExportInv, Exports, Terminal
  <1>2. export' = [a EXCEPT !.object = 0]
    OBVIOUS
  <1>. HIDE DEF a
  <1>. QED BY <1>1, <1>2 DEF Row, Exports

LEMMA RowGiven ==
  ASSUME ExportInv, NEW status \in {"PROCESSING", "QUEUED", "FAILED"}, NEW token \in Nat,
         NEW lease \in {"none", "live"},
         export' = [export EXCEPT !.status = status, !.token = token, !.lease = lease]
  PROVE  Row(status, token, export.object, export.due)
  <1>. DEFINE a == [export EXCEPT !.status = status]
              b == [a EXCEPT !.token = token]
  <1>1. a \in Exports /\ a.status = status /\ a.object = export.object /\ a.due = export.due
    BY DEF ExportInv, Exports
  <1>2. export' = [b EXCEPT !.lease = lease]
    OBVIOUS
  <1>. HIDE DEF a
  <1>3. b \in Exports /\ b.status = status /\ b.token = token /\ b.object = export.object
          /\ b.due = export.due
    BY <1>1 DEF Exports
  <1>. HIDE DEF b
  <1>. QED BY <1>2, <1>3 DEF Row, Exports

LEMMA RowSelected ==
  ASSUME ExportInv, NEW object \in Nat,
         export' = [export EXCEPT !.status = "READY", !.token = 0, !.lease = "none",
                                  !.object = object]
  PROVE  Row("READY", 0, object, export.due)
  <1>. DEFINE a == [export EXCEPT !.status = "READY"]
              b == [a EXCEPT !.token = 0]
              c == [b EXCEPT !.lease = "none"]
  <1>1. a \in Exports /\ a.status = "READY" /\ a.due = export.due
    BY DEF ExportInv, Exports
  <1>2. export' = [c EXCEPT !.object = object]
    OBVIOUS
  <1>. HIDE DEF a
  <1>3. b \in Exports /\ b.status = "READY" /\ b.token = 0 /\ b.due = export.due
    BY <1>1 DEF Exports
  <1>. HIDE DEF b
  <1>4. c \in Exports /\ c.status = "READY" /\ c.token = 0 /\ c.due = export.due
    BY <1>3 DEF Exports
  <1>. HIDE DEF c
  <1>. QED BY <1>2, <1>4 DEF Row, Exports

-----------------------------------------------------------------------------
(* What the parts of an action do to a worker's variables *)

LEMMA TaskGoes ==
  ASSUME TaskType, NEW w \in Workers, NEW step \in Steps,
         task' = [task EXCEPT ![w].at = step]
  PROVE  Task(w, step, task[w].token, task[w].maySelect) /\ SameSeen(w)
  <1>. DEFINE a == [task[w] EXCEPT !.at = step]
  <1>1. task \in [Workers -> Tasks] /\ task' = [task EXCEPT ![w] = a]
    BY DEF TaskType
  <1>2. a \in Tasks /\ a.at = step /\ a.token = task[w].token
          /\ a.maySelect = task[w].maySelect /\ a.seen = task[w].seen
    BY <1>1 DEF Tasks, Steps, Running, Errors
  <1>. HIDE DEF a
  <1>. QED BY <1>1, <1>2 DEF Task, SameSeen

LEMMA TaskFails ==
  ASSUME TaskType, NEW w \in Workers, NEW step \in {"failing", "throw"}, NEW error \in Errors,
         task' = [task EXCEPT ![w].at = step, ![w].error = error]
  PROVE  Task(w, step, task[w].token, task[w].maySelect) /\ SameSeen(w)
  <1>. DEFINE a == [task[w] EXCEPT !.at = step]
              b == [a EXCEPT !.error = error]
  <1>1. task \in [Workers -> Tasks] /\ task' = [task EXCEPT ![w] = b]
    BY DEF TaskType
  <1>2. a \in Tasks /\ a.at = step /\ a.token = task[w].token
          /\ a.maySelect = task[w].maySelect /\ a.seen = task[w].seen
    BY <1>1 DEF Tasks, Steps, Running, Errors
  <1>. HIDE DEF a
  <1>3. b \in Tasks /\ b.at = step /\ b.token = task[w].token
          /\ b.maySelect = task[w].maySelect /\ b.seen = task[w].seen
    BY <1>2 DEF Tasks, Steps, Running, Errors
  <1>. HIDE DEF b
  <1>. QED BY <1>1, <1>3 DEF Task, SameSeen

LEMMA TaskSees ==
  ASSUME TaskType, NEW w \in Workers, NEW n \in Nat,
         task' = [task EXCEPT ![w].at = "claiming", ![w].seen = n]
  PROVE  Task(w, "claiming", task[w].token, task[w].maySelect) /\ task'[w].seen = n
  <1>. DEFINE a == [task[w] EXCEPT !.at = "claiming"]
              b == [a EXCEPT !.seen = n]
  <1>1. task \in [Workers -> Tasks] /\ task' = [task EXCEPT ![w] = b]
    BY DEF TaskType
  <1>2. a \in Tasks /\ a.at = "claiming" /\ a.token = task[w].token
          /\ a.maySelect = task[w].maySelect /\ a.seen = task[w].seen
    BY <1>1 DEF Tasks, Steps, Running, Errors
  <1>. HIDE DEF a
  <1>3. b \in Tasks /\ b.at = "claiming" /\ b.token = task[w].token
          /\ b.maySelect = task[w].maySelect /\ b.seen = n
    BY <1>2 DEF Tasks, Steps, Running, Errors
  <1>. HIDE DEF b
  <1>. QED BY <1>1, <1>3 DEF Task, SameSeen

LEMMA TaskClaims ==
  ASSUME TaskType, NEW w \in Workers, NEW n \in Nat,
         task' = [task EXCEPT ![w].at = "building", ![w].token = n]
  PROVE  Task(w, "building", n, task[w].maySelect) /\ SameSeen(w)
  <1>. DEFINE a == [task[w] EXCEPT !.at = "building"]
              b == [a EXCEPT !.token = n]
  <1>1. task \in [Workers -> Tasks] /\ task' = [task EXCEPT ![w] = b]
    BY DEF TaskType
  <1>2. a \in Tasks /\ a.at = "building" /\ a.token = task[w].token
          /\ a.maySelect = task[w].maySelect /\ a.seen = task[w].seen
    BY <1>1 DEF Tasks, Steps, Running, Errors
  <1>. HIDE DEF a
  <1>3. b \in Tasks /\ b.at = "building" /\ b.token = n
          /\ b.maySelect = task[w].maySelect /\ b.seen = task[w].seen
    BY <1>2 DEF Tasks, Steps, Running, Errors
  <1>. HIDE DEF b
  <1>. QED BY <1>1, <1>3 DEF Task, SameSeen

LEMMA TaskStores ==
  ASSUME TaskType, NEW w \in Workers,
         task' = [task EXCEPT ![w].at = "rechecking", ![w].stored = TRUE]
  PROVE  Task(w, "rechecking", task[w].token, task[w].maySelect) /\ SameSeen(w)
  <1>. DEFINE a == [task[w] EXCEPT !.at = "rechecking"]
              b == [a EXCEPT !.stored = TRUE]
  <1>1. task \in [Workers -> Tasks] /\ task' = [task EXCEPT ![w] = b]
    BY DEF TaskType
  <1>2. a \in Tasks /\ a.at = "rechecking" /\ a.token = task[w].token
          /\ a.maySelect = task[w].maySelect /\ a.seen = task[w].seen
    BY <1>1 DEF Tasks, Steps, Running, Errors
  <1>. HIDE DEF a
  <1>3. b \in Tasks /\ b.at = "rechecking" /\ b.token = task[w].token
          /\ b.maySelect = task[w].maySelect /\ b.seen = task[w].seen
    BY <1>2 DEF Tasks, Steps, Running, Errors
  <1>. HIDE DEF b
  <1>. QED BY <1>1, <1>3 DEF Task, SameSeen

LEMMA TaskMayStore ==
  ASSUME TaskType, NEW w \in Workers,
         task' = [task EXCEPT ![w].at = "failing", ![w].stored = TRUE, ![w].error = "retry"]
  PROVE  Task(w, "failing", task[w].token, task[w].maySelect) /\ SameSeen(w)
  <1>. DEFINE a == [task[w] EXCEPT !.at = "failing"]
              b == [a EXCEPT !.stored = TRUE]
              c == [b EXCEPT !.error = "retry"]
  <1>1. task \in [Workers -> Tasks] /\ task' = [task EXCEPT ![w] = c]
    BY DEF TaskType
  <1>2. a \in Tasks /\ a.at = "failing" /\ a.token = task[w].token
          /\ a.maySelect = task[w].maySelect /\ a.seen = task[w].seen
    BY <1>1 DEF Tasks, Steps, Running, Errors
  <1>. HIDE DEF a
  <1>3. b \in Tasks /\ b.at = "failing" /\ b.token = task[w].token
          /\ b.maySelect = task[w].maySelect /\ b.seen = task[w].seen
    BY <1>2 DEF Tasks, Steps, Running, Errors
  <1>. HIDE DEF b
  <1>4. c \in Tasks /\ c.at = "failing" /\ c.token = task[w].token
          /\ c.maySelect = task[w].maySelect /\ c.seen = task[w].seen
    BY <1>3 DEF Tasks, Steps, Running, Errors
  <1>. HIDE DEF c
  <1>. QED BY <1>1, <1>4 DEF Task, SameSeen

LEMMA TaskMaySelect ==
  ASSUME TaskType, NEW w \in Workers,
         task' = [task EXCEPT ![w].at = "reconciling", ![w].maySelect = TRUE]
  PROVE  Task(w, "reconciling", task[w].token, TRUE) /\ SameSeen(w)
  <1>. DEFINE a == [task[w] EXCEPT !.at = "reconciling"]
              b == [a EXCEPT !.maySelect = TRUE]
  <1>1. task \in [Workers -> Tasks] /\ task' = [task EXCEPT ![w] = b]
    BY DEF TaskType
  <1>2. a \in Tasks /\ a.at = "reconciling" /\ a.token = task[w].token
          /\ a.maySelect = task[w].maySelect /\ a.seen = task[w].seen
    BY <1>1 DEF Tasks, Steps, Running, Errors
  <1>. HIDE DEF a
  <1>3. b \in Tasks /\ b.at = "reconciling" /\ b.token = task[w].token
          /\ b.maySelect = TRUE /\ b.seen = task[w].seen
    BY <1>2 DEF Tasks, Steps, Running, Errors
  <1>. HIDE DEF b
  <1>. QED BY <1>1, <1>3 DEF Task, SameSeen

LEMMA TaskUnselected ==
  ASSUME TaskType, NEW w \in Workers, NEW error \in Errors,
         task' = [task EXCEPT ![w].at = "failing", ![w].error = error, ![w].maySelect = FALSE]
  PROVE  Task(w, "failing", task[w].token, FALSE) /\ SameSeen(w)
  <1>. DEFINE a == [task[w] EXCEPT !.at = "failing"]
              b == [a EXCEPT !.error = error]
              c == [b EXCEPT !.maySelect = FALSE]
  <1>1. task \in [Workers -> Tasks] /\ task' = [task EXCEPT ![w] = c]
    BY DEF TaskType
  <1>2. a \in Tasks /\ a.at = "failing" /\ a.token = task[w].token
          /\ a.maySelect = task[w].maySelect /\ a.seen = task[w].seen
    BY <1>1 DEF Tasks, Steps, Running, Errors
  <1>. HIDE DEF a
  <1>3. b \in Tasks /\ b.at = "failing" /\ b.token = task[w].token
          /\ b.maySelect = task[w].maySelect /\ b.seen = task[w].seen
    BY <1>2 DEF Tasks, Steps, Running, Errors
  <1>. HIDE DEF b
  <1>4. c \in Tasks /\ c.at = "failing" /\ c.token = task[w].token
          /\ c.maySelect = FALSE /\ c.seen = task[w].seen
    BY <1>3 DEF Tasks, Steps, Running, Errors
  <1>. HIDE DEF c
  <1>. QED BY <1>1, <1>4 DEF Task, SameSeen

LEMMA TaskEnds ==
  ASSUME TaskType, NEW w \in Workers, task' = [task EXCEPT ![w] = NoTask]
  PROVE  Task(w, "idle", 0, FALSE) /\ SameSeen(w)
  <1>1. NoTask \in Tasks
    BY AuditAssumption DEF NoTask, Tasks, Steps, Errors
  <1>. QED BY <1>1 DEF TaskType, Task, SameSeen, NoTask

LEMMA TaskStarts ==
  ASSUME TaskType, NEW w \in Workers, NEW made \in 0 .. MaxAttempts,
         task' = [task EXCEPT ![w] = [NoTask EXCEPT !.at = "reading", !.made = made]]
  PROVE  Task(w, "reading", 0, FALSE) /\ SameSeen(w)
  <1>. DEFINE a == [NoTask EXCEPT !.at = "reading"]
              b == [a EXCEPT !.made = made]
  <1>1. /\ NoTask \in Tasks /\ NoTask.token = 0 /\ NoTask.maySelect = FALSE
        /\ NoTask.seen = 0
    BY AuditAssumption DEF NoTask, Tasks, Steps, Errors
  <1>2. task' = [task EXCEPT ![w] = b]
    OBVIOUS
  <1>3. a \in Tasks /\ a.at = "reading" /\ a.token = 0 /\ a.maySelect = FALSE /\ a.seen = 0
    BY <1>1 DEF Tasks, Steps
  <1>. HIDE DEF a
  <1>4. /\ b \in Tasks /\ b.at = "reading" /\ b.token = 0 /\ b.maySelect = FALSE
        /\ b.seen = 0
    BY <1>3 DEF Tasks
  <1>. HIDE DEF b
  <1>. QED BY <1>2, <1>4 DEF TaskType, Task, SameSeen

-----------------------------------------------------------------------------
(* What Bull does to its job *)

\* The job after the step.
Job(state, made, owner) ==
  bull' \in Bulls /\ bull'.state = state /\ bull'.made = made /\ bull'.owner = owner

LEMMA JobWaits ==
  ASSUME BullType, bull' = [bull EXCEPT !.state = "WAITING"]
  PROVE  Job("WAITING", bull.made, bull.owner)
  BY DEF BullType, Bulls, Job

LEMMA JobHaunted ==
  ASSUME BullType, bull' = [bull EXCEPT !.owner = Ghost]
  PROVE  Job(bull.state, bull.made, Ghost)
  BY DEF BullType, Bulls, Job

LEMMA JobFetched ==
  ASSUME BullType, NEW w \in Workers, bull' = [bull EXCEPT !.state = "RUNNING", !.owner = w]
  PROVE  Job("RUNNING", bull.made, w)
  <1>. DEFINE a == [bull EXCEPT !.state = "RUNNING"]
  <1>1. a \in Bulls /\ a.state = "RUNNING" /\ a.made = bull.made
    BY DEF BullType, Bulls
  <1>2. bull' = [a EXCEPT !.owner = w]
    OBVIOUS
  <1>. HIDE DEF a
  <1>. QED BY <1>1, <1>2 DEF Bulls, Job

LEMMA JobHandedBack ==
  ASSUME BullType, NEW state \in {"WAITING", "COMPLETED", "FAILED"},
         NEW made \in 0 .. MaxAttempts,
         bull' = [bull EXCEPT !.state = state, !.made = made, !.owner = Nobody]
  PROVE  Job(state, made, Nobody)
  <1>. DEFINE a == [bull EXCEPT !.state = state]
              b == [a EXCEPT !.made = made]
  <1>1. a \in Bulls /\ a.state = state
    BY DEF BullType, Bulls
  <1>2. bull' = [b EXCEPT !.owner = Nobody]
    OBVIOUS
  <1>. HIDE DEF a
  <1>3. b \in Bulls /\ b.state = state /\ b.made = made
    BY <1>1 DEF Bulls
  <1>. HIDE DEF b
  <1>. QED BY <1>2, <1>3 DEF Bulls, Job

LEMMA JobStalled ==
  ASSUME BullType,
         bull' = [bull EXCEPT !.owner = Nobody,
                              !.state = IF bull.stalls < MaxStalled THEN "WAITING" ELSE "FAILED",
                              !.stalls = IF @ < MaxStalled THEN @ + 1 ELSE @]
  PROVE  Job(IF bull.stalls < MaxStalled THEN "WAITING" ELSE "FAILED", bull.made, Nobody)
  <1>. DEFINE x == IF bull.stalls < MaxStalled THEN "WAITING" ELSE "FAILED"
              n == IF bull.stalls < MaxStalled THEN bull.stalls + 1 ELSE bull.stalls
              a == [bull EXCEPT !.owner = Nobody]
              b == [a EXCEPT !.state = x]
  <1>1. a \in Bulls /\ a.owner = Nobody /\ a.made = bull.made /\ a.stalls = bull.stalls
    BY DEF BullType, Bulls
  <1>2. bull' = [b EXCEPT !.stalls = IF b.stalls < MaxStalled THEN b.stalls + 1 ELSE b.stalls]
    OBVIOUS
  <1>3. x \in {"WAITING", "FAILED"} /\ n \in 0 .. MaxStalled
    BY AuditAssumption DEF BullType, Bulls
  <1>. HIDE DEF a, x
  <1>4. b \in Bulls /\ b.owner = Nobody /\ b.made = bull.made /\ b.state = x
          /\ b.stalls = bull.stalls
    BY <1>1, <1>3 DEF Bulls
  <1>. HIDE DEF b
  <1>5. bull' = [b EXCEPT !.stalls = n]
    BY <1>2, <1>4
  <1>. HIDE DEF n
  <1>6. Job(x, bull.made, Nobody)
    BY <1>3, <1>4, <1>5 DEF Bulls, Job
  <1>. QED BY <1>6 DEF x

-----------------------------------------------------------------------------
(* What a worker's step does to the rest *)

\* The row: nothing, a claim, the selection of the archive, or a verdict.
Claimed ==
  /\ export.status \in Active /\ Row("PROCESSING", issued + 1, export.object, export.due)
  /\ job' = "ACTIVE" /\ issued' = issued + 1
Selected(w) ==
  /\ Holds(w) /\ task[w].token \in objects
  /\ Row("READY", 0, task[w].token, export.due)
  /\ job' = "SUCCEEDED" /\ issued' = issued
Recorded(w) ==
  /\ Holds(w) /\ issued' = issued
  /\ \/ Row("QUEUED", 0, export.object, export.due) /\ job' = "QUEUED"
     \/ Row("FAILED", 0, export.object, export.due) /\ job' = "FAILED"
SameRows == SameRow /\ UNCHANGED <<job, issued>>
RowMoves(w) == SameRows \/ Claimed \/ Selected(w) \/ Recorded(w)

\* The storage: its own object comes or goes, unless it is the selected one.
OwnObject(w) ==
  /\ SameRows
  /\ task[w].token # 0 /\ task[w].token # export.object
  /\ objects \ {task[w].token} \subseteq objects'
  /\ objects' \subseteq objects \cup {task[w].token}
  /\ partial' = partial \/ (cut /\ partial' = partial \cup {task[w].token})
StoreMoves(w) == UNCHANGED <<objects, partial>> \/ OwnObject(w)

\* The job: it is this worker's when it has just fetched it, and has no token yet.
BullMoves(w) ==
  /\ BullType' /\ BullInv'
  /\ bull'.owner \in {bull.owner, Nobody, Ghost} \/ (bull'.owner = w /\ task'[w].token = 0)

\* The worker's own variables.
TaskMoves(w) ==
  /\ TaskType' /\ \A v \in Workers : v # w => task'[v] = task[v]
  /\ \/ task'[w].token \in {0, task[w].token}
     \/ task'[w].token = issued + 1 /\ issued' = issued + 1
  /\ task'[w].seen <= issued'

Moves(w) ==
  /\ TaskMoves(w) /\ RowMoves(w) /\ StoreMoves(w) /\ BullMoves(w)
  /\ RestType' /\ UNCHANGED <<cut, maint>>
  /\ WorkerInv(w)'

LEMMA MovesKeepBounds ==
  ASSUME IInv, NEW w \in Workers, Moves(w)
  PROVE  Bounds'
  <1>. USE DEF IInv
  <1>1. TaskType /\ Bounds
    BY TypesApart
  <1>2. issued' \in Nat /\ issued <= issued' /\ Tokens \subseteq Tokens'
    BY <1>1 DEF Moves, RowMoves, SameRows, Claimed, Selected, Recorded, Bounds, Tokens
  <1>3. export'.token <= issued' /\ export'.object <= issued'
    BY <1>1, <1>2 DEF Moves, RowMoves, SameRows, SameRow, Claimed, Selected, Recorded, Row, Bounds,
                      TaskType, Tasks, ExportInv, Exports
  <1>4. task[w].token # 0 => task[w].token \in Tokens
    BY <1>1 DEF Bounds, Tokens, TaskType, Tasks
  <1>5. objects' \subseteq Tokens' /\ partial' \subseteq Tokens'
    BY <1>1, <1>2, <1>4 DEF Moves, StoreMoves, OwnObject, Bounds
  <1>6. maint'.token <= issued' /\ maint'.object <= issued' /\ maint'.listed \subseteq Tokens'
    BY <1>1, <1>2 DEF Moves, Bounds, MaintInv, Maints
  <1>7. task'[w].token <= issued' /\ task'[w].seen <= issued'
    BY <1>1, <1>2 DEF Moves, TaskMoves, Bounds, TaskType, Tasks
  <1>8. ASSUME NEW v \in Workers, v # w
        PROVE  task'[v].token <= issued' /\ task'[v].seen <= issued'
    BY <1>1, <1>2, <1>8 DEF Moves, TaskMoves, Bounds, TaskType, Tasks
  <1>. QED BY <1>2, <1>3, <1>5, <1>6, <1>7, <1>8 DEF Bounds

LEMMA MovesKeepTokens ==
  ASSUME IInv, NEW w \in Workers, Moves(w)
  PROVE  TokensDiffer'
  <1>. USE DEF IInv
  <1>1. TaskType /\ Bounds
    BY TypesApart
  <1>2. ASSUME NEW v \in Workers, v # w, task'[w].token # 0
        PROVE  task'[w].token # task'[v].token
    <2>1. task'[v] = task[v] /\ task[v].token <= issued /\ task[v].token \in Nat /\ issued \in Nat
      BY <1>1, <1>2 DEF Moves, TaskMoves, Bounds, TaskType, Tasks
    <2>. QED BY <1>2, <2>1 DEF Moves, TaskMoves, TokensDiffer
  <1>3. ASSUME NEW v \in Workers, NEW u \in Workers, v # w, u # w
        PROVE  task'[u].token # 0 /\ task'[u].token = task'[v].token => u = v
    BY <1>3 DEF Moves, TaskMoves, TokensDiffer
  <1>. QED BY <1>2, <1>3 DEF TokensDiffer

LEMMA MovesKeepOthers ==
  ASSUME IInv, NEW w \in Workers, Moves(w), NEW v \in Workers, v # w
  PROVE  WorkerInv(v)'
  <1>. USE DEF IInv
  <1>1. TaskType /\ Bounds
    BY TypesApart
  <1>2. task'[v] = task[v] /\ task[v].token <= issued /\ task[v].token \in Nat /\ issued \in Nat
    BY <1>1 DEF Moves, TaskMoves, Bounds, TaskType, Tasks
  <1>3. task[v].token # 0 => task[v].token # task[w].token
    BY DEF TokensDiffer
  <1>4. export'.object \in {export.object, task[w].token}
    BY DEF Moves, RowMoves, SameRows, SameRow, Claimed, Selected, Recorded, Row
  <1>5. export'.status = "PROCESSING" =>
          \/ export.status = "PROCESSING" /\ export'.token = export.token
          \/ export'.token = issued + 1
    BY DEF Moves, RowMoves, SameRows, SameRow, Claimed, Selected, Recorded, Row
  <1>6. task[v].token # 0 /\ task[v].token \in objects => task[v].token \in objects'
    BY <1>3 DEF Moves, StoreMoves, OwnObject
  <1>. QED BY <1>2, <1>3, <1>4, <1>5, <1>6 DEF WorkerInv, Holds, Running

LEMMA MovesKeepRow ==
  ASSUME IInv, NEW w \in Workers, Moves(w)
  PROVE  ExportInv'
  <1>. USE DEF IInv
  <1>1. TaskType /\ Bounds
    BY TypesApart
  <1>2. cut' = cut /\ (partial' # {} => cut')
    BY DEF Moves, StoreMoves, OwnObject, ExportInv
  <1>3. CASE SameRows
    BY <1>2, <1>3 DEF SameRows, SameRow, Row, ExportInv
  <1>4. CASE Claimed
    BY <1>1, <1>2, <1>4 DEF Claimed, Row, ExportInv, Active, Done, Bounds
  <1>5. CASE Selected(w)
    BY <1>1, <1>2, <1>5 DEF Selected, Holds, Row, ExportInv, Active, Done
  <1>6. CASE Recorded(w)
    BY <1>1, <1>2, <1>6 DEF Recorded, Holds, Row, ExportInv, Active, Done
  <1>. QED BY <1>3, <1>4, <1>5, <1>6 DEF Moves, RowMoves

LEMMA MovesKeepArchive ==
  ASSUME IInv, NEW w \in Workers, Moves(w)
  PROVE  SelectedIsSound'
  <1>. USE DEF IInv
  <1>1. CASE SameRows
    BY <1>1 DEF SameRows, SameRow, Row, Moves, StoreMoves, OwnObject, SelectedIsSound,
                SelectedIsStored, SelectedIsWhole
  <1>2. CASE Claimed
    BY <1>2 DEF Claimed, Row, SelectedIsSound, SelectedIsStored, SelectedIsWhole
  <1>3. CASE Selected(w)
    <2>1. partial = {}
      BY <1>3 DEF Selected, Holds, ExportInv, Done
    <2>2. UNCHANGED <<objects, partial>>
      BY <1>3 DEF Selected, Holds, Row, Moves, StoreMoves, OwnObject, SameRows, SameRow
    <2>. QED BY <1>3, <2>1, <2>2 DEF Selected, Row, SelectedIsSound, SelectedIsStored,
                                     SelectedIsWhole
  <1>4. CASE Recorded(w)
    BY <1>4 DEF Recorded, Row, SelectedIsSound, SelectedIsStored, SelectedIsWhole
  <1>. QED BY <1>1, <1>2, <1>3, <1>4 DEF Moves, RowMoves

LEMMA MovesKeepMaintenance ==
  ASSUME IInv, NEW w \in Workers, Moves(w)
  PROVE  MaintInv'
  <1>. USE DEF IInv
  <1>1. TaskType /\ Bounds
    BY TypesApart
  <1>2. maint' = maint /\ export'.due = export.due
    BY DEF Moves, RowMoves, SameRows, SameRow, Claimed, Selected, Recorded, Row
  <1>3. export.status \in Terminal \cup {"GONE"} => export'.status = export.status
    BY DEF Moves, RowMoves, SameRows, SameRow, Claimed, Selected, Recorded, Row, Holds, Terminal,
           Active
  <1>4. 0 \notin maint.listed /\ issued + 1 \notin maint.listed /\ maint.token <= issued
    BY <1>1 DEF Bounds, Tokens
  <1>5. export'.token \in {export.token, 0, issued + 1}
    BY DEF Moves, RowMoves, SameRows, SameRow, Claimed, Selected, Recorded, Row
  <1>6. export'.object \in {export.object, export.token}
    BY DEF Moves, RowMoves, SameRows, SameRow, Claimed, Selected, Recorded, Row, Holds
  <1>7. ASSUME maint.at = "failStale", NEW v \in Workers, bull'.owner = v
        PROVE  task'[v].token # maint.token
    <2>1. bull.owner = v \/ (v = w /\ task'[v].token = 0)
      BY <1>7, AuditAssumption DEF Moves, BullMoves
    <2>2. task'[v].token \in {task[v].token, 0, issued + 1}
      BY DEF Moves, TaskMoves
    <2>3. maint.token # 0 /\ maint.token # issued + 1
      BY <1>1, <1>4, <1>7 DEF MaintInv, Maints, Bounds
    <2>. QED BY <1>7, <2>1, <2>2, <2>3 DEF MaintInv
  <1>. QED BY <1>2, <1>3, <1>4, <1>5, <1>6, <1>7 DEF MaintInv

LEMMA MovesAreSound ==
  ASSUME IInv, NEW w \in Workers, Moves(w)
  PROVE  IInv'
  <1>1. Bounds' /\ TokensDiffer' /\ ExportInv' /\ SelectedIsSound' /\ MaintInv'
    BY MovesKeepBounds, MovesKeepTokens, MovesKeepRow, MovesKeepArchive, MovesKeepMaintenance
  <1>2. TypeOK' /\ BullInv'
    BY <1>1, TypesTogether DEF Moves, TaskMoves, BullMoves
  <1>3. \A v \in Workers : WorkerInv(v)'
    BY MovesKeepOthers DEF Moves
  <1>. QED BY <1>1, <1>2, <1>3 DEF IInv

-----------------------------------------------------------------------------
(* Every step of a worker moves so *)

Mishap == UNCHANGED faults \/ Fault
Around == UNCHANGED <<outbox, cut, maint>> /\ Mishap

LEMMA RestStays ==
  ASSUME RestType, Around, job' \in {"NONE", "QUEUED", "ACTIVE", "SUCCEEDED", "FAILED"}
  PROVE  RestType'
  BY AuditAssumption DEF RestType, Around, Mishap, Fault, outbox

\* The lock stays where it is.
LEMMA JobStays ==
  ASSUME IInv, NEW w \in Workers, UNCHANGED bull
  PROVE  BullMoves(w)
  <1>1. BullType
    BY TypesApart DEF IInv
  <1>. QED BY <1>1 DEF IInv, BullMoves, BullType, BullInv

\* The worker goes on with the same token, or ends.
LEMMA TaskGoesOn ==
  ASSUME IInv, NEW w \in Workers, NEW at, NEW token \in {0, task[w].token}, NEW maySelect,
         Task(w, at, token, maySelect), SameSeen(w), issued' = issued
  PROVE  TaskMoves(w)
  <1>1. TaskType /\ Bounds
    BY TypesApart DEF IInv
  <1>. QED BY <1>1 DEF Task, SameSeen, TaskMoves, TaskType, Tasks, Bounds

\* A step that leaves the rows and the storage alone, on which the worker stays at work
\* or stops with the job still in its hands.
LEMMA AlongIsMove ==
  ASSUME IInv, NEW w \in Workers, NEW at, NEW maySelect, at # "idle", at # "reading",
         Task(w, at, task[w].token, maySelect), SameSeen(w),
         SameRows, UNCHANGED <<objects, partial, bull>>, Around,
         at = "claiming" => task[w].at = "reading",
         at \in Running => task[w].at \in Running,
         maySelect => at \in {"reconciling", "failing", "delay", "return", "throw"},
         at \in Running /\ ~maySelect => export.object # task[w].token,
         at \in {"rechecking", "marking"} /\ Holds(w) => task[w].token \in objects
  PROVE  Moves(w)
  <1>1. RestType
    BY TypesApart DEF IInv
  <1>2. RestType'
    BY <1>1, RestStays DEF SameRows, RestType
  <1>3. TaskMoves(w) /\ BullMoves(w)
    BY TaskGoesOn, JobStays DEF SameRows
  <1>4. WorkerInv(w)
    BY DEF IInv
  <1>5. WorkerInv(w)'
    BY <1>4 DEF WorkerInv, Task, SameRows, SameRow, Row, Holds, Running
  <1>. QED BY <1>2, <1>3, <1>5 DEF Moves, RowMoves, StoreMoves, Around

LEMMA ReadForClaimMoves ==
  ASSUME IInv, NEW w \in Workers, ReadForClaim(w)
  PROVE  Moves(w)
  <1>1. TaskType /\ Bounds /\ RestType /\ ExportInv /\ WorkerInv(w)
    BY TypesApart DEF IInv
  <1>2. SameRows /\ UNCHANGED <<objects, partial, bull>> /\ Around
    BY <1>1, RowUntouched DEF ReadForClaim, Elsewhere, SameRows, Around, Mishap
  <1>3. CASE export.status = "PROCESSING" /\ task' = [task EXCEPT ![w].at = "claiming",
                                                                 ![w].seen = export.token]
    <2>1. Task(w, "claiming", task[w].token, task[w].maySelect) /\ task'[w].seen = export.token
      BY <1>1, <1>3, TaskSees DEF ExportInv, Exports
    <2>2. TaskMoves(w)
      BY <1>1, <1>2, <2>1 DEF Task, TaskMoves, TaskType, SameRows, Bounds
    <2>3. BullMoves(w) /\ RestType'
      BY <1>1, <1>2, JobStays, RestStays DEF SameRows, RestType
    <2>4. WorkerInv(w)'
      BY <1>1, <1>2, <2>1 DEF WorkerInv, Task, SameRows, SameRow, Row, Holds, Running, ReadForClaim
    <2>. QED BY <1>2, <2>2, <2>3, <2>4 DEF Moves, RowMoves, StoreMoves, Around
  <1>4. CASE \E step \in {"claiming", "delay", "return"} : task' = [task EXCEPT ![w].at = step]
    <2>1. PICK step \in {"claiming", "delay", "return"} : task' = [task EXCEPT ![w].at = step]
      BY <1>4
    <2>2. Task(w, step, task[w].token, task[w].maySelect) /\ SameSeen(w)
      BY <1>1, <2>1, TaskGoes DEF Steps
    <2>3. ~task[w].maySelect /\ task[w].at = "reading"
      BY <1>1 DEF ReadForClaim, WorkerInv, TaskType, Tasks
    <2>. QED BY <1>2, <2>2, <2>3, AlongIsMove DEF Running
  <1>. QED BY <1>3, <1>4 DEF ReadForClaim, Goto

\* A claim of the row gives it a token that nobody has.
LEMMA TakeOverClaims ==
  ASSUME IInv, TakeOver, export.status \in Active
  PROVE  Claimed
  <1>1. issued + 1 \in Nat /\ ExportInv
    BY TypesApart DEF IInv, Bounds
  <1>2. Row("PROCESSING", issued + 1, export.object, export.due)
    BY <1>1, RowGiven DEF TakeOver
  <1>. QED BY <1>2 DEF TakeOver, Claimed

LEMMA ClaimMoves ==
  ASSUME IInv, NEW w \in Workers, Claim(w)
  PROVE  Moves(w)
  <1>1. TaskType /\ Bounds /\ RestType /\ ExportInv /\ WorkerInv(w)
    BY TypesApart DEF IInv
  <1>2. UNCHANGED <<objects, partial, bull>> /\ Around /\ task[w].at = "claiming"
    BY DEF Claim, Around, Mishap
  <1>3. BullMoves(w)
    BY <1>2, JobStays
  <1>4. CASE Claimable(w)
    <2>1. Claimed
      BY <1>4, TakeOverClaims DEF Claim, Claimable, Active
    <2>2. task' = [task EXCEPT ![w].at = "building", ![w].token = issued + 1]
      BY <1>4 DEF Claim
    <2>0. issued + 1 \in Nat
      BY <1>1 DEF Bounds
    <2>3. Task(w, "building", issued + 1, task[w].maySelect) /\ SameSeen(w)
      BY <1>1, <2>0, <2>2, TaskClaims
    <2>4. TaskMoves(w)
      BY <1>1, <2>1, <2>3 DEF Task, SameSeen, TaskMoves, TaskType, Tasks, Bounds, Claimed
    <2>5. RestType'
      BY <1>1, <1>2, <2>1, RestStays DEF Claimed
    <2>6. issued + 1 # 0 /\ export.object # issued + 1 /\ ~task[w].maySelect
      BY <1>1, <1>2 DEF Bounds, ExportInv, Exports, WorkerInv, TaskType, Tasks
    <2>7. WorkerInv(w)'
      BY <2>1, <2>3, <2>6 DEF WorkerInv, Task, Claimed, Row, Running
    <2>. QED BY <1>2, <1>3, <2>1, <2>4, <2>5, <2>7 DEF Moves, RowMoves, StoreMoves, Around
  <1>5. CASE ~Claimable(w)
    <2>1. Task(w, "return", task[w].token, task[w].maySelect) /\ SameSeen(w)
      BY <1>1, <1>5, TaskGoes DEF Claim, Goto, Steps
    <2>2. SameRows
      BY <1>1, <1>5, RowUntouched DEF Claim, SameRows
    <2>. QED BY <1>2, <2>1, <2>2, AlongIsMove DEF Running
  <1>. QED BY <1>4, <1>5

LEMMA ClaimFailsMoves ==
  ASSUME IInv, NEW w \in Workers, ClaimFails(w)
  PROVE  Moves(w)
  <1>1. TaskType /\ Bounds /\ RestType /\ ExportInv /\ WorkerInv(w)
    BY TypesApart DEF IInv
  <1>2. /\ UNCHANGED <<objects, partial, bull>> /\ Around
        /\ task[w].at \in {"reading", "claiming"}
    BY DEF ClaimFails, Around, Mishap
  <1>3. Task(w, "throw", task[w].token, task[w].maySelect) /\ SameSeen(w)
    BY <1>1, TaskGoes DEF ClaimFails, Goto, Steps
  <1>4. CASE TakeOver /\ Claimable(w)
    <2>1. Claimed
      BY <1>4, TakeOverClaims DEF Claimable, Active
    <2>2. TaskMoves(w)
      BY <1>1, <1>3, <2>1 DEF Task, SameSeen, TaskMoves, TaskType, Tasks, Bounds, Claimed
    <2>3. RestType' /\ BullMoves(w)
      BY <1>1, <1>2, <2>1, RestStays, JobStays DEF Claimed
    <2>4. WorkerInv(w)'
      BY <1>1, <1>3 DEF WorkerInv, Task, Running
    <2>. QED BY <1>2, <2>1, <2>2, <2>3, <2>4 DEF Moves, RowMoves, StoreMoves, Around
  <1>5. CASE UNCHANGED <<export, job, issued>>
    <2>1. SameRows
      BY <1>1, <1>5, RowUntouched DEF SameRows
    <2>. QED BY <1>2, <1>3, <2>1, AlongIsMove DEF Running
  <1>. QED BY <1>4, <1>5 DEF ClaimFails

LEMMA BuildMoves ==
  ASSUME IInv, NEW w \in Workers, Build(w)
  PROVE  Moves(w)
  <1>1. TaskType /\ Bounds /\ RestType /\ ExportInv /\ WorkerInv(w)
    BY TypesApart DEF IInv
  <1>2. /\ UNCHANGED <<objects, bull>> /\ Around /\ SameRows
        /\ task[w].at = "building" /\ ~task[w].maySelect
        /\ export.object # task[w].token /\ task[w].token # 0
    BY <1>1, RowUntouched
       DEF Build, Around, Mishap, SameRows, WorkerInv, Running, TaskType, Tasks
  <1>3. \E step \in {"checking", "failing"} :
          Task(w, step, task[w].token, task[w].maySelect) /\ SameSeen(w)
    BY <1>1, TaskGoes, TaskFails DEF Build, Goto, Fail, Steps, Running, Errors
  <1>4. CASE UNCHANGED partial
    BY <1>2, <1>3, <1>4, AlongIsMove DEF Running
  <1>5. CASE partial' = partial \cup {task[w].token} /\ cut
    <2>1. OwnObject(w)
      BY <1>2, <1>5 DEF OwnObject
    <2>2. TaskMoves(w) /\ BullMoves(w) /\ RestType'
      BY <1>1, <1>2, <1>3, TaskGoesOn, JobStays, RestStays DEF SameRows, RestType
    <2>3. WorkerInv(w)'
      BY <1>2, <1>3 DEF WorkerInv, Task, SameRows, SameRow, Row, Running
    <2>. QED BY <1>2, <2>1, <2>2, <2>3 DEF Moves, RowMoves, StoreMoves, Around
  <1>. QED BY <1>4, <1>5 DEF Build

LEMMA RenewMoves ==
  ASSUME IInv, NEW w \in Workers, Renew(w)
  PROVE  Moves(w)
  <1>1. TaskType /\ Bounds /\ RestType /\ ExportInv /\ WorkerInv(w)
    BY TypesApart DEF IInv
  <1>2. UNCHANGED <<objects, partial, bull, task>> /\ Around /\ SameRows
    BY <1>1, RowLeased DEF Renew, Elsewhere, Around, Mishap, SameRows
  <1>3. TaskMoves(w) /\ BullMoves(w) /\ RestType'
    BY <1>1, <1>2, JobStays, RestStays DEF SameRows, RestType, TaskMoves, TaskType, Bounds
  <1>4. WorkerInv(w)'
    BY <1>1, <1>2 DEF WorkerInv, Holds, SameRows, SameRow, Row
  <1>. QED BY <1>2, <1>3, <1>4 DEF Moves, RowMoves, StoreMoves, Around

\* A renewal that must find the token current, before a step that has no object to show,
\* or has stored it.
LEMMA AssertMoves ==
  ASSUME IInv, NEW w \in Workers, NEW next \in {"writing", "marking"},
         task[w].at \in {"checking", "rechecking"}, AssertCurrentLease(w, next),
         next = "marking" => task[w].at = "rechecking",
         UNCHANGED job, UNCHANGED faults, Elsewhere
  PROVE  Moves(w)
  <1>1. TaskType /\ Bounds /\ RestType /\ ExportInv /\ WorkerInv(w)
    BY TypesApart DEF IInv
  <1>2. /\ UNCHANGED <<objects, partial, bull>> /\ Around
        /\ ~task[w].maySelect /\ export.object # task[w].token
        /\ next = "marking" /\ Holds(w) => task[w].token \in objects
    BY <1>1 DEF Elsewhere, Around, Mishap, WorkerInv, Running, TaskType, Tasks
  <1>3. SameRows
    BY <1>1, RowLeased, RowUntouched DEF AssertCurrentLease, Elsewhere, SameRows
  <1>4. \E step \in {next, "failing"} :
          Task(w, step, task[w].token, task[w].maySelect) /\ SameSeen(w)
    BY <1>1, TaskGoes, TaskFails DEF AssertCurrentLease, Goto, Fail, Steps, Running, Errors
  <1>. QED BY <1>2, <1>3, <1>4, AlongIsMove DEF Running

LEMMA CheckMoves ==
  ASSUME IInv, NEW w \in Workers, Check(w) \/ Recheck(w)
  PROVE  Moves(w)
  BY AssertMoves DEF Check, Recheck

LEMMA CheckFailsMoves ==
  ASSUME IInv, NEW w \in Workers, CheckFails(w)
  PROVE  Moves(w)
  <1>1. TaskType /\ Bounds /\ RestType /\ ExportInv /\ WorkerInv(w)
    BY TypesApart DEF IInv
  <1>2. /\ UNCHANGED <<objects, partial, bull>> /\ Around /\ SameRows
        /\ ~task[w].maySelect /\ export.object # task[w].token
        /\ task[w].at \in {"checking", "rechecking"}
    BY <1>1, RowUntouched
       DEF CheckFails, Elsewhere, Around, Mishap, SameRows, WorkerInv, Running, TaskType, Tasks
  <1>3. \E step \in {"failing"} :
          Task(w, step, task[w].token, task[w].maySelect) /\ SameSeen(w)
    BY <1>1, TaskFails DEF CheckFails, Fail, Errors
  <1>. QED BY <1>2, <1>3, AlongIsMove DEF Running

LEMMA WriteMoves ==
  ASSUME IInv, NEW w \in Workers, Write(w)
  PROVE  Moves(w)
  <1>1. TaskType /\ Bounds /\ RestType /\ ExportInv /\ WorkerInv(w)
    BY TypesApart DEF IInv
  <1>2. /\ UNCHANGED <<partial, bull>> /\ Around /\ SameRows
        /\ task[w].at = "writing" /\ ~task[w].maySelect
        /\ export.object # task[w].token /\ task[w].token # 0
    BY <1>1, RowUntouched
       DEF Write, Around, Mishap, SameRows, WorkerInv, Running, TaskType, Tasks
  <1>3. OwnObject(w)
    BY <1>2 DEF Write, OwnObject
  <1>4. \E step \in {"rechecking", "failing"} :
          /\ Task(w, step, task[w].token, task[w].maySelect) /\ SameSeen(w)
          /\ step = "rechecking" => task[w].token \in objects'
    BY <1>1, TaskStores, TaskMayStore DEF Write
  <1>5. TaskMoves(w) /\ BullMoves(w) /\ RestType'
    BY <1>1, <1>2, <1>4, TaskGoesOn, JobStays, RestStays DEF SameRows, RestType
  <1>6. WorkerInv(w)'
    BY <1>2, <1>4 DEF WorkerInv, Task, SameRows, SameRow, Row, Running
  <1>. QED BY <1>2, <1>3, <1>5, <1>6 DEF Moves, RowMoves, StoreMoves, Around

\* Who holds the row and has stored its object may have it selected.
LEMMA SelectMoves ==
  ASSUME IInv, NEW w \in Workers, task[w].at = "marking", Holds(w), Select(w),
         NEW at \in {"return", "reconciling"}, NEW maySelect,
         at = "reconciling" => maySelect,
         Task(w, at, task[w].token, maySelect), SameSeen(w),
         UNCHANGED <<issued, objects, partial, bull>>, Around
  PROVE  Moves(w)
  <1>1. TaskType /\ Bounds /\ RestType /\ ExportInv /\ WorkerInv(w)
    BY TypesApart DEF IInv
  <1>2. task[w].token \in Nat /\ task[w].token \in objects /\ task[w].token # 0
    BY <1>1 DEF TaskType, Tasks, WorkerInv, Running
  <1>3. Selected(w)
    BY <1>1, <1>2, RowSelected DEF Select, Selected
  <1>4. TaskMoves(w) /\ BullMoves(w) /\ RestType'
    BY <1>1, <1>3, TaskGoesOn, JobStays, RestStays DEF Selected
  <1>5. WorkerInv(w)'
    BY <1>2 DEF WorkerInv, Task, Running
  <1>. QED BY <1>3, <1>4, <1>5 DEF Moves, RowMoves, StoreMoves, Around

LEMMA MarkReadyMoves ==
  ASSUME IInv, NEW w \in Workers, MarkReady(w) \/ MarkReadyFails(w)
  PROVE  Moves(w)
  <1>1. TaskType /\ Bounds /\ RestType /\ ExportInv /\ WorkerInv(w)
    BY TypesApart DEF IInv
  <1>2. /\ UNCHANGED <<issued, objects, partial, bull>> /\ Around
        /\ task[w].at = "marking" /\ ~task[w].maySelect
        /\ export.object # task[w].token
    BY <1>1 DEF MarkReady, MarkReadyFails, Elsewhere, Around, Mishap, WorkerInv, Running,
                TaskType, Tasks
  <1>3. CASE Holds(w) /\ Select(w)
    <2>1. \E at \in {"return", "reconciling"}, maySelect \in BOOLEAN :
            /\ Task(w, at, task[w].token, maySelect) /\ SameSeen(w)
            /\ at = "reconciling" => maySelect
      <3>1. CASE MarkReady(w)
        <4>1. Task(w, "return", task[w].token, task[w].maySelect) /\ SameSeen(w)
          BY <1>1, <1>3, <3>1, TaskGoes DEF MarkReady, Goto, Steps
        <4>. QED BY <1>1, <4>1 DEF TaskType, Tasks
      <3>2. CASE MarkReadyFails(w)
        BY <1>1, <3>2, TaskMaySelect DEF MarkReadyFails
      <3>. QED BY <3>1, <3>2
    <2>. QED BY <1>2, <1>3, <2>1, SelectMoves
  <1>4. CASE UNCHANGED <<export, job>>
    <2>1. SameRows
      BY <1>1, <1>2, <1>4, RowUntouched DEF SameRows
    <2>2. CASE Task(w, "reconciling", task[w].token, TRUE) /\ SameSeen(w)
      BY <1>2, <2>1, <2>2, AlongIsMove DEF Running
    <2>3. CASE MarkReady(w)
      <3>1. \E at \in {"return", "failing"} :
              Task(w, at, task[w].token, task[w].maySelect) /\ SameSeen(w)
        BY <1>1, <2>3, TaskGoes, TaskFails DEF MarkReady, Goto, Fail, Steps, Errors
      <3>. QED BY <1>2, <2>1, <3>1, AlongIsMove DEF Running
    <2>. QED BY <1>1, <2>2, <2>3, TaskMaySelect DEF MarkReadyFails
  <1>. QED BY <1>3, <1>4 DEF MarkReady, MarkReadyFails

LEMMA ReconcileMoves ==
  ASSUME IInv, NEW w \in Workers, ReconcileReady(w)
  PROVE  Moves(w)
  <1>1. TaskType /\ Bounds /\ RestType /\ ExportInv /\ WorkerInv(w)
    BY TypesApart DEF IInv
  <1>2. /\ UNCHANGED <<objects, partial, bull>> /\ Around /\ SameRows
        /\ task[w].at = "reconciling" /\ task[w].maySelect \in BOOLEAN
    BY <1>1, RowUntouched
       DEF ReconcileReady, Elsewhere, Around, Mishap, SameRows, TaskType, Tasks
  <1>3. ~task[w].maySelect => export.object # task[w].token
    BY <1>1, <1>2 DEF WorkerInv, Running
  <1>4. \/ \E step \in {"return", "failing"} :
             Task(w, step, task[w].token, task[w].maySelect) /\ SameSeen(w)
        \/ export.object # task[w].token /\ Task(w, "failing", task[w].token, FALSE) /\ SameSeen(w)
    BY <1>1, TaskGoes, TaskFails, TaskUnselected DEF ReconcileReady, Goto, Fail, Steps, Errors
  <1>. QED BY <1>2, <1>3, <1>4, AlongIsMove DEF Running

LEMMA DropAttemptMoves ==
  ASSUME IInv, NEW w \in Workers, DropAttempt(w)
  PROVE  Moves(w)
  <1>1. TaskType /\ Bounds /\ RestType /\ ExportInv /\ WorkerInv(w)
    BY TypesApart DEF IInv
  <1>2. /\ UNCHANGED <<partial, bull>> /\ Around /\ SameRows
        /\ task[w].at = "failing" /\ task[w].maySelect \in BOOLEAN /\ task[w].token # 0
    BY <1>1, RowUntouched
       DEF DropAttempt, Around, Mishap, SameRows, TaskType, Tasks, WorkerInv, Running
  <1>3. CASE task[w].maySelect
    <2>1. \E step \in {"delay"} :
            Task(w, step, task[w].token, task[w].maySelect) /\ SameSeen(w)
      BY <1>1, <1>3, TaskGoes DEF DropAttempt, Goto, Steps
    <2>2. UNCHANGED objects
      BY <1>3 DEF DropAttempt
    <2>. QED BY <1>2, <2>1, <2>2, AlongIsMove DEF Running
  <1>4. CASE ~task[w].maySelect
    <2>1. export.object # task[w].token
      BY <1>1, <1>2, <1>4 DEF WorkerInv, Running
    <2>2. OwnObject(w)
      BY <1>2, <1>4, <2>1 DEF DropAttempt, OwnObject
    <2>3. \E step \in {"return", "settling"} :
            Task(w, step, task[w].token, task[w].maySelect) /\ SameSeen(w)
      BY <1>1, <1>4, TaskGoes DEF DropAttempt, Goto, Steps, Running
    <2>4. TaskMoves(w) /\ BullMoves(w) /\ RestType'
      BY <1>1, <1>2, <2>3, TaskGoesOn, JobStays, RestStays DEF SameRows, RestType
    <2>5. WorkerInv(w)'
      BY <1>2, <1>4, <2>1, <2>3 DEF WorkerInv, Task, SameRows, SameRow, Row, Running
    <2>. QED BY <1>2, <2>2, <2>4, <2>5 DEF Moves, RowMoves, StoreMoves, Around
  <1>. QED BY <1>2, <1>3, <1>4

\* Who holds the row may record its verdict; nothing is selected then.
LEMMA RecordMoves ==
  ASSUME IInv, NEW w \in Workers, Holds(w), Record(w),
         NEW at \in {"throw", "delay"},
         Task(w, at, task[w].token, task[w].maySelect), SameSeen(w),
         UNCHANGED <<issued, objects, partial, bull>>, Around
  PROVE  Moves(w)
  <1>1. TaskType /\ Bounds /\ RestType /\ ExportInv /\ WorkerInv(w)
    BY TypesApart DEF IInv
  <1>2. Recorded(w)
    <2>1. CASE Retries(w)
      BY <1>1, <2>1, RowGiven DEF Record, Recorded
    <2>2. CASE ~Retries(w)
      BY <1>1, <2>2, RowGiven DEF Record, Recorded
    <2>. QED BY <2>1, <2>2
  <1>3. TaskMoves(w) /\ BullMoves(w) /\ RestType'
    BY <1>1, <1>2, TaskGoesOn, JobStays, RestStays DEF Recorded
  <1>4. WorkerInv(w)'
    BY DEF WorkerInv, Task, Running
  <1>. QED BY <1>2, <1>3, <1>4 DEF Moves, RowMoves, StoreMoves, Around

LEMMA SettleMoves ==
  ASSUME IInv, NEW w \in Workers, Settle(w) \/ SettleFails(w)
  PROVE  Moves(w)
  <1>1. TaskType /\ Bounds /\ RestType /\ ExportInv /\ WorkerInv(w)
    BY TypesApart DEF IInv
  <1>2. UNCHANGED <<issued, objects, partial, bull>> /\ Around /\ ~task[w].maySelect
    BY <1>1 DEF Settle, SettleFails, Elsewhere, Around, Mishap, WorkerInv, TaskType, Tasks
  <1>3. CASE Holds(w) /\ Record(w)
    <2>1. \E step \in {"throw", "delay"} :
            Task(w, step, task[w].token, task[w].maySelect) /\ SameSeen(w)
      BY <1>1, <1>3, TaskGoes DEF Settle, SettleFails, Goto, Steps
    <2>. QED BY <1>2, <1>3, <2>1, RecordMoves
  <1>4. CASE UNCHANGED <<export, job>>
    <2>1. SameRows
      BY <1>1, <1>2, <1>4, RowUntouched DEF SameRows
    <2>2. \E step \in {"return", "throw", "delay"} :
            Task(w, step, task[w].token, task[w].maySelect) /\ SameSeen(w)
      BY <1>1, TaskGoes DEF Settle, SettleFails, Goto, Steps
    <2>. QED BY <1>2, <2>1, <2>2, AlongIsMove DEF Running
  <1>. QED BY <1>3, <1>4 DEF Settle, SettleFails

\* A worker that lets go of its job has no token any more.
LEMMA EndMoves ==
  ASSUME IInv, NEW w \in Workers, task' = [task EXCEPT ![w] = NoTask], BullMoves(w),
         UNCHANGED <<export, job, issued, objects, partial>>, Around
  PROVE  Moves(w)
  <1>1. TaskType /\ Bounds /\ RestType /\ ExportInv /\ WorkerInv(w)
    BY TypesApart DEF IInv
  <1>2. SameRows
    BY <1>1, RowUntouched DEF SameRows
  <1>3. Task(w, "idle", 0, FALSE) /\ SameSeen(w)
    BY <1>1, TaskEnds
  <1>4. TaskMoves(w) /\ RestType'
    BY <1>1, <1>3, TaskGoesOn, RestStays DEF RestType
  <1>5. WorkerInv(w)'
    BY <1>3 DEF WorkerInv, Task, Running
  <1>. QED BY <1>2, <1>4, <1>5 DEF Moves, RowMoves, StoreMoves, Around

LEMMA HandBackMoves ==
  ASSUME IInv, NEW w \in Workers, Return(w) \/ Throw(w) \/ Delay(w)
  PROVE  Moves(w)
  <1>1. BullType /\ BullInv
    BY TypesApart DEF IInv
  <1>2. task' = [task EXCEPT ![w] = NoTask] /\ Around
          /\ UNCHANGED <<export, job, issued, objects, partial>>
    BY DEF Return, Throw, Delay, HandBack, Around, Mishap
  <1>3. CASE bull.owner = w
    <2>1. bull.state = "RUNNING" /\ bull.made < MaxAttempts /\ bull.made \in Nat
      BY <1>1, <1>3, AuditAssumption DEF BullInv, BullType, Bulls
    <2>2. bull.made \in 0 .. MaxAttempts /\ bull.made + 1 \in 0 .. MaxAttempts
      BY <2>1, AuditAssumption
    <2>3. \E state \in {"WAITING", "COMPLETED", "FAILED"}, made \in 0 .. MaxAttempts :
            Job(state, made, Nobody) /\ (state = "WAITING" => made < MaxAttempts)
      <3>1. CASE Return(w)
        <4>1. Job("COMPLETED", bull.made + 1, Nobody)
          BY <1>1, <1>3, <2>2, <3>1, JobHandedBack DEF Return, HandBack
        <4>. QED BY <2>2, <4>1
      <3>2. CASE Throw(w)
        <4>. DEFINE state == IF bull.made + 1 < MaxAttempts /\ task[w].error # "final"
                               THEN "WAITING" ELSE "FAILED"
        <4>1. /\ state \in {"WAITING", "FAILED"}
              /\ state = "WAITING" => bull.made + 1 < MaxAttempts
          OBVIOUS
        <4>2. bull' = [bull EXCEPT !.state = state, !.made = bull.made + 1, !.owner = Nobody]
          BY <1>3, <3>2 DEF Throw, HandBack
        <4>. HIDE DEF state
        <4>3. Job(state, bull.made + 1, Nobody)
          BY <1>1, <2>2, <4>1, <4>2, JobHandedBack
        <4>. QED BY <2>2, <4>1, <4>3
      <3>3. CASE Delay(w)
        <4>1. Job("WAITING", bull.made, Nobody)
          BY <1>1, <1>3, <2>2, <3>3, JobHandedBack DEF Delay, HandBack
        <4>. QED BY <2>1, <2>2, <4>1
      <3>. QED BY <3>1, <3>2, <3>3
    <2>4. BullMoves(w)
      BY <2>3 DEF Job, BullMoves, BullType, BullInv
    <2>. QED BY <1>2, <2>4, EndMoves
  <1>4. CASE bull.owner # w
    BY <1>2, <1>4, JobStays, EndMoves DEF Return, Throw, Delay, HandBack
  <1>. QED BY <1>3, <1>4

LEMMA DelayFailsMoves ==
  ASSUME IInv, NEW w \in Workers, DelayFails(w)
  PROVE  Moves(w)
  <1>1. TaskType /\ Bounds /\ RestType /\ ExportInv /\ WorkerInv(w)
    BY TypesApart DEF IInv
  <1>2. UNCHANGED <<objects, partial, bull>> /\ Around /\ SameRows
    BY <1>1, RowUntouched DEF DelayFails, Around, Mishap, SameRows
  <1>3. \E step \in {"throw"} : Task(w, step, task[w].token, task[w].maySelect) /\ SameSeen(w)
    BY <1>1, TaskFails DEF DelayFails, Errors
  <1>. QED BY <1>2, <1>3, AlongIsMove DEF Running

LEMMA CrashMoves ==
  ASSUME IInv, NEW w \in Workers, Crash(w)
  PROVE  Moves(w)
  <1>1. BullType /\ BullInv
    BY TypesApart DEF IInv
  <1>2. task' = [task EXCEPT ![w] = NoTask] /\ Around
          /\ UNCHANGED <<export, job, issued, objects, partial>>
    BY DEF Crash, Around, Mishap
  <1>3. CASE bull.owner = w
    <2>1. Job(bull.state, bull.made, Ghost)
      BY <1>1, <1>3, JobHaunted DEF Crash
    <2>2. BullMoves(w)
      BY <1>1, <1>3, <2>1, AuditAssumption DEF Job, BullMoves, BullType, BullInv
    <2>. QED BY <1>2, <2>2, EndMoves
  <1>4. CASE bull.owner # w
    BY <1>2, <1>4, JobStays, EndMoves DEF Crash
  <1>. QED BY <1>3, <1>4

LEMMA FetchMoves ==
  ASSUME IInv, NEW w \in Workers, Fetch(w)
  PROVE  Moves(w)
  <1>1. TaskType /\ Bounds /\ RestType /\ ExportInv /\ BullType /\ BullInv
    BY TypesApart DEF IInv
  <1>2. SameRows /\ Around /\ UNCHANGED <<objects, partial>>
    BY <1>1, RowUntouched DEF Fetch, Around, Mishap, SameRows
  <1>3. bull.made \in 0 .. MaxAttempts
    BY <1>1 DEF BullType, Bulls
  <1>4. Task(w, "reading", 0, FALSE) /\ SameSeen(w)
    BY <1>1, <1>3, TaskStarts DEF Fetch
  <1>5. Job("RUNNING", bull.made, w)
    BY <1>1, JobFetched DEF Fetch
  <1>6. BullMoves(w)
    BY <1>1, <1>4, <1>5, AuditAssumption DEF Job, Task, BullMoves, BullType, BullInv, Fetch
  <1>7. TaskMoves(w) /\ RestType'
    BY <1>1, <1>2, <1>4, TaskGoesOn, RestStays DEF SameRows, RestType
  <1>8. WorkerInv(w)'
    BY <1>4 DEF WorkerInv, Task, Running
  <1>. QED BY <1>2, <1>6, <1>7, <1>8 DEF Moves, RowMoves, StoreMoves, Around

LEMMA WorkersMove ==
  ASSUME IInv, NEW w \in Workers, Fetch(w) \/ Process(w) \/ Renew(w) \/ Trouble(w)
  PROVE  Moves(w)
  <1>1. CASE Process(w)
    BY <1>1, ReadForClaimMoves, ClaimMoves, BuildMoves, CheckMoves, WriteMoves, MarkReadyMoves,
       ReconcileMoves, DropAttemptMoves, SettleMoves, HandBackMoves DEF Process
  <1>2. CASE Trouble(w)
    BY <1>2, ClaimFailsMoves, CheckFailsMoves, MarkReadyMoves, SettleMoves, DelayFailsMoves,
       CrashMoves DEF Trouble
  <1>. QED BY <1>1, <1>2, FetchMoves, RenewMoves

-----------------------------------------------------------------------------
(* What the other steps do: no worker moves *)

\* The maintenance run after the step.
Maint(at, status, token, object, listed) ==
  /\ maint' \in Maints
  /\ maint'.at = at /\ maint'.status = status /\ maint'.token = token
  /\ maint'.object = object /\ maint'.listed = listed
MaintAt(at) == Maint(at, maint.status, maint.token, maint.object, maint.listed)

LEMMA MaintGoes ==
  ASSUME MaintInv,
         NEW step \in {"listOthers", "markExpired", "listOrphans", "askAgain", "dropOrphans",
                       "findDead", "failQueued", "failStale", "deleteRow"},
         MaintGoto(step)
  PROVE  MaintAt(step)
  BY DEF MaintInv, MaintGoto, Maint, MaintAt, Maints

LEMMA MaintEnds ==
  ASSUME EndPhase
  PROVE  Maint("idle", "NONE", 0, 0, {})
  BY DEF EndPhase, NoMaint, Maint, Maints

LEMMA MaintReadsObject ==
  ASSUME MaintInv, NEW object \in Nat,
         maint' = [maint EXCEPT !.at = "dropSelected", !.object = object]
  PROVE  Maint("dropSelected", maint.status, maint.token, object, maint.listed)
  <1>. DEFINE a == [maint EXCEPT !.at = "dropSelected"]
  <1>1. /\ a \in Maints /\ a.at = "dropSelected" /\ a.status = maint.status
        /\ a.token = maint.token /\ a.listed = maint.listed
    BY DEF MaintInv, Maints
  <1>2. maint' = [a EXCEPT !.object = object]
    OBVIOUS
  <1>. HIDE DEF a
  <1>. QED BY <1>1, <1>2 DEF Maint, Maints

LEMMA MaintReadsToken ==
  ASSUME MaintInv, NEW token \in Nat,
         maint' = [maint EXCEPT !.at = "askBull", !.token = token]
  PROVE  Maint("askBull", maint.status, token, maint.object, maint.listed)
  <1>. DEFINE a == [maint EXCEPT !.at = "askBull"]
  <1>1. /\ a \in Maints /\ a.at = "askBull" /\ a.status = maint.status
        /\ a.object = maint.object /\ a.listed = maint.listed
    BY DEF MaintInv, Maints
  <1>2. maint' = [a EXCEPT !.token = token]
    OBVIOUS
  <1>. HIDE DEF a
  <1>. QED BY <1>1, <1>2 DEF Maint, Maints

LEMMA MaintLists ==
  ASSUME MaintInv, NEW listed \in SUBSET Nat, NEW at \in {"dropOthers", "recheck", "dropOrphans"},
         maint' = [maint EXCEPT !.at = at, !.listed = listed]
  PROVE  Maint(at, maint.status, maint.token, maint.object, listed)
  <1>. DEFINE a == [maint EXCEPT !.at = at]
  <1>1. /\ a \in Maints /\ a.at = at /\ a.status = maint.status
        /\ a.object = maint.object /\ a.token = maint.token
    BY DEF MaintInv, Maints
  <1>2. maint' = [a EXCEPT !.listed = listed]
    OBVIOUS
  <1>. HIDE DEF a
  <1>. QED BY <1>1, <1>2 DEF Maint, Maints

LEMMA MaintFindsOrphans ==
  ASSUME MaintInv, NEW at \in {"askOrphans", "listOrphans"},
         NEW status \in {"PROCESSING"} \cup Terminal, NEW token \in Nat,
         maint' = [maint EXCEPT !.at = at, !.status = status, !.token = token]
  PROVE  Maint(at, status, token, maint.object, maint.listed)
  <1>. DEFINE a == [maint EXCEPT !.at = at]
              b == [a EXCEPT !.status = status]
  <1>1. a \in Maints /\ a.at = at /\ a.object = maint.object /\ a.listed = maint.listed
    BY DEF MaintInv, Maints
  <1>2. maint' = [b EXCEPT !.token = token]
    OBVIOUS
  <1>. HIDE DEF a
  <1>3. b \in Maints /\ b.at = at /\ b.object = maint.object /\ b.status = status
          /\ b.listed = maint.listed
    BY <1>1 DEF Maints
  <1>. HIDE DEF b
  <1>. QED BY <1>2, <1>3 DEF Maint, Maints

\* Tokens and objects are at most given up; the object of a processing row stays; what
\* maintenance reads is there.
Keeps ==
  /\ UNCHANGED <<task, issued, partial>>
  /\ export'.token \in {0, export.token} /\ export'.object \in {0, export.object}
  /\ export'.status = "PROCESSING" =>
       /\ export.status = "PROCESSING" /\ export'.token = export.token
       /\ export.token \in objects => export.token \in objects'
  /\ objects' \subseteq objects
  /\ maint'.token \in {0, maint.token, export.token}
  /\ maint'.object \in {0, maint.object, export.object}
  /\ maint'.listed \in {{}, maint.listed, objects}

LEMMA KeepsAreSound ==
  ASSUME IInv, Keeps, BullType', BullInv', RestType', ExportInv', MaintInv', SelectedIsSound'
  PROVE  IInv'
  <1>. USE DEF IInv
  <1>1. TaskType /\ Bounds
    BY TypesApart
  <1>2. TaskType'
    BY <1>1 DEF TaskType, Keeps
  <1>3. Bounds'
    <2>1. issued' = issued /\ issued \in Nat /\ Tokens' = Tokens
      BY <1>1 DEF Bounds, Keeps, Tokens
    <2>2. /\ export'.token <= issued /\ export'.object <= issued
          /\ maint'.token <= issued /\ maint'.object <= issued
      BY <1>1, <2>1 DEF Bounds, Keeps
    <2>3. objects' \subseteq Tokens /\ partial' \subseteq Tokens /\ maint'.listed \subseteq Tokens
      BY <1>1 DEF Bounds, Keeps
    <2>4. \A w \in Workers : task'[w].token <= issued /\ task'[w].seen <= issued
      BY <1>1 DEF Bounds, Keeps
    <2>. QED BY <2>1, <2>2, <2>3, <2>4 DEF Bounds
  <1>4. TypeOK'
    BY <1>2, <1>3, TypesTogether
  <1>5. TokensDiffer'
    BY DEF TokensDiffer, Keeps
  <1>6. ASSUME NEW w \in Workers
        PROVE  WorkerInv(w)'
    BY DEF WorkerInv, Keeps, Holds, Running
  <1>. QED BY <1>4, <1>5, <1>6

\* Nothing but the row, the job and the event changes.
LEMMA MaintenanceWaits ==
  ASSUME IInv, maint' = maint, task' = task, Keeps, export.due => export'.due,
         export.status \in Terminal \cup {"GONE"} => export'.status \in Terminal \cup {"GONE"},
         bull'.owner \in {bull.owner, Nobody}
  PROVE  MaintInv'
  <1>1. 0 \notin maint.listed
    BY TypesApart DEF IInv, Bounds, Tokens
  <1>. QED BY <1>1, AuditAssumption DEF IInv, MaintInv, Keeps

-----------------------------------------------------------------------------
(* Requests, deliveries and Bull *)

LEMMA RequestIsSound ==
  ASSUME IInv, Request
  PROVE  IInv'
  <1>1. TaskType /\ BullType /\ RestType /\ Bounds
    BY TypesApart DEF IInv
  <1>. USE DEF IInv
  <1>2. Row("QUEUED", export.token, export.object, export.due)
    BY RowStatus DEF Request
  <1>3. RestType' /\ BullType' /\ BullInv'
    BY <1>1 DEF Request, RestType, BullType, BullInv
  <1>4. Keeps
    BY <1>2 DEF Request, Row, Keeps
  <1>5. ExportInv'
    BY <1>2 DEF Request, Row, ExportInv, Active, Done
  <1>6. MaintInv'
    BY <1>2, <1>4, MaintenanceWaits DEF Request, Row, Terminal
  <1>7. SelectedIsSound'
    BY <1>2 DEF Row, SelectedIsSound, SelectedIsStored, SelectedIsWhole
  <1>. QED BY <1>3, <1>4, <1>5, <1>6, <1>7, KeepsAreSound

\* A step that touches neither rows nor storage nor maintenance nor workers.
LEMMA ElsewhereIsSound ==
  ASSUME IInv, UNCHANGED <<export, job, issued, task, objects, cut, partial, maint>>,
         RestType', BullType', BullInv', bull'.owner \in {bull.owner, Nobody}
  PROVE  IInv'
  <1>. USE DEF IInv
  <1>1. Keeps
    BY DEF Keeps
  <1>2. ExportInv'
    BY DEF ExportInv
  <1>3. MaintInv'
    BY <1>1, MaintenanceWaits
  <1>4. SelectedIsSound'
    BY DEF SelectedIsSound, SelectedIsStored, SelectedIsWhole
  <1>. QED BY <1>1, <1>2, <1>3, <1>4, KeepsAreSound

LEMMA DeliveryIsSound ==
  ASSUME IInv, \/ \E h \in Handlers : Handle(h)
               \/ DeadLetter \/ WindowPasses \/ Revive
  PROVE  IInv'
  <1>1. BullType /\ BullInv /\ RestType
    BY TypesApart DEF IInv
  <1>2. ASSUME NEW h \in Handlers, Handle(h)
        PROVE  IInv'
    <2>1. UNCHANGED <<export, job, issued, task, objects, cut, partial, maint>>
      BY <1>2 DEF Handle, ReadRows, AddBullJob
    <2>2. handler' \in [Handlers -> {"idle", "adding"}]
      BY <1>1, <1>2 DEF Handle, ReadRows, AddBullJob, HandlerGoto, RestType
    <2>3. request' \in {"absent", "queued", "done", "dead", "abandoned"}
      BY <1>1, <1>2 DEF Handle, ReadRows, AddBullJob, Resolve, ResolveUnacknowledged, RestType
    <2>4. faults' \in 0 .. MaxFaults
      BY <1>1, <1>2, AuditAssumption
         DEF Handle, ReadRows, AddBullJob, ResolveUnacknowledged, Fault, RestType
    <2>5. RestType'
      BY <1>1, <2>1, <2>2, <2>3, <2>4 DEF RestType
    <2>6. CASE UNCHANGED bull
      <3>1. BullType' /\ BullInv'
        BY <1>1, <2>6 DEF BullType, BullInv
      <3>. QED BY <2>1, <2>5, <2>6, <3>1, ElsewhereIsSound
    <2>7. CASE bull.state = "ABSENT" /\ bull' = [bull EXCEPT !.state = "WAITING"]
      <3>1. Job("WAITING", bull.made, bull.owner)
        BY <1>1, <2>7, JobWaits
      <3>2. BullType' /\ BullInv'
        BY <1>1, <2>7, <3>1 DEF BullType, BullInv, Job
      <3>3. bull'.owner = bull.owner
        BY <3>1 DEF Job
      <3>. QED BY <2>1, <2>5, <3>2, <3>3, ElsewhereIsSound
    <2>. QED BY <1>2, <2>6, <2>7 DEF Handle, ReadRows, AddBullJob
  <1>3. ASSUME DeadLetter \/ WindowPasses \/ Revive
        PROVE  IInv'
    <2>1. UNCHANGED <<export, job, issued, task, objects, cut, partial, maint, bull>>
      BY <1>3 DEF DeadLetter, WindowPasses, Revive
    <2>2. RestType'
      BY <1>1, <1>3, AuditAssumption DEF DeadLetter, WindowPasses, Revive, RestType, Fault
    <2>3. BullType' /\ BullInv'
      BY <1>1, <2>1 DEF BullType, BullInv
    <2>. QED BY <2>1, <2>2, <2>3, ElsewhereIsSound
  <1>. QED BY <1>2, <1>3

LEMMA StallIsSound ==
  ASSUME IInv, Stall
  PROVE  IInv'
  <1>1. BullType /\ BullInv /\ RestType
    BY TypesApart DEF IInv
  <1>. DEFINE state == IF bull.stalls < MaxStalled THEN "WAITING" ELSE "FAILED"
  <1>2. Job(state, bull.made, Nobody)
    BY <1>1, JobStalled DEF Stall
  <1>3. state \in {"WAITING", "FAILED"}
    OBVIOUS
  <1>. HIDE DEF state
  <1>4. bull.made < MaxAttempts
    BY <1>1 DEF Stall, BullInv
  <1>5. BullType' /\ BullInv' /\ bull'.owner = Nobody
    BY <1>2, <1>3, <1>4 DEF Job, BullType, BullInv
  <1>6. RestType'
    BY <1>1, AuditAssumption DEF Stall, RestType, Fault, outbox
  <1>7. UNCHANGED <<export, job, issued, task, objects, cut, partial, maint>>
    BY DEF Stall
  <1>. QED BY <1>5, <1>6, <1>7, ElsewhereIsSound

-----------------------------------------------------------------------------
(* The rows: maintenance, downloads and the clock *)

\* A step that touches the rows: the row loses its token or its object, or comes due.
RowsMove(status, token, object, due) ==
  /\ Row(status, token, object, due)
  /\ token \in {0, export.token} /\ object \in {0, export.object}
  /\ status = "PROCESSING" <=> token # 0
  /\ status = "READY" <=> object # 0
  /\ \/ status = export.status /\ UNCHANGED job
     \/ status \in Terminal \cup {"GONE"} /\ job' \in {job, "FAILED"}
  /\ export.due => due
  /\ due => export.due \/ status = "READY"
  /\ export.status \notin Active \cup {"NONE"} => status \in Done
  /\ UNCHANGED <<issued, outbox, bull, task, objects, cut, partial, faults>>

LEMMA RowsMoveIsSound ==
  ASSUME IInv, NEW status, NEW token, NEW object, NEW due,
         RowsMove(status, token, object, due), maint' = maint \/ EndPhase
  PROVE  IInv'
  <1>1. TaskType /\ BullType /\ RestType /\ Bounds
    BY TypesApart DEF IInv
  <1>. USE DEF IInv
  <1>2. RestType' /\ BullType' /\ BullInv'
    BY <1>1 DEF RowsMove, RestType, BullType, BullInv, outbox
  <1>3. Keeps
    BY MaintEnds DEF RowsMove, Row, Keeps, Maint, ExportInv, Active, Terminal
  <1>4. ExportInv'
    BY DEF RowsMove, Row, ExportInv, Active, Done, Terminal
  <1>5. MaintInv'
    <2>1. CASE EndPhase
      BY <2>1, MaintEnds DEF MaintInv, Maint
    <2>2. CASE maint' = maint
      BY <1>3, <2>2, MaintenanceWaits DEF RowsMove, Row, Terminal
    <2>. QED BY <2>1, <2>2
  <1>6. SelectedIsSound'
    BY DEF RowsMove, Row, SelectedIsSound, SelectedIsStored, SelectedIsWhole, Terminal, ExportInv
  <1>. QED BY <1>2, <1>3, <1>4, <1>5, <1>6, KeepsAreSound

LEMMA FailLinked ==
  ASSUME IInv, export.status \in Active, FailLinkedFacts,
         UNCHANGED <<issued, outbox, bull, task, objects, cut, partial, faults>>
  PROVE  RowsMove("FAILED", 0, export.object, export.due)
  <1>1. ExportInv
    BY DEF IInv
  <1>2. Row("FAILED", 0, export.object, export.due)
    BY <1>1, RowGiven DEF FailLinkedFacts
  <1>3. export.object = 0
    BY <1>1 DEF ExportInv, Active
  <1>. QED BY <1>1, <1>2, <1>3 DEF RowsMove, FailLinkedFacts, ExportInv, Terminal, Active, Done

\* A phase that ends without having changed the rows.
LEMMA UntouchedRow ==
  ASSUME IInv, UNCHANGED <<export, job>>,
         UNCHANGED <<issued, outbox, bull, task, objects, cut, partial, faults>>
  PROVE  RowsMove(export.status, export.token, export.object, export.due)
  <1>1. ExportInv /\ SameRow
    BY RowUntouched DEF IInv
  <1>. QED BY <1>1 DEF SameRow, RowsMove, ExportInv, Active, Done, Exports

LEMMA MarkExpiredIsSound ==
  ASSUME IInv, MarkExpired
  PROVE  IInv'
  <1>1. ExportInv /\ UNCHANGED <<job, issued, outbox, bull, task, objects, cut, partial, faults>>
          /\ EndPhase
    BY DEF IInv, MarkExpired, RowsOnly
  <1>2. CASE export.status = "READY" /\ export.due
    <2>1. Row("EXPIRED", export.token, 0, export.due)
      BY <1>1, <1>2, RowWithdrawn DEF MarkExpired, Terminal
    <2>2. RowsMove("EXPIRED", export.token, 0, export.due)
      BY <1>1, <1>2, <2>1 DEF RowsMove, ExportInv, Terminal, Active, Done
    <2>. QED BY <1>1, <2>2, RowsMoveIsSound
  <1>3. CASE ~(export.status = "READY" /\ export.due)
    BY <1>1, <1>3, UntouchedRow, RowsMoveIsSound DEF MarkExpired
  <1>. QED BY <1>2, <1>3

LEMMA DeleteRowIsSound ==
  ASSUME IInv, DeleteRow
  PROVE  IInv'
  <1>1. ExportInv /\ UNCHANGED <<job, issued, outbox, bull, task, objects, cut, partial, faults>>
          /\ EndPhase
    BY DEF IInv, DeleteRow, RowsOnly
  <1>2. CASE export.status \in Terminal
    <2>1. Row("GONE", export.token, export.object, export.due)
      BY <1>1, <1>2, RowStatus DEF DeleteRow
    <2>2. RowsMove("GONE", export.token, export.object, export.due)
      BY <1>1, <1>2, <2>1 DEF RowsMove, ExportInv, Terminal, Active, Done
    <2>. QED BY <1>1, <2>2, RowsMoveIsSound
  <1>3. CASE export.status \notin Terminal
    BY <1>1, <1>3, UntouchedRow, RowsMoveIsSound DEF DeleteRow
  <1>. QED BY <1>2, <1>3

LEMMA FailuresAreSound ==
  ASSUME IInv, FailQueued \/ FailStale
  PROVE  IInv'
  <1>1. UNCHANGED <<issued, outbox, bull, task, objects, cut, partial, faults>> /\ EndPhase
    BY DEF FailQueued, FailStale, RowsOnly
  <1>2. CASE FailLinkedFacts /\ export.status \in Active
    BY <1>1, <1>2, FailLinked, RowsMoveIsSound
  <1>3. CASE UNCHANGED <<export, job>>
    BY <1>1, <1>3, UntouchedRow, RowsMoveIsSound
  <1>. QED BY <1>2, <1>3 DEF FailQueued, FailStale, Active

LEMMA MissingIsSound ==
  ASSUME IInv, MarkConfirmedMissing
  PROVE  IInv'
  <1>1. ExportInv /\ export.due
    BY DEF IInv, MarkConfirmedMissing, SelectedIsSound, SelectedIsStored, ExportInv, Exports
  <1>2. Row("FAILED", export.token, 0, export.due)
    BY <1>1, RowWithdrawn DEF MarkConfirmedMissing, Terminal
  <1>3. RowsMove("FAILED", export.token, 0, export.due)
    BY <1>1, <1>2 DEF RowsMove, ExportInv, Terminal, Active, Done, MarkConfirmedMissing
  <1>. QED BY <1>3, RowsMoveIsSound DEF MarkConfirmedMissing

LEMMA ClockIsSound ==
  ASSUME IInv, LeaseLapses \/ ClaimGrowsStale \/ Expires
  PROVE  IInv'
  <1>1. ExportInv /\ ClockOnly
    BY DEF IInv, LeaseLapses, ClaimGrowsStale, Expires
  <1>2. CASE Expires
    <2>1. Row(export.status, export.token, export.object, TRUE)
      BY <1>1, <1>2, RowDue DEF Expires
    <2>2. RowsMove(export.status, export.token, export.object, TRUE)
      BY <1>1, <1>2, <2>1 DEF RowsMove, ExportInv, Exports, Active, Done, Expires, ClockOnly
    <2>. QED BY <1>1, <2>2, RowsMoveIsSound DEF ClockOnly
  <1>3. CASE LeaseLapses \/ ClaimGrowsStale
    <2>1. SameRow
      BY <1>1, <1>3, RowLeased DEF LeaseLapses, ClaimGrowsStale
    <2>2. RowsMove(export.status, export.token, export.object, export.due)
      BY <1>1, <2>1 DEF SameRow, RowsMove, ExportInv, Exports, Active, Done, ClockOnly
    <2>. QED BY <1>1, <2>2, RowsMoveIsSound DEF ClockOnly
  <1>. QED BY <1>2, <1>3

-----------------------------------------------------------------------------
(* Maintenance *)

LEMMA CutIsSound ==
  ASSUME IInv, DeleteAuditBatch
  PROVE  IInv'
  <1>1. TaskType /\ BullType /\ RestType /\ Bounds
    BY TypesApart DEF IInv
  <1>. USE DEF IInv
  <1>2. RestType' /\ BullType' /\ BullInv'
    BY <1>1 DEF DeleteAuditBatch, RestType, BullType, BullInv, outbox
  <1>3. Keeps
    BY DEF DeleteAuditBatch, Keeps
  <1>4. ExportInv'
    BY DEF DeleteAuditBatch, Deletable, ExportInv, Exports, Active, Done
  <1>5. MaintInv'
    BY <1>3, MaintenanceWaits DEF DeleteAuditBatch
  <1>6. SelectedIsSound'
    BY DEF DeleteAuditBatch, SelectedIsSound, SelectedIsStored, SelectedIsWhole
  <1>. QED BY <1>2, <1>3, <1>4, <1>5, <1>6, KeepsAreSound

\* A step that only reads, or removes objects that no active export may select and none
\* has selected.
LEMMA StorageIsSound ==
  ASSUME IInv, MaintInv', UNCHANGED <<export, job>>, RestType',
         UNCHANGED <<issued, bull, task, cut, partial>>,
         objects' \subseteq objects,
         export.status = "PROCESSING" /\ export.token \in objects => export.token \in objects',
         export.status = "READY" /\ ~export.due => export.object \in objects',
         maint'.token \in {0, maint.token, export.token},
         maint'.object \in {0, maint.object, export.object},
         maint'.listed \in {{}, maint.listed, objects}
  PROVE  IInv'
  <1>1. TaskType /\ BullType /\ RestType /\ Bounds
    BY TypesApart DEF IInv
  <1>. USE DEF IInv
  <1>2. BullType' /\ BullInv'
    BY <1>1 DEF BullType, BullInv
  <1>3. Keeps
    BY DEF Keeps
  <1>4. ExportInv'
    BY DEF ExportInv
  <1>5. SelectedIsSound'
    BY DEF SelectedIsSound, SelectedIsStored, SelectedIsWhole
  <1>. QED BY <1>2, <1>3, <1>4, <1>5, KeepsAreSound

LEMMA RowsOnlyRest ==
  ASSUME IInv, RowsOnly, UNCHANGED job
  PROVE  RestType' /\ UNCHANGED <<issued, bull, task, cut, partial>>
  <1>1. RestType
    BY TypesApart DEF IInv
  <1>. QED BY <1>1 DEF RowsOnly, RestType, outbox

LEMMA ExpiryIsSound ==
  ASSUME IInv, ReadReady \/ DropSelected \/ ListOthers \/ DropOthers
  PROVE  IInv'
  <1>1. Bounds /\ ExportInv /\ MaintInv
    BY TypesApart DEF IInv
  <1>2. UNCHANGED <<export, job>> /\ RestType' /\ UNCHANGED <<issued, bull, task, cut, partial>>
    BY RowsOnlyRest DEF ReadReady, DropSelected, ListOthers, DropOthers
  <1>3. export.due
    BY <1>1 DEF ReadReady, DropSelected, ListOthers, DropOthers, MaintInv
  <1>4. export.status # "PROCESSING" /\ objects' \subseteq objects
    BY <1>1, <1>3 DEF ReadReady, DropSelected, ListOthers, DropOthers, ExportInv, Done
  <1>5. export.object \in Nat /\ objects \in SUBSET Nat
    BY <1>1 DEF ExportInv, Exports, Bounds, Tokens
  <1>6. \E at \in {"dropSelected", "listOthers", "dropOthers", "markExpired"},
           object \in {maint.object, export.object}, listed \in {maint.listed, objects} :
             Maint(at, maint.status, maint.token, object, listed)
    BY <1>1, <1>5, MaintReadsObject, MaintGoes, MaintLists
       DEF ReadReady, DropSelected, ListOthers, DropOthers, MaintAt
  <1>7. MaintInv'
    BY <1>2, <1>3, <1>6 DEF MaintInv, Maint
  <1>. QED BY <1>2, <1>3, <1>4, <1>6, <1>7, StorageIsSound DEF Maint

LEMMA ReadOrphansIsSound ==
  ASSUME IInv, ReadOrphans
  PROVE  IInv'
  <1>1. Bounds /\ ExportInv /\ MaintInv
    BY TypesApart DEF IInv
  <1>2. PICK at \in {"askOrphans", "listOrphans"} : FindOrphans(at)
    BY DEF ReadOrphans
  <1>3. /\ UNCHANGED <<export, job, objects>> /\ RestType'
        /\ UNCHANGED <<issued, bull, task, cut, partial>>
    BY <1>2, RowsOnlyRest DEF FindOrphans
  <1>4. export.token \in Nat /\ export.status \in {"PROCESSING"} \cup Terminal
    BY <1>1 DEF ExportInv, Exports, ReadOrphans, Terminal
  <1>5. Maint(at, export.status, export.token, maint.object, maint.listed)
    BY <1>1, <1>2, <1>4, MaintFindsOrphans DEF FindOrphans
  <1>6. MaintInv'
    BY <1>3, <1>4, <1>5 DEF MaintInv, Maint, Terminal
  <1>7. export.status = "READY" /\ ~export.due => export.object \in objects
    BY DEF IInv, SelectedIsSound, SelectedIsStored
  <1>. QED BY <1>3, <1>5, <1>6, <1>7, StorageIsSound DEF Maint

LEMMA ListOrphansIsSound ==
  ASSUME IInv, ListOrphans
  PROVE  IInv'
  <1>1. Bounds /\ ExportInv /\ MaintInv
    BY TypesApart DEF IInv
  <1>2. /\ UNCHANGED <<export, job, objects>> /\ RestType'
        /\ UNCHANGED <<issued, bull, task, cut, partial>>
    BY RowsOnlyRest DEF ListOrphans
  <1>3. objects \in SUBSET Nat
    BY <1>1 DEF Bounds, Tokens
  <1>. DEFINE at == IF maint.status = "PROCESSING" THEN "recheck" ELSE "dropOrphans"
  <1>4. Maint(at, maint.status, maint.token, maint.object, objects)
    BY <1>1, <1>3, MaintLists DEF ListOrphans
  <1>5. MaintInv'
    BY <1>1, <1>2, <1>4 DEF MaintInv, Maint, ListOrphans, Terminal
  <1>6. export.status = "READY" /\ ~export.due => export.object \in objects
    BY DEF IInv, SelectedIsSound, SelectedIsStored
  <1>. QED BY <1>2, <1>4, <1>5, <1>6, StorageIsSound DEF Maint

\* A step after which the maintenance run is idle.
LEMMA EndPhaseIsSound ==
  ASSUME IInv, EndPhase, UNCHANGED <<export, job>>, RestType',
         UNCHANGED <<issued, bull, task, cut, partial>>,
         objects' \subseteq objects,
         export.status = "PROCESSING" /\ export.token \in objects => export.token \in objects',
         export.status = "READY" /\ ~export.due => export.object \in objects'
  PROVE  IInv'
  <1>1. Maint("idle", "NONE", 0, 0, {})
    BY MaintEnds
  <1>2. MaintInv'
    BY <1>1 DEF Maint, MaintInv
  <1>. QED BY <1>1, <1>2, StorageIsSound DEF Maint

LEMMA DropOrphansIsSound ==
  ASSUME IInv, DropOrphans
  PROVE  IInv'
  <1>1. Bounds /\ ExportInv /\ MaintInv
    BY TypesApart DEF IInv
  <1>2. /\ UNCHANGED <<export, job>> /\ RestType'
        /\ UNCHANGED <<issued, bull, task, cut, partial>> /\ EndPhase
    BY RowsOnlyRest DEF DropOrphans
  <1>3. CASE maint.status \in Terminal
    <2>1. export.status \notin {"PROCESSING", "READY"}
      BY <1>1, <1>3 DEF MaintInv, DropOrphans, Terminal
    <2>. QED BY <1>2, <2>1, EndPhaseIsSound DEF DropOrphans
  <1>4. CASE maint.status = "PROCESSING"
    <2>1. /\ export.token \in maint.listed => export.token \in Protected
          /\ export.object \in maint.listed => export.object \in Protected
      BY <1>1, <1>4 DEF MaintInv, DropOrphans, Protected
    <2>2. export.status = "READY" /\ ~export.due => export.object \in objects
      BY DEF IInv, SelectedIsSound, SelectedIsStored
    <2>. QED BY <1>2, <2>1, <2>2, EndPhaseIsSound DEF DropOrphans
  <1>. QED BY <1>1, <1>3, <1>4 DEF MaintInv, DropOrphans

\* The steps that only go on or stop.
LEMMA ReadingIsSound ==
  ASSUME IInv, \/ AskOrphans \/ RecheckOrphans \/ ReadQueued \/ FindDead
               \/ ReadStale \/ AskBull \/ ReadTerminal \/ MaintenanceFails
  PROVE  IInv'
  <1>1. Bounds /\ ExportInv /\ MaintInv /\ RestType /\ BullInv
    BY TypesApart DEF IInv
  <1>2. /\ UNCHANGED <<export, job, objects>>
        /\ UNCHANGED <<issued, bull, task, cut, partial>>
    BY DEF AskOrphans, RecheckOrphans, ReadQueued, FindDead, ReadStale, AskBull, ReadTerminal,
           MaintenanceFails, RowsOnly
  <1>3. RestType'
    BY <1>1, <1>2, AuditAssumption
       DEF AskOrphans, RecheckOrphans, ReadQueued, FindDead, ReadStale, AskBull, ReadTerminal,
           MaintenanceFails, RowsOnly, RestType, outbox, Fault
  <1>4. export.status = "READY" /\ ~export.due => export.object \in objects
    BY DEF IInv, SelectedIsSound, SelectedIsStored
  <1>5. CASE EndPhase
    BY <1>2, <1>3, <1>4, <1>5, EndPhaseIsSound
  <1>6. ASSUME NEW step \in {"listOrphans", "askAgain", "dropOrphans", "findDead", "failQueued",
                             "failStale", "deleteRow"},
               MaintGoto(step),
               step = "listOrphans" => maint.at = "askOrphans",
               step = "askAgain" => /\ maint.at = "recheck" /\ export.status = "PROCESSING"
                                    /\ export.token = maint.token,
               step = "dropOrphans" => maint.at = "askAgain",
               step = "failStale" => maint.at = "askBull" /\ ~BullActive
        PROVE  IInv'
    <2>1. MaintAt(step)
      BY <1>1, <1>6, MaintGoes
    <2>2. step = "askAgain" => export.object \notin maint.listed
      BY <1>1, <1>6 DEF ExportInv, Bounds, Tokens
    <2>3. step = "failStale" => maint.token # 0 /\ bull.owner \notin Workers
      BY <1>1, <1>6, AuditAssumption DEF MaintInv, BullActive, BullInv
    <2>4. MaintInv'
      BY <1>1, <1>2, <1>6, <2>1, <2>2, <2>3 DEF MaintAt, Maint, MaintInv
    <2>. QED BY <1>2, <1>3, <1>4, <2>1, <2>4, StorageIsSound DEF MaintAt, Maint
  <1>7. CASE ReadStale
    <2>1. export.token \in Nat /\ export.token # 0
      BY <1>1, <1>7 DEF ExportInv, Exports, ReadStale
    <2>2. Maint("askBull", maint.status, export.token, maint.object, maint.listed)
      BY <1>1, <1>7, <2>1, MaintReadsToken DEF ReadStale
    <2>3. MaintInv'
      BY <1>1, <1>2, <2>1, <2>2 DEF Maint, MaintInv
    <2>. QED BY <1>2, <1>3, <1>4, <2>2, <2>3, StorageIsSound DEF Maint
  <1>8. CASE AskOrphans \/ RecheckOrphans \/ ReadQueued \/ FindDead \/ AskBull \/ ReadTerminal
    BY <1>5, <1>6, <1>8 DEF AskOrphans, RecheckOrphans, ReadQueued, FindDead, AskBull, ReadTerminal
  <1>. QED BY <1>5, <1>7, <1>8 DEF MaintenanceFails

-----------------------------------------------------------------------------
(* The theorems *)

LEMMA InitIsSound == Init => IInv
  <1> SUFFICES ASSUME Init
               PROVE  IInv
    OBVIOUS
  <1>. USE AuditAssumption DEF Init
  <1>1. export \in Exports /\ maint \in Maints
    BY DEF Exports, NoMaint, Maints
  <1>2. ExportInv /\ MaintInv
    BY <1>1 DEF ExportInv, MaintInv, Active, Done, NoMaint
  <1>3. BullInv
    BY DEF BullInv
  <1>4. NoTask \in [at : Running \cup {"idle", "reading", "claiming", "return", "throw", "delay"},
                    token : Tokens \cup {0}, made : 0 .. MaxAttempts, seen : Tokens \cup {0},
                    stored : BOOLEAN, maySelect : BOOLEAN,
                    error : {"none", "lost", "retry", "final"}]
    BY DEF NoTask
  <1>5. TypeOK
    <2>1. /\ handler \in [Handlers -> {"idle", "adding"}]
          /\ bull \in [state : {"ABSENT", "WAITING", "RUNNING", "COMPLETED", "FAILED"},
                       made : 0 .. MaxAttempts, stalls : 0 .. MaxStalled,
                       owner : Workers \cup {Nobody, Ghost}]
      OBVIOUS
    <2>2. task \in [Workers -> [at : Running \cup {"idle", "reading", "claiming", "return", "throw",
                                                 "delay"},
                    token : Tokens \cup {0}, made : 0 .. MaxAttempts, seen : Tokens \cup {0},
                    stored : BOOLEAN, maySelect : BOOLEAN,
                    error : {"none", "lost", "retry", "final"}]]
      BY <1>4
    <2>3. maint.at = "idle" /\ maint.token = 0 /\ maint.object = 0 /\ maint.listed = {}
      BY DEF NoMaint
    <2>4. /\ export.status \in {"NONE", "QUEUED", "PROCESSING", "READY", "FAILED", "EXPIRED",
                                "GONE"}
          /\ export.token = 0 /\ export.object = 0 /\ export.due \in BOOLEAN
          /\ export.lease \in {"none", "live", "lapsed", "stale"}
      OBVIOUS
    <2>5. /\ job \in {"NONE", "QUEUED", "ACTIVE", "SUCCEEDED", "FAILED"}
          /\ request \in {"absent", "queued", "done", "dead", "abandoned"} /\ cut \in BOOLEAN
      OBVIOUS
    <2>6. issued \in Nat /\ faults \in 0 .. MaxFaults
      OBVIOUS
    <2>7. objects \subseteq Tokens /\ partial \subseteq Tokens
      OBVIOUS
    <2>. HIDE DEF Init
    <2>. QED BY <2>1, <2>2, <2>3, <2>4, <2>5, <2>6, <2>7 DEF TypeOK
  <1>6. (\A w \in Workers : WorkerInv(w)) /\ TokensDiffer
    BY DEF WorkerInv, TokensDiffer, NoTask, Running
  <1>7. SelectedIsSound
    BY DEF SelectedIsSound, SelectedIsStored, SelectedIsWhole
  <1>. QED BY <1>2, <1>3, <1>5, <1>6, <1>7 DEF IInv

LEMMA NextIsSound ==
  ASSUME IInv, [Next]_vars
  PROVE  IInv'
  <1>1. ASSUME NEW w \in Workers, Fetch(w) \/ Process(w) \/ Renew(w) \/ Trouble(w)
        PROVE  IInv'
    BY <1>1, WorkersMove, MovesAreSound
  <1>2. CASE Maintain
    BY <1>2, ExpiryIsSound, MarkExpiredIsSound, ReadOrphansIsSound, ListOrphansIsSound, DropOrphansIsSound,
       FailuresAreSound, ReadingIsSound, CutIsSound, DeleteRowIsSound DEF Maintain
  <1>3. CASE UNCHANGED vars
    <2>1. TaskType /\ BullType /\ RestType /\ Bounds
      BY TypesApart DEF IInv
    <2>2. RestType' /\ BullType' /\ BullInv'
      BY <1>3, <2>1 DEF vars, outbox, RestType, BullType, BullInv, IInv
    <2>. QED BY <1>3, <2>2, ElsewhereIsSound DEF vars, outbox
  <1>. QED BY <1>1, <1>2, <1>3, RequestIsSound, DeliveryIsSound, StallIsSound, ReadingIsSound,
              MissingIsSound, ClockIsSound DEF Next

\* The inductive invariant holds for any number of workers and handlers, for any limits
\* on attempts and stalls, whatever crashes, lost locks, failed calls and dead letters occur.
THEOREM InvariantHolds == Spec => []IInv
  <1>1. Init => IInv
    BY InitIsSound
  <1>2. IInv /\ [Next]_vars => IInv'
    BY NextIsSound
  <1>. QED BY <1>1, <1>2, PTL DEF Spec

\* Every variable holds a value of its type: attempts and stalls stay within Bull's
\* limits, and tokens, stored objects and listings within the tokens that were issued.
THEOREM TypeCorrect == Spec => []TypeOK
  <1>1. IInv => TypeOK
    BY DEF IInv
  <1>. QED BY <1>1, InvariantHolds, PTL

\* A ready export that is not due has its archive in storage, built from every log row
\* of its window (markReady's compare-and-set, reconcileReady, the protected keys of
\* cleanOrphanObjects, the watermark of deleteAuditBatch).
THEOREM SelectedSound == Spec => []SelectedIsSound
  <1>1. IInv => SelectedIsSound
    BY DEF IInv
  <1>. QED BY <1>1, InvariantHolds, PTL

LEMMA SparesStep ==
  ASSUME IInv, [Next]_vars
  PROVE  [maint.at = "failStale" /\ maint' # maint /\ export' # export =>
            ~\E w \in Workers : bull.owner = w /\ task[w].token = export.token]_vars
  <1> SUFFICES ASSUME Next, maint.at = "failStale", maint' # maint, export' # export
               PROVE  ~\E w \in Workers : bull.owner = w /\ task[w].token = export.token
    BY DEF vars
  <1>1. FailStale
    <2>1. ASSUME NEW w \in Workers, Fetch(w) \/ Process(w) \/ Renew(w) \/ Trouble(w)
          PROVE  FALSE
      BY <2>1, WorkersMove DEF Moves
    <2>2. ~\E h \in Handlers : Handle(h)
      BY DEF Handle, ReadRows, AddBullJob
    <2>. QED BY <2>1, <2>2
             DEF Next, Request, DeadLetter, WindowPasses, Revive, Stall, Maintain, ReadReady,
                 DropSelected, ListOthers, DropOthers, MarkExpired, ReadOrphans, FindOrphans,
                 AskOrphans, ListOrphans, RecheckOrphans, DropOrphans, ReadQueued, FindDead,
                 FailQueued, EndPhase, MaintGoto, ReadStale, AskBull, DeleteAuditBatch, ReadTerminal,
                 DeleteRow, MaintenanceFails, MarkConfirmedMissing, LeaseLapses,
                 ClaimGrowsStale, Expires, ClockOnly
  <1>2. export.token = maint.token
    BY <1>1 DEF FailStale
  <1>. QED BY <1>2 DEF IInv, MaintInv

\* repairAbandonedExports never fails an export while the worker that holds its token
\* also holds the Bull job: the row, the job and the claim are read at different times,
\* but a job that is fetched after the look at Bull gets another token.
THEOREM SparesRunning == Spec => MaintenanceSparesRunning
  <1>1. IInv /\ [Next]_vars =>
          [maint.at = "failStale" /\ maint' # maint /\ export' # export =>
             ~\E w \in Workers : bull.owner = w /\ task[w].token = export.token]_vars
    BY SparesStep
  <1>. QED BY <1>1, InvariantHolds, PTL DEF Spec, MaintenanceSparesRunning

-----------------------------------------------------------------------------
(* Rows and job keep the promise of AuditExportPromise *)

Told == <<phase, export.object, report, export.due>>
KeepsFaith == Promise!Next \/ UNCHANGED Told

LEMMA PhaseIs ==
  ASSUME ExportInv
  PROVE  /\ export.status = "NONE" => phase = "none" /\ report = "open"
         /\ export.status \in Active => phase = "requested" /\ report = "open"
         /\ export.status = "READY" => phase = "ready"
         /\ export.status = "FAILED" => phase = "failed"
         /\ export.status = "EXPIRED" => phase = "expired"
         /\ export.status = "GONE" => phase = "forgotten"
  BY DEF ExportInv, phase, report, Active

LEMMA PhaseIsThen ==
  /\ export'.status = "QUEUED" \/ export'.status = "PROCESSING" => phase' = "requested"
  /\ export'.status = "READY" => phase' = "ready"
  /\ export'.status = "FAILED" => phase' = "failed"
  /\ export'.status = "EXPIRED" => phase' = "expired"
  /\ export'.status = "GONE" => phase' = "forgotten"
  /\ export'.status = export.status => phase' = phase
  /\ job' \in {"NONE", "QUEUED", "ACTIVE"} => report' = "open"
  /\ job' = "SUCCEEDED" => report' = "succeeded"
  /\ job' = "FAILED" => report' = "failed"
  /\ job' = job => report' = report
  BY DEF phase, report, Active

LEMMA WorkersKeepFaith ==
  ASSUME IInv, NEW w \in Workers, Moves(w)
  PROVE  KeepsFaith
  <1>1. ExportInv /\ TaskType
    BY TypesApart DEF IInv
  <1>2. CASE SameRows
    BY <1>2, PhaseIsThen DEF SameRows, SameRow, Row, KeepsFaith, Told
  <1>3. CASE Claimed
    BY <1>1, <1>3, PhaseIs, PhaseIsThen DEF Claimed, Row, KeepsFaith, Told
  <1>4. CASE Selected(w)
    <2>1. task[w].token \in Nat \ {0}
      BY <1>1, <1>4 DEF Selected, Holds, TaskType, Tasks, ExportInv
    <2>2. phase = "requested" /\ phase' = "ready" /\ report' = "succeeded"
            /\ export'.object = task[w].token /\ export'.due = export.due
      BY <1>1, <1>4, PhaseIs, PhaseIsThen DEF Selected, Holds, Row, Active
    <2>. QED BY <2>1, <2>2 DEF KeepsFaith, Promise!Next, Promise!Complete
  <1>5. CASE Recorded(w)
    <2>1. phase = "requested" /\ report = "open" /\ export'.due = export.due
            /\ export'.object = export.object
      BY <1>1, <1>5, PhaseIs DEF Recorded, Holds, Row, Active
    <2>2. \/ phase' = "requested" /\ report' = "open"
          \/ phase' = "failed" /\ report' = "failed"
      BY <1>5, PhaseIsThen DEF Recorded, Row
    <2>. QED BY <2>1, <2>2 DEF KeepsFaith, Told, Promise!Next, Promise!Fail
  <1>. QED BY <1>2, <1>3, <1>4, <1>5 DEF Moves, RowMoves

LEMMA MaintenanceKeepsFaith ==
  ASSUME IInv, Maintain
  PROVE  KeepsFaith
  <1>1. ExportInv
    BY DEF IInv
  <1>2. CASE UNCHANGED <<export, job>>
    BY <1>2, PhaseIsThen DEF KeepsFaith, Told
  <1>3. CASE FailLinkedFacts /\ export.status \in Active
    <2>1. Row("FAILED", 0, export.object, export.due) /\ job' = "FAILED"
      BY <1>1, <1>3, RowGiven DEF FailLinkedFacts
    <2>. QED BY <1>1, <1>3, <2>1, PhaseIs, PhaseIsThen
             DEF Row, KeepsFaith, Promise!Next, Promise!Fail
  <1>4. CASE MarkExpired /\ export.status = "READY" /\ export.due
    <2>1. Row("EXPIRED", export.token, 0, export.due) /\ job' = job
      BY <1>1, <1>4, RowWithdrawn DEF MarkExpired, Terminal
    <2>. QED BY <1>1, <1>4, <2>1, PhaseIs, PhaseIsThen
             DEF Row, KeepsFaith, Promise!Next, Promise!Withdraw
  <1>5. CASE DeleteRow /\ export.status \in Terminal
    <2>1. Row("GONE", export.token, export.object, export.due) /\ job' = job
      BY <1>1, <1>5, RowStatus DEF DeleteRow
    <2>. QED BY <1>1, <1>5, <2>1, PhaseIs, PhaseIsThen
             DEF Row, Terminal, KeepsFaith, Promise!Next, Promise!Forget
  <1>. QED BY <1>2, <1>3, <1>4, <1>5
           DEF Maintain, ReadReady, DropSelected, ListOthers, DropOthers, MarkExpired, ReadOrphans,
               FindOrphans, AskOrphans, ListOrphans, RecheckOrphans, DropOrphans, ReadQueued,
               FindDead, FailQueued, ReadStale, AskBull, FailStale,
               DeleteAuditBatch, ReadTerminal, DeleteRow, RowsOnly, Active

LEMMA OthersKeepFaith ==
  ASSUME IInv, Request \/ MarkConfirmedMissing \/ LeaseLapses \/ ClaimGrowsStale \/ Expires
  PROVE  KeepsFaith
  <1>1. ExportInv
    BY DEF IInv
  <1>2. CASE Request
    <2>1. Row("QUEUED", export.token, export.object, export.due) /\ job' = "QUEUED"
      BY <1>1, <1>2, RowStatus DEF Request
    <2>. QED BY <1>1, <1>2, <2>1, PhaseIs, PhaseIsThen
             DEF Request, Row, KeepsFaith, Promise!Next, Promise!Request
  <1>3. CASE MarkConfirmedMissing
    <2>1. Row("FAILED", export.token, 0, export.due) /\ job' = job
      BY <1>1, <1>3, RowWithdrawn DEF MarkConfirmedMissing, Terminal
    <2>2. export.due /\ export.status = "READY"
      BY <1>1, <1>3 DEF IInv, MarkConfirmedMissing, SelectedIsSound, SelectedIsStored, ExportInv,
                        Exports
    <2>. QED BY <1>1, <2>1, <2>2, PhaseIs, PhaseIsThen
             DEF Row, KeepsFaith, Promise!Next, Promise!Withdraw
  <1>4. CASE LeaseLapses \/ ClaimGrowsStale
    <2>1. SameRow /\ job' = job
      BY <1>1, <1>4, RowLeased DEF LeaseLapses, ClaimGrowsStale, ClockOnly
    <2>. QED BY <2>1, PhaseIsThen DEF SameRow, Row, KeepsFaith, Told
  <1>5. CASE Expires
    <2>1. Row(export.status, export.token, export.object, TRUE) /\ job' = job
      BY <1>1, <1>5, RowDue DEF Expires, ClockOnly
    <2>. QED BY <1>1, <1>5, <2>1, PhaseIs, PhaseIsThen
             DEF Expires, Row, KeepsFaith, Promise!Next, Promise!ComesDue
  <1>. QED BY <1>2, <1>3, <1>4, <1>5

LEMMA PromiseStep ==
  IInv /\ [Next]_vars => [Promise!Next]_<<phase, export.object, report, export.due>>
  <1> SUFFICES ASSUME IInv, [Next]_vars
               PROVE  KeepsFaith
    BY DEF KeepsFaith, Told
  <1>1. ASSUME NEW w \in Workers, Fetch(w) \/ Process(w) \/ Renew(w) \/ Trouble(w)
        PROVE  KeepsFaith
    BY <1>1, WorkersMove, WorkersKeepFaith
  <1>2. ASSUME UNCHANGED <<export, job>>
        PROVE  KeepsFaith
    BY <1>2, PhaseIsThen DEF KeepsFaith, Told
  <1>3. ASSUME NEW h \in Handlers, Handle(h)
        PROVE  KeepsFaith
    BY <1>2, <1>3 DEF Handle, ReadRows, AddBullJob
  <1>4. CASE UNCHANGED vars \/ DeadLetter \/ WindowPasses \/ Revive \/ Stall \/ MaintenanceFails
    BY <1>2, <1>4 DEF vars, DeadLetter, WindowPasses, Revive, Stall, MaintenanceFails
  <1>. QED BY <1>1, <1>3, <1>4, MaintenanceKeepsFaith, OthersKeepFaith DEF Next

\* One answer to every request, told alike by both rows, and no archive withdrawn before
\* it is due: rows and job implement AuditExportPromise for any number of workers,
\* handlers, attempts and mishaps.
THEOREM KeepsPromiseAlways == Spec => KeepsPromise
  <1>1. Init => Promise!Init
    BY DEF Init, Promise!Init, phase, report, Active
  <1>. QED BY <1>1, PromiseStep, InvariantHolds, PTL DEF Spec, KeepsPromise, Promise!Spec

=============================================================================
