--------------------------- MODULE ChatTurnLifecycle ---------------------------
(***************************************************************************)
(* What PostgreSQL promises about one chat turn to everybody who reads it: *)
(* a turn moves QUEUED -> ACTIVE -> SUCCEEDED | FAILED, or is cancelled; a *)
(* terminal state is never replaced by another; the answer is written      *)
(* exactly when the turn succeeds and never changes; and the background    *)
(* job gets its verdict with the turn or afterwards, and it is the turn's. *)
(***************************************************************************)
CONSTANTS Answers, NoAnswer

VARIABLES
  turn,      \* "ABSENT", or ChatTurn.status
  answer,    \* the assistant message of the turn, or NoAnswer
  verdict,   \* BackgroundJob.status once it is terminal, "OPEN" before
  events     \* terminal outbox events written for the turn

Verdicts == {"SUCCEEDED", "FAILED", "CANCELLED"}

Init ==
  /\ turn = "ABSENT"
  /\ answer = NoAnswer
  /\ verdict = "OPEN"
  /\ events = {}

Accept ==
  /\ turn = "ABSENT"
  /\ turn' = "QUEUED"
  /\ UNCHANGED <<answer, verdict, events>>

Start ==
  /\ turn = "QUEUED"
  /\ turn' = "ACTIVE"
  /\ UNCHANGED <<answer, verdict, events>>

Answer(a) ==
  /\ turn = "ACTIVE" /\ verdict = "OPEN"
  /\ turn' = "SUCCEEDED"
  /\ answer' = a
  /\ verdict' = "SUCCEEDED"
  /\ events' = events \cup {"completed"}

Fail ==
  /\ turn \in {"QUEUED", "ACTIVE"} /\ verdict = "OPEN"
  /\ turn' = "FAILED"
  /\ verdict' = "FAILED"
  /\ events' = events \cup {"failed"}
  /\ UNCHANGED answer

\* Cancellation writes the turn alone; its job is settled later.
Cancel ==
  /\ turn \in {"QUEUED", "ACTIVE"}
  /\ turn' = "CANCELLED"
  /\ UNCHANGED <<answer, verdict, events>>

SettleJob ==
  /\ turn \in Verdicts /\ verdict = "OPEN"
  /\ verdict' = turn
  /\ UNCHANGED <<turn, answer, events>>

Next == Accept \/ Start \/ (\E a \in Answers : Answer(a)) \/ Fail \/ Cancel \/ SettleJob

Spec == Init /\ [][Next]_<<turn, answer, verdict, events>>
=============================================================================
