---------------------- MODULE MCKnowledgeProcessing ----------------------
(* KnowledgeProcessing on small instances.                                *)
EXTENDS KnowledgeProcessing, TLC

CONSTANTS w1, w2, q1, q2, e1, e2

MCBothModes == {"inline", "queue"}
MCQueueMode == {"queue"}

\* Idle slots are alike: the first of them starts.
Starts(r) == task[r].at = "idle" /\ task'[r].at # "idle"
IdleSlotsAreAlike ==
  /\ Starts(w2) => task[w1].at # "idle"
  /\ Starts(q2) => task[q1].at # "idle"
=============================================================================
