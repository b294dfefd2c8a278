---------------------------- MODULE OutboxPromise ----------------------------
(***************************************************************************)
(* What the outbox promises to the code that writes events and to the code *)
(* that handles them, with no worker, lease or attempt in sight: an event  *)
(* that was put is delivered at least once before it is acknowledged, an   *)
(* acknowledged event stays so, and an event given up on comes back only   *)
(* when an operator revives it.  Deliveries may repeat at any time, even   *)
(* after the acknowledgement, which is why every handler is idempotent.    *)
(***************************************************************************)
CONSTANT Events

VARIABLES
  phase,      \* [Events -> {"absent", "queued", "done", "dead"}]
  delivered   \* the events whose handler has resolved at least once

Init ==
  /\ phase = [e \in Events |-> "absent"]
  /\ delivered = {}

Put(e) ==
  /\ phase[e] = "absent"
  /\ phase' = [phase EXCEPT ![e] = "queued"]
  /\ UNCHANGED delivered

Deliver(e) ==
  /\ phase[e] # "absent"
  /\ delivered' = delivered \cup {e}
  /\ UNCHANGED phase

Acknowledge(e) ==
  /\ phase[e] = "queued"
  /\ e \in delivered
  /\ phase' = [phase EXCEPT ![e] = "done"]
  /\ UNCHANGED delivered

GiveUp(e) ==
  /\ phase[e] = "queued"
  /\ phase' = [phase EXCEPT ![e] = "dead"]
  /\ UNCHANGED delivered

Revive(e) ==
  /\ phase[e] = "dead"
  /\ phase' = [phase EXCEPT ![e] = "queued"]
  /\ UNCHANGED delivered

Next ==
  \E e \in Events : Put(e) \/ Deliver(e) \/ Acknowledge(e) \/ GiveUp(e) \/ Revive(e)

Spec == Init /\ [][Next]_<<phase, delivered>>
=============================================================================
