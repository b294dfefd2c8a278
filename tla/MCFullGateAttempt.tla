--------------------------- MODULE MCFullGateAttempt ---------------------------
(* Two pairs, so that there is one behind a pair that failed; three seal commands, so *)
(* that two can contend for the claim a third one left.                               *)
EXTENDS FullGateAttempt, TLC

CONSTANTS s1, s2, s3, nobody
MCSealers == {s1, s2, s3}
MCSymmetry == Permutations(MCSealers)

Looks(s) == sealer[s].at = "idle" /\ sealer'[s].at # "idle"

\* A journal seen while it is being written is as outdated as one seen when the writing
\* began, so that seals need to look then or when nobody writes.
Writing == RunAlive \/ \E s \in Sealers : sealer[s].mem.claimer = s
LooksWhenItMatters == \A s \in Sealers : Looks(s) => ~Writing \/ journal.n <= 1

\* The third one comes to take over the claim of a dead one that wrote nothing, whatever
\* the journal breaks off with: an attempt in its first pair shows as much as a later one.
ThirdTakesOver ==
  \A s \in Sealers : Looks(s) /\ (\A t \in Sealers \ {s} : sealer[t].at # "idle") =>
    /\ claim.whole /\ ~SealerAlive(claim.by) /\ ~RunAlive
    /\ journal.claimer = Nobody /\ journal.pairs = 0
=============================================================================
