------------------------------ MODULE MCOutbox ------------------------------
(* Model values for the outbox: two dispatcher processes share two events. *)
EXTENDS Outbox, TLC

CONSTANTS w1, w2, w3, nobody

MCWorkers == {w1, w2}
MCThree == {w1, w2, w3}
MCSymmetry == Permutations(MCWorkers)
=============================================================================
