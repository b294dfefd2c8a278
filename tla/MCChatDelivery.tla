---------------------------- MODULE MCChatDelivery ----------------------------
(* One turn, two worker slots, one or two handler runs at a time. *)
EXTENDS ChatDelivery, TLC

CONSTANTS w1, w2, h1, h2, nobody, ghost

MCWorkers == {w1, w2}
MCHandlers == {h1}
MCTwoHandlers == {h1, h2}
MCSymmetry == Permutations(MCWorkers)

\* While no slot is at work the two are alike: the first to fetch a job is w1.
IdleSlotsAreAlike == (\A w \in Workers : pc[w] = "idle") => pc'[w2] = "idle"
=============================================================================
