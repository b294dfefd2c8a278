--------------------------- MODULE MCChatRunBudget ---------------------------
(* Two runners of one turn: the WORKER fence and two model stages. *)
EXTENDS ChatRunBudget, Functions, TLC

CONSTANTS worker, router, final, r1, r2

MCIds == {worker, router, final}
MCRunners == {r1, r2}
\* WORKER reserves nothing but a call; the two model stages cannot both be
\* afforded unless the first is settled below its request.
MCRequest == (worker :> 0) @@ (router :> 1) @@ (final :> 2)
MCSymmetry == Permutations(MCRunners)

\* Counting units is adding up.
ASSUME UnitsAddUp ==
  \A f \in [MCIds -> 0 .. 2], S \in SUBSET MCIds : Total(f, S) = SumFunctionOnSet(f, S)
=============================================================================
