-------------------------- MODULE MCConversationMemory --------------------------
(* Two requests at a time; patches of either field. *)
EXTENDS ConversationMemory, TLC

CONSTANTS r1, r2

MCRequests == {r1, r2}
MCPatches == {"activeGoal" :> 1, "activeQuestionId" :> 1}

\* The state and the summary meet only in the conversation being there: what happens
\* to the one is explored while the other is still empty.
OneHalfAtATime == states = <<>> \/ texts = 0
MCSymmetry == Permutations(MCRequests)
=============================================================================
