----------------------------- MODULE MCOfflineSync -----------------------------
(* Two tabs, a card and a wrong question. *)
EXTENDS OfflineSync

CONSTANTS p1, p2, question1

MCTabs == {p1, p2}

\* The tabs are alike until the first command: every other behaviour is one of these
\* with the tabs renamed.
FirstTabAsksFirst == asked = <<>> => saver'[p2].at = "idle"

\* Edits never meet the old endpoint: its review is explored beside ratings.
OldEndpointBesideRatings ==
  \/ direct'.at = "idle" /\ direct'.done = 0
  \/ \A n \in 1 .. Len(asked') : asked'[n].kind = "rating"
=============================================================================
