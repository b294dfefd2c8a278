----------------------------- MODULE MCChatStream -----------------------------
(* Two deliveries whose texts differ or agree, or one alone; a chunk is stored in
   two units, every other event in one. *)
EXTENDS ChatStream, TLC

CONSTANT t1
MCTabs == {t1}
MCSameChunks == << <<"a">>, <<"a">> >>
MCOneDelivery == << <<"a", "b">> >>
MCShortChunks == << <<"a">>, <<"b">> >>
MCBytes == [id \in EventIds |-> IF id \in {"a", "b"} THEN 2 ELSE 1]
=============================================================================
