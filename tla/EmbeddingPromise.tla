-------------------------- MODULE EmbeddingPromise --------------------------
(***************************************************************************)
(* What embedding.EmbedBatch promises its caller: after a while, one       *)
(* error for all texts or an answer with the vector of each text in the    *)
(* place of that text, or none there.  The vector of a text is the number  *)
(* of the text.                                                            *)
(***************************************************************************)
CONSTANTS Texts, NoVector
VARIABLE answer

Init == answer = <<"pending">>

Return ==
  /\ answer = <<"pending">>
  /\ \/ answer' = <<"error">>
     \/ \E missing \in SUBSET Texts :
          answer' = <<"vectors", [t \in Texts |-> IF t \in missing THEN NoVector ELSE t]>>

\* What is returned, without that something is.
Safe == Init /\ [][Return]_answer

Spec == Safe /\ WF_answer(Return)
=============================================================================
