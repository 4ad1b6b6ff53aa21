------------------------------- MODULE MCAnswer -------------------------------
(* Bounds for GroundedAnswer: questions of up to four phrases, three chunks   *)
(* of one year and one of another, in two documents, one with instructions.   *)
EXTENDS GroundedAnswer

CONSTANTS c1, c2, c3, c4, y1, y2, docA, docB

Of(doc, year, tokens, instructs) ==
  [doc |-> doc, year |-> year, tokens |-> tokens, instructs |-> instructs]
MCChunk ==
  c1 :> Of(docA, y1, 2, FALSE) @@ c2 :> Of(docA, y1, 1, FALSE) @@
  c3 :> Of(docB, y1, 3, FALSE) @@ c4 :> Of(docB, y2, 1, TRUE)

Cite(id, chunk, exact) == [id |-> id, chunk |-> chunk, exact |-> exact]
Citations ==
  {Cite(i, c, TRUE) : i \in 1 .. 3, c \in {c1, c2, c3}} \cup {Cite(1, c1, FALSE)}
MCReplies == {<< >>} \cup {<< c >> : c \in Citations} \cup {<< c, d >> : c, d \in Citations}

=============================================================================
