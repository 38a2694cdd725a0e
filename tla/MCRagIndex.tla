------------------------------ MODULE MCRagIndex ------------------------------
(* Instances of RagIndex for TLC: one task with texts that share a chunk, grow *)
(* and shrink, and one comment on it.                                          *)
EXTENDS RagIndex, TLC

CONSTANTS t1, c1, a, b, d

MCTaskOf      == c1 :> t1
MCCommentText == c1 :> <<d>>
MCTexts       == {<<>>, <<a>>, <<a, b>>, <<b, a>>}

\* Jobs are interchangeable.
Symmetry == Permutations(Slots)
=============================================================================
