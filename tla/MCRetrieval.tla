----------------------------- MODULE MCRetrieval -----------------------------
(***************************************************************************)
(* Two files of two texts.  "q1" matches one text by its words and both by  *)
(* their vectors, "q2" the other text by both; each is close enough to the  *)
(* other for a semantic hit.                                                *)
(***************************************************************************)
EXTENDS Retrieval, TLC

CONSTANTS c1, c2

LexicalMatches == {<<"q1", "a">>, <<"q2", "b">>}
NearMatches == {<<"q1", "a">>, <<"q1", "b">>, <<"q2", "b">>}
AlikeQueries == {<<"q1", "q2">>, <<"q2", "q1">>}
Symmetry == Permutations(Calls)
==============================================================================
