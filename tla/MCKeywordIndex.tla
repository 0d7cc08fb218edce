--------------------------- MODULE MCKeywordIndex ---------------------------
(* Three chunks and texts with no word, a repeated word and two words.      *)
EXTENDS KeywordIndex, TLC
CONSTANTS c1, c2, c3, a, b

MCChunks == {c1, c2, c3}
MCTerms  == {a, b}
MCTexts  == {<<>>, <<a>>, <<a, a>>, <<a, b>>, <<b, a, b>>}
Symmetry == Permutations(MCChunks)
=============================================================================
