------------------------- MODULE MCDocumentSurface -------------------------
EXTENDS DocumentSurface, TLC
\* "aAa" and "wa": overlapping, folded and mixed hits.
MCStart == << [id |-> 1, text |-> <<"a", "A">>, base |-> "plain"],
              [id |-> 2, text |-> <<"w", "a">>, base |-> "bold"] >>
MCQueries == {<<"a">>, <<"a", "a">>}
MCNewText == <<"a">>
MCNewTexts == {<<"w", "w">>, <<>>}
Symmetry == Permutations(Sessions) \union Permutations(Ops)
=============================================================================
