---------------------------- MODULE MCLeafEdits ----------------------------
(* Instances of LeafEdits: a letter is a number, 3 is in no template.        *)
EXTENDS LeafEdits

Text(w) == [text |-> w, shown |-> TRUE]
Deleted(w) == [text |-> w, shown |-> FALSE]

\* A run the caller does not see between two that share a letter, two runs
\* that read alike, and one that holds its letter twice.
MCTemplates ==
  { <<Text(<<1>>), Deleted(<<2>>), Text(<<1, 2>>)>>,
    <<Text(<<1>>), Text(<<1>>)>>,
    <<Text(<<1, 1>>)>> }
MCNewTexts == {<<>>, <<2, 3>>}
=============================================================================
