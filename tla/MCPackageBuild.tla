--------------------------- MODULE MCPackageBuild ---------------------------
(* Instances of PackageBuild: letters 1 and 2 are the template's, 3 is new.  *)
EXTENDS PackageVerify

Word(text) == Run(text, "plain")
Mark == [k |-> "mark", id |-> 1]
Link == [k |-> "link", id |-> 1]

\* Word's own revision beside the text, an anchor between two runs, and a
\* paragraph nobody edits; a tab beside the text, and a link inside a revision.
MCTemplates ==
  { << <<Word(<<1, 2>>), Mark, Run(<<1>>, "bold")>> >>,
    << <<Open("ins", 1, <<"word", 0>>), Word(<<3>>), Close("ins"), Word(<<1>>),
         Open("del", 2, <<"word", 0>>), Gone(<<1>>, "plain"), Close("del")>>,
       <<Link, Word(<<2>>), Close("link")>> >>,
    << <<[Word(<<1>>) EXCEPT !.tab = TRUE], Open("ins", 1, <<"word", 0>>), Link, Word(<<2>>),
         Close("link"), Close("ins")>> >> }
MCNewTexts == {<<3>>}
\* No definition tells the reviewers apart.
MCSymmetry == Permutations(Makers)
=============================================================================
