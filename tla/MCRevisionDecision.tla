------------------------- MODULE MCRevisionDecision -------------------------
\* Small documents that hold every kind of revision, nested and shared ids, and one
\* with a table.
EXTENDS PackageDecision

LOCAL Rev(kind, id, n) == [kind |-> kind, id |-> id, n |-> <<n>>]
LOCAL Open(p, r) == [tag |-> "open", rev |-> r, par |-> p]
LOCAL Close(p, r) == [tag |-> "close", rev |-> r, par |-> p]
LOCAL Mark(p, r) == [tag |-> "mark", rev |-> r, par |-> p]
LOCAL Opaque(p) == [tag |-> "opaque", par |-> p]
LOCAL Text(p, w) == [tag |-> "text", text |-> w, form |-> "t", run |-> TRUE, par |-> p]
LOCAL Gone(p, w) == [tag |-> "text", text |-> w, form |-> "delText", run |-> TRUE, par |-> p]

LOCAL Outer == Rev("insert", 1, 1)
LOCAL Inner == Rev("delete", 2, 2)
LOCAL Cut == Rev("delete", 4, 3)
LOCAL Break == Rev("insert", 0, 4)
LOCAL From == Rev("move_from", 5, 5)
LOCAL Source == Rev("delete", 6, 6)
LOCAL To == Rev("move_to", 10, 7)
LOCAL Shut == Rev("insert", 8, 8)
LOCAL Empty == Rev("delete", 9, 9)

\* An insertion with a deletion in it, a deletion, a paragraph mark.
Nested ==
  << Mark("P1", Break), Text("P1", "a"), Open("P1", Outer), Text("P1", "b"),
     Open("P1", Inner), Gone("P1", "c"), Close("P1", Inner), Text("P1", "d"), Close("P1", Outer),
     Open("P1", Cut), Gone("P1", "e"), Close("P1", Cut) >>

\* A move whose source holds a deletion, a locked paragraph, an empty deletion.
Moved ==
  << Open("P1", From), Text("P1", "f"), Open("P1", Source), Gone("P1", "g"), Close("P1", Source),
     Close("P1", From), Open("P1", Empty), Close("P1", Empty),
     Open("P2", To), Text("P2", "f"), Close("P2", To),
     Opaque("P3"), Open("P3", Shut), Text("P3", "h"), Close("P3", Shut) >>

\* Two revisions that share an id.
Twins ==
  << Open("P1", Cut), Gone("P1", "e"), Close("P1", Cut),
     Open("P2", Rev("delete", 4, 10)), Gone("P2", "e"), Close("P2", Rev("delete", 4, 10)) >>

LOCAL Begin(of, spans, props) ==
  [tag |-> "begin", of |-> of, spans |-> spans, props |-> props, par |-> Outside]
LOCAL Tbl == Begin("tbl", <<>>, FALSE)
LOCAL Tr == Begin("tr", <<>>, FALSE)
LOCAL Tc == Begin("tc", <<>>, TRUE)
LOCAL End(of) == [tag |-> "end", of |-> of, par |-> Outside]
LOCAL Anchor(p, c, side) == [tag |-> "anchor", comment |-> c, side |-> side, short |-> TRUE, par |-> p]

\* A deletion alone in a cell, a comment that starts in one row and ends in the
\* next, a row somebody inserted, a table in a cell without properties.
Grid ==
  << Tbl,
       Tr, Tc, Anchor("C1", 1, "start"), Text("C1", "a"), End("tc"),
           Tc, Open("C2", Cut), Gone("C2", "e"), Close("C2", Cut), End("tc"), End("tr"),
       Anchor(Outside, 1, "end"),
       Tr, Mark(Outside, Break), Begin("tc", <<>>, FALSE),
             Tbl, Tr, Tc, Text("C3", "n"), End("tc"), End("tr"), End("tbl"),
           End("tc"),
           Tc, Anchor("C4", 1, "reference"), Text("C4", "b"), End("tc"), End("tr"),
     End("tbl") >>
\* A row and a merged cell over two, one of them commented; an inserted text ends a
\* comment that is not defined.
Merged ==
  << Tbl, Tr, Begin("tc", <<2>>, TRUE), Text("C1", "a"), End("tc"), End("tr"),
       Tr, Tc, Anchor("C2", 1, "reference"), Open("C2", Outer), Text("C2", "b"),
           Anchor("C2", 2, "end"), Close("C2", Outer), End("tc"), Tc, End("tc"), End("tr"), End("tbl") >>

\* A table two deep in a cell, before a revision, and a row below.
Deep ==
  << Tbl, Tr, Tc,
         Tbl, Tr, Tc, Tbl, Tr, Tc, Text("C1", "n"), End("tc"), End("tr"), End("tbl"),
                      Text("C2", "m"), End("tc"), End("tr"), End("tbl"),
         Open("C3", Cut), Gone("C3", "e"), Close("C3", Cut), End("tc"), End("tr"),
       Tr, Tc, Text("C4", "b"), End("tc"), End("tr"), End("tbl") >>

LOCAL In(d, elsewhere, anchors) == [doc |-> d, others |-> elsewhere, afar |-> anchors]
MCStart ==
  {In(Nested, {3}, {}), In(Tail(Nested), {}, {}), In(Moved, {}, {}), In(Twins, {}, {}),
   In(Grid, {}, {}), In(Merged, {}, {1}), In(Deep, {}, {})}
=============================================================================
