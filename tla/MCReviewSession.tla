-------------------------- MODULE MCReviewSession ---------------------------
(* A small review for TLC: two paragraphs, a replacement and an insertion in *)
(* the first, and one decision.                                             *)
EXTENDS ReviewSession

CONSTANTS p1, p2, replacement, insertion, d1, r1, r2

MCWhere      == [e \in {replacement, insertion} |-> p1]
MCRevisionOf == [d \in {d1} |-> r1]

=============================================================================
