-------------------------- MODULE MCExternalPublish --------------------------
(* Instances of ExternalPublish for TLC.                                      *)
EXTENDS ExternalPublish, TLC

\* Nothing in the specification tells two processes or two Operation-IDs apart.
Symmetry == Permutations(Processes) \cup Permutations(Ops)
=============================================================================
