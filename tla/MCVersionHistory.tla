-------------------------- MODULE MCVersionHistory --------------------------
(* A small workdir for TLC: what the processes are called does not matter.  *)
EXTENDS VersionHistory, TLC

Symmetry == Permutations(Process)

=============================================================================
