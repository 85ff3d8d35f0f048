----------------------------- MODULE MCWorkdir ------------------------------
(* A small workdir for TLC: what the processes are called does not matter.  *)
EXTENDS Workdir, TLC

Symmetry == Permutations(Process)

=============================================================================
