-------------------------- MODULE MCGenerationStore --------------------------
(* Instances of GenerationStore for TLC: which steps an I/O error may strike. *)
EXTENDS GenerationStore, TLC

\* The steps before the pointer moves.
PointsBeforeSwap == {"intent"} \cup BeforeSwap

\* Every step of mutate() and of recovery but those whose ignored error leaves behind what
\* was to be undone (UndoSucceeds of the proofs).
AnyPointOfMutateOrRecovery ==
  PointsBeforeSwap \cup AfterSwap
    \cup {"forward-materialize", "forward-ledger", "forward-close", "settle-ledger"}
    \cup {"fail", "back-close", "remove", "dismiss"}

\* These as well.
AnyPoint == AnyPointOfMutateOrRecovery \cup {"restore", "discard", "sweep"}

\* Nothing tells two writers apart.
Symmetry == Permutations(Writers)
=============================================================================
