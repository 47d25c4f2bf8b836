---------------------------- MODULE MCReconciler ----------------------------
(***************************************************************************)
(* Small instances of the reconciliation loop for TLC.                     *)
(***************************************************************************)
EXTENDS ReconcilerInvariant, ReconcilerClaims, TLC

\* Scope lists are only ever compared with each other, and none is chosen.
ScopeSymmetry == Permutations(Scopes)

=============================================================================
