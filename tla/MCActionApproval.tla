-------------------------- MODULE MCActionApproval --------------------------
(* Constants for TLC: the symmetry of ids, which only ever are compared. *)
EXTENDS ActionApproval, TLC

Symmetry == Permutations(Proc) \union Permutations(Task) \union Permutations(Action)

=============================================================================
