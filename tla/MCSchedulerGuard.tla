-------------------------- MODULE MCSchedulerGuard --------------------------
(* Constants for TLC. *)
EXTENDS SchedulerGuard, TLC

Symmetry == Permutations(Proc)

=============================================================================
