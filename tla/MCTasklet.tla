------------------------------ MODULE MCTasklet ------------------------------
(* Instances of Tasklet for TLC. *)
EXTENDS Tasklet, TLC

Symmetry == Permutations(CPUS) \cup Permutations(TASKS)

=============================================================================
