------------------------------ MODULE MCMempool ------------------------------
(* Instances of Mempool for TLC. *)
EXTENDS Mempool, TLC

Symmetry == Permutations(PROCS \ RESIZERS)

=============================================================================
