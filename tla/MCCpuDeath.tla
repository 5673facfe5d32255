----------------------------- MODULE MCCpuDeath ------------------------------
(* Instance of CpuDeath for TLC: one CPU of each kind of architecture. *)
EXTENDS CpuDeath

=============================================================================
