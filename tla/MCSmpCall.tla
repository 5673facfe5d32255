------------------------------ MODULE MCSmpCall ------------------------------
(* Instance of SmpCall for TLC. *)
EXTENDS SmpCall

=============================================================================
