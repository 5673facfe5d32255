--------------------------- MODULE MCKthreadWorker ---------------------------
(* Instances of KthreadWorker for TLC. *)
EXTENDS KthreadWorker
=============================================================================
