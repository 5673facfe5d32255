--------------------------- MODULE MCHotplugThread ---------------------------
(* Instance of HotplugThread for TLC. *)
EXTENDS HotplugThread

=============================================================================
