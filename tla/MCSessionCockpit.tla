------------------------- MODULE MCSessionCockpit -------------------------
(* Instances of SessionCockpit for TLC. *)
EXTENDS SessionCockpit, TLC
=============================================================================
