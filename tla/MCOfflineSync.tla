-------------------------- MODULE MCOfflineSync --------------------------
(* Instances of OfflineSync for TLC. *)
EXTENDS OfflineSync

CONSTANTS s1

\* A drain sends one scan; another client sends the same scan twice in a request.
Twice == {<<s1>>, <<s1, s1>>}
=============================================================================
