-------------------------- MODULE MCAccountAccess --------------------------
(* Instances of AccountAccess for TLC. *)
EXTENDS AccountAccess, TLC

Interchangeable == Permutations(Logins) \cup Permutations(Devices)
=============================================================================
