-------------------------- MODULE MCStudentImport --------------------------
(* Instances of StudentImport for TLC: a list of two chunks, one of whose  *)
(* students the background job imports too.                                *)
EXTENDS StudentImport, TLC

CONSTANTS s1, s2

TwoChunks == <<{s1}, {s2}>>
Interchangeable == Permutations(Polls) \cup Permutations(Runs)
=============================================================================
