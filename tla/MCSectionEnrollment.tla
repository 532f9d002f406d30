------------------------ MODULE MCSectionEnrollment ------------------------
(* Instances of SectionEnrollment for TLC. *)
EXTENDS SectionEnrollment, TLC

\* Everything that changes the roster, and no delegation.
RosterOperations == {"join", "enroll", "remove", "import"}

Interchangeable == Permutations(Students) \cup Permutations(Requests)
=============================================================================
