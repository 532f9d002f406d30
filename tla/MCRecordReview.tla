--------------------------- MODULE MCRecordReview ---------------------------
(* Instances of RecordReview for TLC. *)
EXTENDS RecordReview, TLC

Interchangeable == Permutations(Clients) \cup Permutations(Reviewers) \cup Permutations(Submissions)
=============================================================================
