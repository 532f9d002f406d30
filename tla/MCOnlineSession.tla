-------------------------- MODULE MCOnlineSession --------------------------
(* Instances of OnlineSession for TLC: who made which attempt, and the sets *)
(* whose members are interchangeable.                                       *)
EXTENDS OnlineSession, TLC

CONSTANTS s1, s2, a1, a2

\* One student scans twice.
BothByS1 == [i \in {a1, a2} |-> s1]
\* Two students scan once each.
OneEach == [i \in {a1, a2} |-> IF i = a1 THEN s1 ELSE s2]
\* One student scans once.
OneScan == [i \in {a1} |-> s1]
\* Nobody scans.
NoScan == [i \in {} |-> s1]

Interchangeable ==
    Permutations(Requests) \cup Permutations(StartTokens) \cup Permutations(EndTokens)
=============================================================================
