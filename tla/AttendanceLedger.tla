-------------------------- MODULE AttendanceLedger --------------------------
(***************************************************************************)
(* What the attendance service promises about one class session, whatever  *)
(* requests, retries, off-line queues, jobs and crashes lie behind it:     *)
(*                                                                         *)
(*   - the session is opened at most once and closed at most once, and a   *)
(*     closed session stays closed (it may be closed without having been   *)
(*     open, when the activation arrives after the token has expired);     *)
(*   - every place an accepted scan can take (one per student in person,   *)
(*     one per student and checkpoint on line) is taken by at most one     *)
(*     scan attempt, for good; an attempt takes at most one place; and no  *)
(*     place is taken before the session was opened.                       *)
(*                                                                         *)
(* InPersonSession and OnlineSession implement this specification.         *)
(***************************************************************************)
CONSTANTS
    Slots,      \* the places accepted scans can take
    Attempts,   \* scan attempts
    SlotsOf,    \* SlotsOf[i]: the places attempt i may take
    NoAttempt

VARIABLES
    phase,      \* "scheduled", "open" or "closed"
    winner      \* the attempt that took each place, or NoAttempt

ledgerVars == <<phase, winner>>

LedgerInit ==
    /\ phase = "scheduled"
    /\ winner = [sl \in Slots |-> NoAttempt]

Open ==
    /\ phase = "scheduled"
    /\ phase' \in {"open", "closed"}
    /\ UNCHANGED winner

Close ==
    /\ phase = "open"
    /\ phase' = "closed"
    /\ UNCHANGED winner

Accept(i, sl) ==
    /\ phase # "scheduled"
    /\ sl \in SlotsOf[i]
    /\ winner[sl] = NoAttempt
    /\ \A other \in Slots : winner[other] # i
    /\ winner' = [winner EXCEPT ![sl] = i]
    /\ UNCHANGED phase

LedgerNext ==
    \/ Open
    \/ Close
    \/ \E i \in Attempts, sl \in Slots : Accept(i, sl)

LedgerSpec == LedgerInit /\ [][LedgerNext]_ledgerVars

-----------------------------------------------------------------------------
(* What a session owes to implementing this *)

\* No two places are taken by one attempt, and none before the session was opened.
PlacesAreApart ==
    /\ phase = "scheduled" => \A sl \in Slots : winner[sl] = NoAttempt
    /\ \A sl, other \in Slots :
          winner[sl] # NoAttempt /\ winner[sl] = winner[other] => sl = other

\* Nothing gives a place that is taken to another attempt or takes it back, and
\* nothing opens a closed session again.
PlacesAreTakenForGood ==
    [][/\ \A sl \in Slots : winner[sl] # NoAttempt => winner'[sl] = winner[sl]
       /\ phase = "closed" => phase' = "closed"]_ledgerVars
=============================================================================
