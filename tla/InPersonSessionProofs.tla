------------------------ MODULE InPersonSessionProofs ------------------------
(***************************************************************************)
(* Proofs about InPersonSession, for every set of students, attempts,      *)
(* tokens, requests, devices and closers, every assignment of attempts to  *)
(* students and every value of the time bounds.                            *)
(***************************************************************************)
EXTENDS InPersonSession, TLAPS

-----------------------------------------------------------------------------
(* Types *)

\* Whatever is in progress carries an attempt and a token.
InProgressCarries ==
    /\ \A r \in Requests : request[r].phase # "idle" =>
          request[r].id \in Attempts /\ request[r].token \in Tokens
    /\ \A d \in Devices : activation[d].phase = "claiming" => activation[d].token \in Tokens

Typed == TypeOK /\ InProgressCarries

USE DEF Times, NoTime

\* The deadline of a token is a time or null.
LEMMA DeadlineType ==
    ASSUME TypeOK, NEW k \in Tokens
    PROVE  Deadline(k) \in Times \cup {NoTime}
BY TimeAssumption, SMT DEF TypeOK, Deadline

\* Rows that are seeded, marked absent or created are rows.
LEMMA RowType ==
    /\ \A st \in Statuses : SeededRow(st) \in Row
    /\ NoRow \in Row
BY DEF SeededRow, NoRow, Row, Statuses

LEMMA SeededType ==
    ASSUME TypeOK, NEW st \in {"pending", "absent"}
    PROVE  Seeded(st) \in [Students -> Row]
BY RowType DEF TypeOK, Seeded, HasRow, Statuses

LEMMA MarkAbsentType ==
    ASSUME NEW rows \in [Students -> Row]
    PROVE  MarkAbsent(rows) \in [Students -> Row]
BY DEF MarkAbsent, Row, Statuses

LEMMA IdleType ==
    /\ IdleRequest \in Request
    /\ IdleActivation \in Activation
    /\ IdleCloser \in Closer
BY TimeAssumption DEF IdleRequest, Request, IdleActivation, Activation, IdleCloser, Closer

-----------------------------------------------------------------------------
LEMMA TypedInit == Init => Typed
<1> SUFFICES ASSUME Init PROVE Typed
    OBVIOUS
<1>1. record \in [Students -> Row] /\ request \in [Requests -> Request]
      /\ activation \in [Devices -> Activation] /\ closer \in [Closers -> Closer]
    BY IdleType, RowType DEF Init
<1>2. issuedAt \in [Tokens -> 0..LastIssue \cup {NoTime}] /\ outcome \in [Attempts -> Outcomes]
    BY DEF Init, Outcomes
<1>3. now \in Times /\ autoEndAt \in Times \cup {NoTime} /\ failures \in 0..MaxFailures
    BY TimeAssumption, FailureAssumption DEF Init
<1>4. /\ isActive \in BOOLEAN /\ ended \in BOOLEAN /\ qrToken \in Tokens \cup {NoToken}
      /\ enrolled \subseteq Students /\ notified \subseteq Students
    BY DEF Init
<1>5. InProgressCarries
    BY DEF Init, InProgressCarries, IdleRequest, IdleActivation
<1> QED BY <1>1, <1>2, <1>3, <1>4, <1>5 DEF Typed, TypeOK

\* Every step keeps the types: one case per action.
LEMMA TypedStep == Typed /\ [Next]_vars => Typed'
<1> SUFFICES ASSUME Typed, [Next]_vars PROVE Typed'
    OBVIOUS
<1> USE DEF Typed
<1>1. CASE Tick
    BY <1>1, TimeAssumption DEF Tick, TypeOK, InProgressCarries, sessionVars
<1>2. ASSUME NEW k \in Tokens, SignToken(k) PROVE Typed'
    BY <1>2, TimeAssumption DEF SignToken, TypeOK, InProgressCarries, sessionVars
<1>3. ASSUME NEW s \in Students, Enroll(s) \/ Remove(s) PROVE Typed'
    BY <1>3 DEF Enroll, Remove, TypeOK, InProgressCarries, sessionVars
<1>4. ASSUME NEW d \in Devices, NEW k \in Tokens, ActivateRead(d, k) PROVE Typed'
    BY <1>4 DEF ActivateRead, TypeOK, InProgressCarries, Activation, sessionVars
<1>5. ASSUME NEW d \in Devices, ActivateWin(d) PROVE Typed'
  <2> DEFINE k == activation[d].token
  <2>1. k \in Tokens /\ activation[d].receivedAt \in Times
      BY <1>5 DEF ActivateWin, TypeOK, InProgressCarries, Activation
  <2>2. Deadline(k) \in Times \cup {NoTime}
      BY <2>1, DeadlineType
  <2>3. record' \in [Students -> Row]
      BY <1>5, SeededType, MarkAbsentType DEF ActivateWin
  <2>4. activation' \in [Devices -> Activation]
      BY <1>5, IdleType DEF ActivateWin, TypeOK
  <2> QED BY <1>5, <2>1, <2>2, <2>3, <2>4
          DEF ActivateWin, TypeOK, InProgressCarries, IdleActivation
<1>6. ASSUME NEW d \in Devices, ActivateLose(d) \/ DeviceDies(d) PROVE Typed'
    BY <1>6, IdleType, FailureAssumption
    DEF ActivateLose, DeviceDies, TypeOK, InProgressCarries, IdleActivation, sessionVars
<1>7. ASSUME NEW r \in Requests, NEW i \in Attempts, NEW k \in Tokens, NEW off \in BOOLEAN,
             Deliver(r, i, k, off)
      PROVE Typed'
  <2>1. request' \in [Requests -> Request]
      BY <1>7 DEF Deliver, TypeOK, Request, IdleRequest
  <2> QED BY <1>7, <2>1 DEF Deliver, TypeOK, InProgressCarries, IdleRequest, sessionVars
<1>8. ASSUME NEW r \in Requests, ScanActivateWin(r) PROVE Typed'
  <2>1. record' \in [Students -> Row]
      BY <1>8, SeededType DEF ScanActivateWin
  <2>2. request' \in [Requests -> Request]
      BY <1>8 DEF ScanActivateWin, TypeOK, Request
  <2> QED BY <1>8, <2>1, <2>2 DEF ScanActivateWin, TypeOK, InProgressCarries
<1>9. ASSUME NEW r \in Requests, ScanActivateLose(r) PROVE Typed'
    BY <1>9 DEF ScanActivateLose, TypeOK, InProgressCarries, Request, sessionVars
<1>10. ASSUME NEW r \in Requests, ValidateAccept(r) PROVE Typed'
  <2>1. PICK e \in Evidence, t \in ScanTimes(request[r]) :
           /\ Verdict(request[r], e, t) # "denied"
           /\ request' = [request EXCEPT ![r].phase = "writing",
                                         ![r].verdict = Verdict(request[r], e, t)]
      BY <1>10 DEF ValidateAccept
  <2>2. Verdict(request[r], e, t) \in {"present", "late", "disputed"}
      BY <2>1 DEF Verdict, Evidence
  <2>3. [request[r] EXCEPT !.phase = "writing", !.verdict = Verdict(request[r], e, t)] \in Request
      BY <2>2 DEF TypeOK, Request
  <2>4. request' = [request EXCEPT ![r] =
           [request[r] EXCEPT !.phase = "writing", !.verdict = Verdict(request[r], e, t)]]
      BY <2>1 DEF TypeOK
  <2>5. /\ request[r].phase = "validating"
        /\ UNCHANGED <<now, issuedAt, sessionVars, enrolled, record, outcome,
                       activation, closer, notified, failures>>
      BY <1>10 DEF ValidateAccept
  <2>6. request' \in [Requests -> Request]
      BY <2>3, <2>4 DEF TypeOK
  <2>7. InProgressCarries'
      BY <2>4, <2>5 DEF TypeOK, Request, InProgressCarries
  <2> QED BY <2>5, <2>6, <2>7 DEF TypeOK, sessionVars
<1>11. ASSUME NEW r \in Requests, ValidateDeny(r) PROVE Typed'
    BY <1>11, IdleType
    DEF ValidateDeny, TypeOK, InProgressCarries, IdleRequest, Outcomes, sessionVars
<1>12. ASSUME NEW r \in Requests, WriteAccept(r) PROVE Typed'
  <2> DEFINE q == request[r]
             s == Owner[q.id]
  <2>1. q \in Request /\ q.id \in Attempts /\ q.token \in Tokens /\ s \in Students
      BY <1>12, OwnerAssumption DEF WriteAccept, TypeOK, InProgressCarries
  <2>2. [status |-> q.verdict, manuallySet |-> FALSE,
         tokenSnapshot |-> q.token, acceptedScanAttemptId |-> q.id] \in Row
      BY <2>1 DEF Request, Row, Statuses
  <2>3. Outcome(q.verdict) \in Outcomes
      BY <2>1 DEF Outcome, Outcomes, Request
  <2> QED BY <1>12, <2>1, <2>2, <2>3, IdleType
          DEF WriteAccept, TypeOK, InProgressCarries, IdleRequest, sessionVars
<1>13. ASSUME NEW r \in Requests, WriteDuplicate(r) \/ WriteAbort(r) \/ RequestDies(r) PROVE Typed'
  <2>1. request' = [request EXCEPT ![r] = IdleRequest]
      BY <1>13 DEF WriteDuplicate, WriteAbort, RequestDies
  <2>2. request' \in [Requests -> Request] /\ InProgressCarries'
      BY <1>13, <2>1, IdleType
      DEF WriteDuplicate, WriteAbort, RequestDies, TypeOK, InProgressCarries, IdleRequest
  <2>3. outcome' \in [Attempts -> Outcomes]
      BY <1>13 DEF WriteDuplicate, WriteAbort, RequestDies, TypeOK, Outcomes
  <2>4. failures' \in 0..MaxFailures
      BY <1>13, FailureAssumption DEF WriteDuplicate, WriteAbort, RequestDies, TypeOK
  <2> QED BY <1>13, <2>2, <2>3, <2>4
          DEF WriteDuplicate, WriteAbort, RequestDies, TypeOK, sessionVars
<1>14. ASSUME NEW i \in Attempts, Refuse(i) PROVE Typed'
    BY <1>14 DEF Refuse, TypeOK, InProgressCarries, Outcomes, sessionVars
<1>15. ASSUME NEW s \in Students, NEW st \in ManualStatuses, UpdateStatus(s, st) PROVE Typed'
  <2>1. record' \in [Students -> Row]
      BY <1>15, StatusAssumption DEF UpdateStatus, TypeOK, Row
  <2> QED BY <1>15, <2>1 DEF UpdateStatus, TypeOK, InProgressCarries, sessionVars
<1>16. ASSUME NEW s \in Students, NEW st \in ManualStatuses, CreateManual(s, st) PROVE Typed'
  <2>1. Target(s) \in Row
      BY RowType DEF Target, TypeOK, Statuses
  <2>2. [Target(s) EXCEPT !.status = st, !.manuallySet = TRUE] \in Row
      BY <2>1, StatusAssumption DEF Row
  <2> QED BY <1>16, <2>2 DEF CreateManual, TypeOK, InProgressCarries, sessionVars
<1>17. ASSUME NEW c \in Closers, EndClaim(c) \/ CronRead(c) \/ CronClaim(c) PROVE Typed'
  <2>1. PendingStudents \in SUBSET Students
      BY DEF PendingStudents
  <2>2. closer' \in [Closers -> Closer]
      BY <1>17, <2>1, IdleType DEF EndClaim, CronRead, CronClaim, TypeOK, Closer
  <2> QED BY <1>17, <2>2
          DEF EndClaim, CronRead, CronClaim, TypeOK, InProgressCarries, sessionVars
<1>18. ASSUME NEW c \in Closers, CloseCommit(c) PROVE Typed'
  <2>1. closer[c].pending \subseteq Students
      BY DEF TypeOK, Closer
  <2>2. record' \in [Students -> Row]
      BY <1>18, MarkAbsentType DEF CloseCommit, TypeOK
  <2> QED BY <1>18, <2>1, <2>2, IdleType DEF CloseCommit, TypeOK, InProgressCarries
<1>19. ASSUME NEW c \in Closers, CloserDies(c) PROVE Typed'
    BY <1>19, IdleType, FailureAssumption DEF CloserDies, TypeOK, InProgressCarries, sessionVars
<1>20. CASE UNCHANGED vars
    BY <1>20 DEF vars, TypeOK, InProgressCarries
<1> QED BY <1>1, <1>2, <1>3, <1>4, <1>5, <1>6, <1>7, <1>8, <1>9, <1>10, <1>11, <1>12, <1>13,
           <1>14, <1>15, <1>16, <1>17, <1>18, <1>19, <1>20
        DEF Next, ActivateStep, RequestStep, CronStep, Closers

LEMMA TypedAlways == Spec => []Typed
BY TypedInit, TypedStep, PTL DEF Spec

\* The session row, the attendance rows, the stored attempts and all that is
\* in progress keep their types in every behaviour.
THEOREM TypeCorrect == Spec => []TypeOK
BY TypedAlways, PTL DEF Typed

-----------------------------------------------------------------------------
(* One accepted attempt *)

\* A student without a row has no trace of a scan or a correction.
RowlessIsBlank == \A s \in Students : record[s].status = "none" => record[s] = NoRow

\* A row names attempts of its own student only.
RowsNameOwnAttempts ==
    \A s \in Students, i \in Attempts : record[s].acceptedScanAttemptId = i => Owner[i] = s

Accounted == RowlessIsBlank /\ RowsNameOwnAttempts /\ OneAcceptedAttempt

\* What every step but an accepting write does to rows and stored attempts: it
\* leaves the accepted scan of each row alone, creates and changes rows but
\* never deletes one, and stores no attempt but as denied.
KeepsAcceptedScans ==
    /\ \A s \in Students :
          /\ record'[s].acceptedScanAttemptId = record[s].acceptedScanAttemptId
          /\ record'[s].tokenSnapshot = record[s].tokenSnapshot
          /\ record'[s].status = "none" => record'[s] = record[s]
    /\ \A i \in Attempts :
          outcome'[i] = outcome[i] \/ (outcome[i] = "none" /\ outcome'[i] = "denied")

LEMMA SeededKeeps ==
    ASSUME Typed, RowlessIsBlank, NEW st \in {"pending", "absent"}, NEW s \in Students
    PROVE  /\ Seeded(st)[s].acceptedScanAttemptId = record[s].acceptedScanAttemptId
           /\ Seeded(st)[s].tokenSnapshot = record[s].tokenSnapshot
           /\ Seeded(st)[s].status = "none" => Seeded(st)[s] = record[s]
BY DEF Typed, TypeOK, Row, RowlessIsBlank, Seeded, SeededRow, NoRow, HasRow

LEMMA MarkAbsentKeeps ==
    ASSUME NEW rows \in [Students -> Row], NEW s \in Students
    PROVE  /\ MarkAbsent(rows)[s].acceptedScanAttemptId = rows[s].acceptedScanAttemptId
           /\ MarkAbsent(rows)[s].tokenSnapshot = rows[s].tokenSnapshot
           /\ MarkAbsent(rows)[s].status = "none" => MarkAbsent(rows)[s] = rows[s]
BY DEF MarkAbsent, Row

LEMMA StepEffect ==
    ASSUME Typed, RowlessIsBlank, [Next]_vars
    PROVE  KeepsAcceptedScans \/ \E r \in Requests : WriteAccept(r)
<1> USE DEF Typed
<1>1. CASE UNCHANGED <<record, outcome>>
    BY <1>1 DEF KeepsAcceptedScans
<1>2. ASSUME NEW d \in Devices, ActivateWin(d) PROVE KeepsAcceptedScans
  <2> DEFINE expired == activation[d].receivedAt > Deadline(activation[d].token)
  <2>1. UNCHANGED outcome
      BY <1>2 DEF ActivateWin
  <2>2. CASE expired
    <3>1. record' = MarkAbsent(Seeded("absent"))
        BY <1>2, <2>2 DEF ActivateWin
    <3>2. Seeded("absent") \in [Students -> Row]
        BY SeededType
    <3> QED BY <2>1, <3>1, <3>2, SeededKeeps, MarkAbsentKeeps DEF KeepsAcceptedScans
  <2>3. CASE ~expired
    <3>1. record' = Seeded("pending")
        BY <1>2, <2>3 DEF ActivateWin
    <3> QED BY <2>1, <3>1, SeededKeeps DEF KeepsAcceptedScans
  <2> QED BY <2>2, <2>3
<1>3. ASSUME NEW r \in Requests, ScanActivateWin(r) PROVE KeepsAcceptedScans
  <2>1. PICK st \in {"pending", "absent"} : record' = Seeded(st)
      BY <1>3 DEF ScanActivateWin
  <2> QED BY <1>3, <2>1, SeededKeeps DEF ScanActivateWin, KeepsAcceptedScans
<1>4. ASSUME NEW r \in Requests, ValidateDeny(r) \/ WriteDuplicate(r) PROVE KeepsAcceptedScans
    BY <1>4 DEF ValidateDeny, WriteDuplicate, KeepsAcceptedScans, TypeOK, InProgressCarries
<1>5. ASSUME NEW i \in Attempts, Refuse(i) PROVE KeepsAcceptedScans
    BY <1>5 DEF Refuse, KeepsAcceptedScans, TypeOK
<1>6. ASSUME NEW s \in Students, NEW st \in ManualStatuses, UpdateStatus(s, st)
      PROVE  KeepsAcceptedScans
    BY <1>6, StatusAssumption DEF UpdateStatus, KeepsAcceptedScans, TypeOK, Row, Statuses
<1>7. ASSUME NEW s \in Students, NEW st \in ManualStatuses, CreateManual(s, st)
      PROVE  KeepsAcceptedScans
  <2>1. /\ Target(s) \in Row
        /\ Target(s).acceptedScanAttemptId = record[s].acceptedScanAttemptId
        /\ Target(s).tokenSnapshot = record[s].tokenSnapshot
      BY RowType DEF Target, HasRow, SeededRow, NoRow, RowlessIsBlank, TypeOK, Row, Statuses
  <2>2. record' = [record EXCEPT ![s] = [Target(s) EXCEPT !.status = st, !.manuallySet = TRUE]]
      BY <1>7 DEF CreateManual
  <2>3. st # "none"
      BY StatusAssumption DEF Statuses
  <2> QED BY <1>7, <2>1, <2>2, <2>3 DEF CreateManual, KeepsAcceptedScans, TypeOK, Row
<1>8. ASSUME NEW c \in Closers, CloseCommit(c) PROVE KeepsAcceptedScans
    BY <1>8, MarkAbsentKeeps DEF CloseCommit, KeepsAcceptedScans, TypeOK
<1>9. ASSUME NEW d \in Devices, ActivateStep(d)
      PROVE  ActivateWin(d) \/ UNCHANGED <<record, outcome>>
    BY <1>9 DEF ActivateStep, ActivateRead, ActivateLose, DeviceDies
<1>10. ASSUME NEW r \in Requests, RequestStep(r)
       PROVE  \/ ScanActivateWin(r) \/ ValidateDeny(r) \/ WriteAccept(r) \/ WriteDuplicate(r)
              \/ UNCHANGED <<record, outcome>>
    BY <1>10 DEF RequestStep, Deliver, ScanActivateLose, ValidateAccept, WriteAbort, RequestDies
<1>11. ASSUME NEW c \in Closers, EndClaim(c) \/ CronRead(c) \/ CronClaim(c) \/ CloserDies(c)
       PROVE  UNCHANGED <<record, outcome>>
    BY <1>11 DEF EndClaim, CronRead, CronClaim, CloserDies
<1>12. CASE Tick \/ (\E k \in Tokens : SignToken(k)) \/ (\E s \in Students : Enroll(s) \/ Remove(s))
    BY <1>1, <1>12 DEF Tick, SignToken, Enroll, Remove
<1>13. CASE UNCHANGED vars
    BY <1>1, <1>13 DEF vars
<1> QED BY <1>1, <1>2, <1>3, <1>4, <1>5, <1>6, <1>7, <1>8, <1>9, <1>10, <1>11, <1>12, <1>13
        DEF Next, CronStep, Closers

\* What an accepting write does: an attempt nobody has stored takes the empty
\* place of its student.
LEMMA WriteEffect ==
    ASSUME Typed, Accounted, NEW r \in Requests, WriteAccept(r)
    PROVE  LET q == request[r]
               s == Owner[q.id]
           IN  /\ q.id \in Attempts /\ s \in Students
               /\ outcome[q.id] = "none"
               /\ record[s].acceptedScanAttemptId = NoAttempt
               /\ record' = [record EXCEPT ![s] =
                    [status |-> q.verdict, manuallySet |-> FALSE,
                     tokenSnapshot |-> q.token, acceptedScanAttemptId |-> q.id]]
               /\ outcome' = [outcome EXCEPT ![q.id] = Outcome(q.verdict)]
               /\ Outcome(q.verdict) \in Accepted
               /\ q.verdict # "none"
<1> DEFINE q == request[r]
           s == Owner[q.id]
<1>1. q.id \in Attempts /\ s \in Students /\ q.verdict \in {"present", "late", "disputed"}
    BY OwnerAssumption DEF WriteAccept, Typed, TypeOK, InProgressCarries, Request
<1>2. record[s].acceptedScanAttemptId = NoAttempt
    BY <1>1 DEF WriteAccept, Accepts, Target, HasRow, Accounted, RowlessIsBlank, NoRow
<1>3. Outcome(q.verdict) \in Accepted
    BY <1>1 DEF Outcome, Accepted
<1> QED BY <1>1, <1>2, <1>3 DEF WriteAccept

LEMMA AccountedStep == Typed /\ Accounted /\ [Next]_vars => Accounted'
<1> SUFFICES ASSUME Typed, Accounted, [Next]_vars PROVE Accounted'
    OBVIOUS
<1>1. CASE KeepsAcceptedScans
  <2>1. RowlessIsBlank'
      BY <1>1 DEF KeepsAcceptedScans, Accounted, RowlessIsBlank, NoRow
  <2>2. RowsNameOwnAttempts'
      BY <1>1 DEF KeepsAcceptedScans, Accounted, RowsNameOwnAttempts
  <2>3. OneAcceptedAttempt'
      BY <1>1, OwnerAssumption DEF KeepsAcceptedScans, Accounted, OneAcceptedAttempt, Accepted
  <2> QED BY <2>1, <2>2, <2>3 DEF Accounted
<1>2. ASSUME NEW r \in Requests, WriteAccept(r) PROVE Accounted'
  <2> DEFINE q == request[r]
             s == Owner[q.id]
             new == [status |-> q.verdict, manuallySet |-> FALSE,
                     tokenSnapshot |-> q.token, acceptedScanAttemptId |-> q.id]
  <2>1. /\ q.id \in Attempts /\ s \in Students
        /\ record[s].acceptedScanAttemptId = NoAttempt
        /\ record' = [record EXCEPT ![s] = new]
        /\ outcome' = [outcome EXCEPT ![q.id] = Outcome(q.verdict)]
        /\ Outcome(q.verdict) \in Accepted
        /\ q.verdict # "none"
      BY <1>2, WriteEffect
  <2>2. /\ record'[s] = new
        /\ \A x \in Students \ {s} : record'[x] = record[x]
        /\ outcome'[q.id] \in Accepted
        /\ \A i \in Attempts \ {q.id} : outcome'[i] = outcome[i]
      BY <2>1 DEF Typed, TypeOK
  <2>3. RowlessIsBlank'
    <3>1. record'[s].status # "none"
        BY <2>1, <2>2
    <3>2. \A x \in Students \ {s} : record[x].status = "none" => record[x] = NoRow
        BY DEF Accounted, RowlessIsBlank
    <3>3. NoRow' = NoRow
        BY DEF NoRow
    <3> HIDE DEF new, s
    <3> QED BY <2>2, <3>1, <3>2, <3>3 DEF RowlessIsBlank
  <2>4. RowsNameOwnAttempts'
      BY <2>1, <2>2 DEF Accounted, RowsNameOwnAttempts
  <2>5. ASSUME NEW i \in Attempts
        PROVE  outcome'[i] \in Accepted <=> record'[Owner[i]].acceptedScanAttemptId = i
    <3>1. CASE i = q.id
        BY <2>1, <2>2, <3>1
    <3>2. CASE i # q.id /\ Owner[i] = s
        BY <2>1, <2>2, <3>2, NullAssumption DEF Accounted, OneAcceptedAttempt
    <3>3. CASE Owner[i] # s
        BY <2>1, <2>2, <3>3, OwnerAssumption DEF Accounted, OneAcceptedAttempt
    <3> QED BY <3>1, <3>2, <3>3
  <2> QED BY <2>3, <2>4, <2>5 DEF Accounted, OneAcceptedAttempt
<1> QED BY <1>1, <1>2, StepEffect DEF Accounted

LEMMA AccountedInit == Init => Accounted
BY NullAssumption, OwnerAssumption
DEF Init, Accounted, RowlessIsBlank, RowsNameOwnAttempts, OneAcceptedAttempt, NoRow, Accepted

LEMMA AccountedAlways == Spec => []Accounted
BY TypedAlways, AccountedInit, AccountedStep, PTL DEF Spec

\* At most one of a student's attempts is ever accepted, and it is the one the
\* student's row names.
THEOREM OneAttemptAccepted == Spec => []OneAcceptedAttempt
BY AccountedAlways, PTL DEF Accounted

-----------------------------------------------------------------------------
(* Corrections by the teacher stand *)

LEMMA OverrideStep ==
    ASSUME Typed, Accounted, [Next]_vars, NEW s \in Students, record[s].manuallySet
    PROVE  record'[s].acceptedScanAttemptId = record[s].acceptedScanAttemptId
<1>1. CASE KeepsAcceptedScans
    BY <1>1 DEF KeepsAcceptedScans
<1>2. ASSUME NEW r \in Requests, WriteAccept(r)
      PROVE  record'[s] = record[s]
  <2>1. /\ Owner[request[r].id] \in Students
        /\ record' = [record EXCEPT ![Owner[request[r].id]] =
             [status |-> request[r].verdict, manuallySet |-> FALSE,
              tokenSnapshot |-> request[r].token,
              acceptedScanAttemptId |-> request[r].id]]
      BY <1>2, WriteEffect
  <2>2. s # Owner[request[r].id]
      BY <1>2 DEF WriteAccept, Accepts, Target, HasRow, Accounted, RowlessIsBlank, NoRow
  <2> QED BY <2>1, <2>2 DEF Typed, TypeOK
<1> QED BY <1>1, <1>2, StepEffect DEF Accounted

\* No scan ever lands on a row the teacher has set.
THEOREM OverridesStand == Spec => ScanRespectsOverride
<1>1. Typed /\ Accounted /\ [Next]_vars =>
      [\A s \in Students :
         record[s].manuallySet =>
             record'[s].acceptedScanAttemptId = record[s].acceptedScanAttemptId]_vars
    BY OverrideStep
<1> QED BY <1>1, TypedAlways, AccountedAlways, PTL DEF Spec, ScanRespectsOverride

\* A step turns an absence into credit only in the teacher's hand.
LEMMA AbsenceStep ==
    ASSUME Typed, Accounted, [Next]_vars, NEW s \in Students,
           record[s].status = "absent", record'[s].status \in Credited
    PROVE  record'[s].manuallySet
<1> USE DEF Typed, Credited
<1>1. record'[s].status # record[s].status
    OBVIOUS
<1>2. ASSUME NEW st \in {"pending", "absent"} PROVE Seeded(st)[s] = record[s]
    BY DEF Seeded, HasRow
<1>3. ASSUME NEW rows \in [Students -> Row], rows[s] = record[s]
      PROVE  MarkAbsent(rows)[s] = record[s]
    BY <1>3 DEF MarkAbsent
<1>4. ASSUME NEW d \in Devices, ActivateWin(d) PROVE FALSE
  <2>1. record' = MarkAbsent(Seeded("absent")) \/ record' = Seeded("pending")
      BY <1>4 DEF ActivateWin
  <2> QED BY <1>1, <1>2, <1>3, <2>1, SeededType
<1>5. ASSUME NEW r \in Requests, ScanActivateWin(r) PROVE FALSE
    BY <1>1, <1>2, <1>5 DEF ScanActivateWin
<1>6. ASSUME NEW r \in Requests, WriteAccept(r) PROVE FALSE
  <2> DEFINE x == Owner[request[r].id]
  <2>1. /\ x \in Students
        /\ record' = [record EXCEPT ![x] =
             [status |-> request[r].verdict, manuallySet |-> FALSE,
              tokenSnapshot |-> request[r].token,
              acceptedScanAttemptId |-> request[r].id]]
      BY <1>6, WriteEffect
  <2>2. x = s /\ request[r].verdict \in Credited
      BY <1>1, <2>1 DEF TypeOK
  <2> QED BY <1>6, <2>2 DEF WriteAccept, Accepts, Target, HasRow
<1>7. ASSUME NEW c \in Closers, CloseCommit(c) PROVE FALSE
    BY <1>1, <1>3, <1>7 DEF CloseCommit, TypeOK
<1>8. ASSUME NEW x \in Students, NEW st \in ManualStatuses, UpdateStatus(x, st)
      PROVE  record'[s].manuallySet
    BY <1>1, <1>8 DEF UpdateStatus, TypeOK, Row
<1>9. ASSUME NEW x \in Students, NEW st \in ManualStatuses, CreateManual(x, st)
      PROVE  record'[s].manuallySet
  <2>1. Target(x) \in Row
      BY RowType DEF Target, TypeOK, Statuses
  <2>2. record' = [record EXCEPT ![x] = [Target(x) EXCEPT !.status = st, !.manuallySet = TRUE]]
      BY <1>9 DEF CreateManual
  <2> QED BY <1>1, <2>1, <2>2 DEF TypeOK, Row
<1>10. ASSUME NEW d \in Devices, ActivateStep(d) PROVE ActivateWin(d) \/ UNCHANGED record
    BY <1>10 DEF ActivateStep, ActivateRead, ActivateLose, DeviceDies
<1>11. ASSUME NEW r \in Requests, RequestStep(r)
       PROVE  ScanActivateWin(r) \/ WriteAccept(r) \/ UNCHANGED record
    BY <1>11 DEF RequestStep, Deliver, ScanActivateLose, ValidateAccept, ValidateDeny,
                 WriteDuplicate, WriteAbort, RequestDies
<1>12. ASSUME NEW c \in Closers, EndClaim(c) \/ CronRead(c) \/ CronClaim(c) \/ CloserDies(c)
       PROVE  UNCHANGED record
    BY <1>12 DEF EndClaim, CronRead, CronClaim, CloserDies
<1>13. ASSUME \/ Tick
              \/ \E k \in Tokens : SignToken(k)
              \/ \E x \in Students : Enroll(x) \/ Remove(x)
              \/ \E i \in Attempts : Refuse(i)
              \/ UNCHANGED vars
       PROVE  UNCHANGED record
    BY <1>13 DEF Tick, SignToken, Enroll, Remove, Refuse, vars
<1> QED BY <1>1, <1>4, <1>5, <1>6, <1>7, <1>8, <1>9, <1>10, <1>11, <1>12, <1>13
        DEF Next, CronStep, Closers

\* No scan turns the absence recorded at closing into credit.
THEOREM AbsenceStands == Spec => AbsenceIsNeverCreditedByScan
<1>1. Typed /\ Accounted /\ [Next]_vars =>
      [\A s \in Students :
         ended /\ record[s].status = "absent" /\ record'[s].status \in Credited
         => record'[s].manuallySet]_vars
    BY AbsenceStep
<1> QED BY <1>1, TypedAlways, AccountedAlways, PTL DEF Spec, AbsenceIsNeverCreditedByScan

-----------------------------------------------------------------------------
(* The life of the session row *)

\* The session is active exactly while it holds a token, and never once it has
\* ended; a submission is validated only after the session was activated; and
\* a single closing transaction holds the row's lock, on an active session.
Lifecycle ==
    /\ isActive <=> qrToken # NoToken
    /\ ended => ~isActive
    /\ \A r \in Requests : request[r].phase \in {"validating", "writing"} => isActive \/ ended
    /\ \A c \in Closers : closer[c].phase = "claimed" => isActive
    /\ \A c, e \in Closers : closer[c].phase = "claimed" /\ closer[e].phase = "claimed" => c = e

Opens  == ~isActive /\ ~ended /\ (isActive' <=> ~ended')
Closes == isActive /\ ~isActive' /\ ended'

LEMMA LifecycleInit == Init => Lifecycle
BY DEF Init, Lifecycle, IdleRequest, IdleCloser

LEMMA LifecycleStep ==
    ASSUME Typed, Lifecycle, [Next]_vars
    PROVE  /\ Lifecycle'
           /\ UNCHANGED <<isActive, ended>> \/ Opens \/ Closes
<1> USE DEF Typed
<1>1. ASSUME UNCHANGED <<isActive, ended, qrToken, request, closer>> PROVE Lifecycle'
    BY <1>1 DEF Lifecycle
<1>2. ASSUME NEW d \in Devices, ActivateWin(d) PROVE Lifecycle' /\ Opens
  <2>1. activation[d].token \in Tokens
      BY <1>2 DEF ActivateWin, InProgressCarries
  <2>2. Opens
      BY <1>2 DEF ActivateWin, TeacherMayClaim, Opens
  <2> QED BY <1>2, <2>1, <2>2, NullAssumption
          DEF ActivateWin, TeacherMayClaim, Lifecycle, SessionUnlocked, Opens
<1>3. ASSUME NEW r \in Requests, ScanActivateWin(r) PROVE Lifecycle' /\ Opens
  <2>1. request[r].token \in Tokens
      BY <1>3 DEF ScanActivateWin, InProgressCarries
  <2>2. Opens
      BY <1>3 DEF ScanActivateWin, ScanMayClaim, Opens, Lifecycle
  <2> QED BY <1>3, <2>1, <2>2, NullAssumption
          DEF ScanActivateWin, ScanMayClaim, Lifecycle, SessionUnlocked, Opens, TypeOK
<1>4. ASSUME NEW r \in Requests, NEW i \in Attempts, NEW k \in Tokens, NEW off \in BOOLEAN,
             Deliver(r, i, k, off)
      PROVE  Lifecycle'
    BY <1>4 DEF Deliver, ScanMayClaim, IdleRequest, Lifecycle, TypeOK, sessionVars
<1>5. ASSUME NEW r \in Requests, ScanActivateLose(r) PROVE Lifecycle'
    BY <1>5 DEF ScanActivateLose, ScanMayClaim, Lifecycle, TypeOK, sessionVars
<1>6. ASSUME NEW r \in Requests, ValidateAccept(r) PROVE Lifecycle'
  <2>1. /\ request[r].phase = "validating"
        /\ \A x \in Requests \ {r} : request'[x] = request[x]
        /\ UNCHANGED <<isActive, ended, qrToken, closer>>
      BY <1>6 DEF ValidateAccept, TypeOK, sessionVars
  <2> QED BY <2>1 DEF Lifecycle
<1>7. ASSUME NEW r \in Requests,
             ValidateDeny(r) \/ WriteAccept(r) \/ WriteDuplicate(r) \/ WriteAbort(r) \/ RequestDies(r)
      PROVE  Lifecycle'
  <2>1. request' = [request EXCEPT ![r] = IdleRequest] /\ UNCHANGED <<isActive, ended, qrToken, closer>>
      BY <1>7 DEF ValidateDeny, WriteAccept, WriteDuplicate, WriteAbort, RequestDies, sessionVars
  <2> QED BY <2>1 DEF Lifecycle, IdleRequest, TypeOK
<1>8. ASSUME NEW c \in Closers, EndClaim(c) \/ CronRead(c) \/ CronClaim(c) \/ CloserDies(c)
      PROVE  Lifecycle'
  <2>1. UNCHANGED <<isActive, ended, qrToken, request>>
      BY <1>8 DEF EndClaim, CronRead, CronClaim, CloserDies, sessionVars
  <2>2. \A e \in Closers \ {c} : closer'[e] = closer[e]
      BY <1>8 DEF EndClaim, CronRead, CronClaim, CloserDies, TypeOK
  <2>3. CASE closer'[c].phase = "claimed"
    <3>1. isActive /\ SessionUnlocked
      <4>1. CASE EndClaim(c)
          BY <2>3, <4>1 DEF EndClaim
      <4>2. CASE CronRead(c)
          BY <2>3, <4>2 DEF CronRead, TypeOK, Closer
      <4>3. CASE CronClaim(c)
          BY <2>3, <4>3 DEF CronClaim, IdleCloser, TypeOK, Closer
      <4>4. CASE CloserDies(c)
          BY <2>3, <4>4 DEF CloserDies, IdleCloser, TypeOK
      <4> QED BY <1>8, <4>1, <4>2, <4>3, <4>4
    <3> QED BY <2>1, <2>2, <3>1 DEF Lifecycle, SessionUnlocked
  <2>4. CASE closer'[c].phase # "claimed"
      BY <2>1, <2>2, <2>4 DEF Lifecycle
  <2> QED BY <2>3, <2>4
<1>9. ASSUME NEW c \in Closers, CloseCommit(c) PROVE Lifecycle' /\ Closes
    BY <1>9 DEF CloseCommit, IdleCloser, Lifecycle, Closes, TypeOK
<1>10. ASSUME NEW d \in Devices, ActivateStep(d)
       PROVE  ActivateWin(d) \/ UNCHANGED <<isActive, ended, qrToken, request, closer>>
    BY <1>10 DEF ActivateStep, ActivateRead, ActivateLose, DeviceDies, sessionVars
<1>11. ASSUME NEW r \in Requests, RequestStep(r)
       PROVE  ScanActivateWin(r) \/ UNCHANGED <<isActive, ended, qrToken, closer>>
    BY <1>11 DEF RequestStep, Deliver, ScanActivateLose, ValidateAccept, ValidateDeny,
                 WriteAccept, WriteDuplicate, WriteAbort, RequestDies, sessionVars
<1>12. ASSUME NEW c \in Closers, EndClaim(c) \/ CronRead(c) \/ CronClaim(c) \/ CloserDies(c)
       PROVE  UNCHANGED <<isActive, ended>>
    BY <1>12 DEF EndClaim, CronRead, CronClaim, CloserDies, sessionVars
<1>13. ASSUME \/ Tick
              \/ \E k \in Tokens : SignToken(k)
              \/ \E s \in Students : Enroll(s) \/ Remove(s)
              \/ \E s \in Students, st \in ManualStatuses : UpdateStatus(s, st) \/ CreateManual(s, st)
              \/ \E i \in Attempts : Refuse(i)
              \/ UNCHANGED vars
       PROVE  UNCHANGED <<isActive, ended, qrToken, request, closer>>
    BY <1>13 DEF Tick, SignToken, Enroll, Remove, UpdateStatus, CreateManual, Refuse,
                 sessionVars, vars
<1> QED BY <1>1, <1>2, <1>3, <1>4, <1>5, <1>6, <1>7, <1>8, <1>9, <1>10, <1>11, <1>12, <1>13
        DEF Next, RequestStep, CronStep, Closers

LEMMA LifecycleAlways == Spec => []Lifecycle
BY TypedAlways, LifecycleInit, LifecycleStep, PTL DEF Spec

-----------------------------------------------------------------------------
(* The session implements the ledger *)

Phase  == IF ended THEN "closed" ELSE IF isActive THEN "open" ELSE "scheduled"
Winner == [s \in Students |-> record[s].acceptedScanAttemptId]

\* Every step is a step of the ledger or leaves it alone.
LEMMA LedgerStep ==
    ASSUME Typed, Accounted, Lifecycle, [Next]_vars
    PROVE  [Ledger!LedgerNext]_(Ledger!ledgerVars)
<1> USE DEF Ledger!LedgerNext, Ledger!ledgerVars
<1>1. CASE KeepsAcceptedScans
  <2>1. UNCHANGED Winner
      BY <1>1 DEF KeepsAcceptedScans, Winner
  <2>2. CASE UNCHANGED <<isActive, ended>>
      BY <2>1, <2>2 DEF Winner
  <2>3. CASE Opens
      BY <2>1, <2>3 DEF Opens, Winner, Ledger!Open
  <2>4. CASE Closes
      BY <2>1, <2>4 DEF Closes, Lifecycle, Winner, Ledger!Close
  <2> QED BY <2>2, <2>3, <2>4, LifecycleStep
<1>2. ASSUME NEW r \in Requests, WriteAccept(r)
      PROVE  Ledger!LedgerNext
  <2> DEFINE i == request[r].id
             s == Owner[i]
  <2>1. /\ i \in Attempts /\ s \in Students
        /\ outcome[i] = "none"
        /\ record[s].acceptedScanAttemptId = NoAttempt
        /\ record' = [record EXCEPT ![s] =
             [status |-> request[r].verdict, manuallySet |-> FALSE,
              tokenSnapshot |-> request[r].token, acceptedScanAttemptId |-> i]]
      BY <1>2, WriteEffect
  <2>2. Phase # "scheduled" /\ UNCHANGED <<isActive, ended>>
      BY <1>2 DEF WriteAccept, Lifecycle, Phase, sessionVars
  <2>3. Winner' = [Winner EXCEPT ![s] = i]
      BY <2>1 DEF Winner, Typed, TypeOK
  <2>4. \A x \in Students : Winner[x] # i
      BY <2>1 DEF Winner, Accounted, RowsNameOwnAttempts, OneAcceptedAttempt, Accepted
  <2>5. Winner[s] = NoAttempt
      BY <2>1 DEF Winner
  <2>6. Ledger!Accept(i, s)
    <3>1. s \in [a \in Attempts |-> {Owner[a]}][i]
        BY <2>1
    <3> QED BY <2>2, <2>3, <2>4, <2>5, <3>1 DEF Ledger!Accept, Winner, Phase
  <2>7. i \in Attempts /\ s \in Students
      BY <2>1
  <2> HIDE DEF i, s
  <2> QED BY <2>6, <2>7 DEF Ledger!Accept
<1> QED BY <1>1, <1>2, StepEffect DEF Accounted

LEMMA LedgerStart == Init => Ledger!LedgerInit
BY DEF Init, NoRow, Ledger!LedgerInit

\* One opening, one closing, and one attempt per student, taken once for good.
THEOREM SessionImplementsLedger == Spec => ImplementsLedger
<1>1. Typed /\ Accounted /\ Lifecycle /\ [Next]_vars => [Ledger!LedgerNext]_(Ledger!ledgerVars)
    BY LedgerStep
<1> QED BY <1>1, LedgerStart, TypedAlways, AccountedAlways, LifecycleAlways, PTL
        DEF Spec, ImplementsLedger, Ledger!LedgerSpec

\* What the ledger promises, it keeps.
LEMMA LedgerKeeps ==
    ASSUME Ledger!PlacesAreApart, [Ledger!LedgerNext]_(Ledger!ledgerVars)
    PROVE  /\ Ledger!PlacesAreApart'
           /\ \A sl \in Students : Winner[sl] # NoAttempt => Winner'[sl] = Winner[sl]
           /\ Phase = "closed" => Phase' = "closed"
<1>1. /\ Phase = "scheduled" => \A sl \in Students : Winner[sl] = NoAttempt
      /\ \A sl, other \in Students :
            Winner[sl] # NoAttempt /\ Winner[sl] = Winner[other] => sl = other
    BY DEF Ledger!PlacesAreApart, Winner, Phase
<1>2. CASE Ledger!Open \/ Ledger!Close \/ UNCHANGED Ledger!ledgerVars
    BY <1>2 DEF Ledger!Open, Ledger!Close, Ledger!ledgerVars, Ledger!PlacesAreApart, Winner, Phase
<1>3. ASSUME NEW i \in Attempts, NEW sl \in Students, Ledger!Accept(i, sl)
      PROVE  /\ Ledger!PlacesAreApart'
             /\ \A other \in Students : Winner[other] # NoAttempt => Winner'[other] = Winner[other]
             /\ Phase = "closed" => Phase' = "closed"
  <2>1. /\ Phase # "scheduled" /\ Phase' = Phase /\ Winner[sl] = NoAttempt
        /\ \A other \in Students : Winner[other] # i
        /\ Winner' = [Winner EXCEPT ![sl] = i]
      BY <1>3 DEF Ledger!Accept, Winner, Phase
  <2>2. Winner'[sl] = i /\ \A other \in Students \ {sl} : Winner'[other] = Winner[other]
      BY <2>1 DEF Winner
  <2>3. /\ Phase' # "scheduled"
        /\ \A x, other \in Students :
              Winner'[x] # NoAttempt /\ Winner'[x] = Winner'[other] => x = other
      BY <1>1, <2>1, <2>2
  <2>4. Ledger!PlacesAreApart'
      BY <2>3 DEF Ledger!PlacesAreApart, Winner, Phase
  <2> QED BY <2>1, <2>2, <2>4
<1> QED BY <1>2, <1>3 DEF Ledger!LedgerNext

\* A student's place is taken once and for good: neither a second scan, a correction
\* nor the close gives it to another attempt or takes it back.
THEOREM AcceptedStaysAccepted == Spec => []Ledger!PlacesAreApart /\ Ledger!PlacesAreTakenForGood
<1>1. Ledger!LedgerInit => Ledger!PlacesAreApart
    BY DEF Ledger!LedgerInit, Ledger!PlacesAreApart
<1>2. Ledger!PlacesAreApart /\ [Ledger!LedgerNext]_(Ledger!ledgerVars) =>
      /\ Ledger!PlacesAreApart'
      /\ [/\ \A sl \in Students : Winner[sl] # NoAttempt => Winner'[sl] = Winner[sl]
          /\ Phase = "closed" => Phase' = "closed"]_(Ledger!ledgerVars)
    BY LedgerKeeps
<1> QED BY <1>1, <1>2, SessionImplementsLedger, PTL
        DEF ImplementsLedger, Ledger!LedgerSpec, Ledger!PlacesAreTakenForGood, Winner, Phase

-----------------------------------------------------------------------------
(* An ended session is settled *)

\* While the session is not active, only a teacher's correction is pending:
\* before activation nobody has been seeded, and the close leaves nobody.
SettledRows == ~isActive => \A s \in Students : Pending(s) => record[s].manuallySet

LEMMA SettledStep ==
    ASSUME Typed, Accounted, Lifecycle, SettledRows, [Next]_vars
    PROVE  SettledRows'
<1> USE DEF Typed
<1> SUFFICES ASSUME ~isActive', NEW s \in Students, record'[s].status = "pending"
             PROVE  record'[s].manuallySet
    BY DEF SettledRows, Pending
<1>1. ASSUME NEW rows \in [Students -> Row] PROVE MarkAbsent(rows)[s].status # "pending"
    BY DEF MarkAbsent, Row
<1>2. CASE UNCHANGED <<record, isActive>>
    BY <1>2 DEF SettledRows, Pending
<1>3. ASSUME NEW d \in Devices, ActivateWin(d) PROVE FALSE
  <2>1. record' = MarkAbsent(Seeded("absent"))
      BY <1>3 DEF ActivateWin
  <2> QED BY <2>1, <1>1, SeededType
<1>4. ASSUME NEW r \in Requests, ScanActivateWin(r) PROVE record'[s].manuallySet
  <2>1. ~isActive /\ record' = Seeded("absent")
      BY <1>4 DEF ScanActivateWin, ScanMayClaim, Lifecycle
  <2>2. record'[s] = record[s]
      BY <2>1 DEF Seeded, SeededRow, NoRow
  <2> QED BY <2>1, <2>2 DEF SettledRows, Pending
<1>5. ASSUME NEW r \in Requests, WriteAccept(r) PROVE record'[s].manuallySet
  <2> DEFINE x == Owner[request[r].id]
  <2>1. /\ x \in Students /\ ~isActive
        /\ record' = [record EXCEPT ![x] =
             [status |-> request[r].verdict, manuallySet |-> FALSE,
              tokenSnapshot |-> request[r].token,
              acceptedScanAttemptId |-> request[r].id]]
        /\ request[r].verdict \in {"present", "late", "disputed"}
      BY <1>5, WriteEffect DEF WriteAccept, sessionVars, TypeOK, Request
  <2>2. record'[s] = record[s]
      BY <2>1 DEF TypeOK
  <2> QED BY <2>1, <2>2 DEF SettledRows, Pending
<1>6. ASSUME NEW c \in Closers, CloseCommit(c) PROVE FALSE
    BY <1>1, <1>6 DEF CloseCommit, TypeOK
<1>7. ASSUME NEW x \in Students, NEW st \in ManualStatuses, UpdateStatus(x, st)
      PROVE  record'[s].manuallySet
    BY <1>7 DEF UpdateStatus, TypeOK, Row, sessionVars, SettledRows, Pending
<1>8. ASSUME NEW x \in Students, NEW st \in ManualStatuses, CreateManual(x, st)
      PROVE  record'[s].manuallySet
  <2>1. Target(x) \in Row
      BY RowType DEF Target, TypeOK, Statuses
  <2>2. /\ ~isActive
        /\ record' = [record EXCEPT ![x] = [Target(x) EXCEPT !.status = st, !.manuallySet = TRUE]]
      BY <1>8 DEF CreateManual, sessionVars
  <2> QED BY <2>1, <2>2 DEF TypeOK, Row, SettledRows, Pending
<1>9. ASSUME NEW d \in Devices, ActivateStep(d)
      PROVE  ActivateWin(d) \/ UNCHANGED <<record, isActive>>
    BY <1>9 DEF ActivateStep, ActivateRead, ActivateLose, DeviceDies, sessionVars
<1>10. ASSUME NEW r \in Requests, RequestStep(r)
       PROVE  ScanActivateWin(r) \/ WriteAccept(r) \/ UNCHANGED <<record, isActive>>
    BY <1>10 DEF RequestStep, Deliver, ScanActivateLose, ValidateAccept, ValidateDeny,
                 WriteDuplicate, WriteAbort, RequestDies, sessionVars
<1>11. ASSUME NEW c \in Closers, EndClaim(c) \/ CronRead(c) \/ CronClaim(c) \/ CloserDies(c)
       PROVE  UNCHANGED <<record, isActive>>
    BY <1>11 DEF EndClaim, CronRead, CronClaim, CloserDies, sessionVars
<1>12. ASSUME \/ Tick
              \/ \E k \in Tokens : SignToken(k)
              \/ \E x \in Students : Enroll(x) \/ Remove(x)
              \/ \E i \in Attempts : Refuse(i)
              \/ UNCHANGED vars
       PROVE  UNCHANGED <<record, isActive>>
    BY <1>12 DEF Tick, SignToken, Enroll, Remove, Refuse, sessionVars, vars
<1> QED BY <1>2, <1>3, <1>4, <1>5, <1>6, <1>7, <1>8, <1>9, <1>10, <1>11, <1>12
        DEF Next, CronStep, Closers

LEMMA SettledInit == Init => SettledRows
BY DEF Init, SettledRows, Pending, NoRow

\* An ended session is inactive, without a token, and has no row pending that
\* the teacher did not set.
THEOREM EndedIsSettled == Spec => []EndedSessionIsSettled
<1>1. Typed /\ Accounted /\ Lifecycle /\ SettledRows /\ [Next]_vars => SettledRows'
    BY SettledStep
<1>2. Lifecycle /\ SettledRows => EndedSessionIsSettled
    BY DEF Lifecycle, SettledRows, EndedSessionIsSettled
<1> QED BY <1>1, <1>2, SettledInit, TypedAlways, AccountedAlways, LifecycleAlways, PTL DEF Spec

-----------------------------------------------------------------------------
(* One token earns all the credit *)

\* All the credit given, about to be given, or to be had, is for token k.
EarnedWith(k) ==
    /\ \A i \in Attempts : outcome[i] \in Credited => record[Owner[i]].tokenSnapshot = k
    /\ \A r \in Requests : request[r].phase = "writing" /\ request[r].verdict \in Credited
                           => request[r].token = k
    /\ qrToken # NoToken => qrToken = k

OneToken ==
    /\ \E k \in Tokens \cup {NoToken} : EarnedWith(k)
    /\ ~isActive /\ ~ended => \A i \in Attempts : outcome[i] \notin Credited

\* What the other steps do to requests and to the session's token.
LEMMA RequestEffect ==
    ASSUME Typed, Lifecycle, [Next]_vars
    PROVE  \/ Opens /\ UNCHANGED outcome /\ \A r \in Requests :
                 request'[r].phase = "writing" => request'[r] = request[r]
           \/ \E r \in Requests : WriteAccept(r) \/ ValidateAccept(r)
           \/ /\ qrToken' \in {qrToken, NoToken}
              /\ \A r \in Requests : request'[r].phase = "writing" => request'[r] = request[r]
<1> USE DEF Typed
<1>1. ASSUME NEW d \in Devices, ActivateWin(d)
      PROVE  Opens /\ UNCHANGED <<outcome, request>>
    BY <1>1 DEF ActivateWin, TeacherMayClaim, Opens
<1>2. ASSUME NEW r \in Requests, ScanActivateWin(r)
      PROVE  /\ Opens /\ UNCHANGED outcome
             /\ \A x \in Requests : request'[x].phase = "writing" => request'[x] = request[x]
    BY <1>2 DEF ScanActivateWin, ScanMayClaim, Opens, Lifecycle, TypeOK, Request
<1>3. ASSUME NEW r \in Requests, RequestStep(r)
      PROVE  \/ ScanActivateWin(r) \/ WriteAccept(r) \/ ValidateAccept(r)
             \/ /\ UNCHANGED qrToken
                /\ \A x \in Requests : request'[x].phase = "writing" => request'[x] = request[x]
  <2>1. ASSUME NEW i \in Attempts, NEW k \in Tokens, NEW off \in BOOLEAN, Deliver(r, i, k, off)
        PROVE  /\ UNCHANGED qrToken
               /\ \A x \in Requests : request'[x].phase = "writing" => request'[x] = request[x]
      BY <2>1 DEF Deliver, IdleRequest, TypeOK, sessionVars
  <2>2. ASSUME ScanActivateLose(r)
        PROVE  /\ UNCHANGED qrToken
               /\ \A x \in Requests : request'[x].phase = "writing" => request'[x] = request[x]
      BY <2>2 DEF ScanActivateLose, TypeOK, Request, sessionVars
  <2>3. ASSUME ValidateDeny(r) \/ WriteDuplicate(r) \/ WriteAbort(r) \/ RequestDies(r)
        PROVE  /\ UNCHANGED qrToken
               /\ \A x \in Requests : request'[x].phase = "writing" => request'[x] = request[x]
    <3>1. request' = [request EXCEPT ![r] = IdleRequest] /\ UNCHANGED qrToken
        BY <2>3 DEF ValidateDeny, WriteDuplicate, WriteAbort, RequestDies, sessionVars
    <3> QED BY <3>1 DEF IdleRequest, TypeOK
  <2> QED BY <1>3, <2>1, <2>2, <2>3 DEF RequestStep
<1>4. ASSUME NEW d \in Devices, ActivateStep(d)
      PROVE  ActivateWin(d) \/ UNCHANGED <<qrToken, request>>
    BY <1>4 DEF ActivateStep, ActivateRead, ActivateLose, DeviceDies, sessionVars
<1>5. ASSUME NEW c \in Closers,
             EndClaim(c) \/ CronRead(c) \/ CronClaim(c) \/ CloseCommit(c) \/ CloserDies(c)
      PROVE  qrToken' \in {qrToken, NoToken} /\ UNCHANGED request
    BY <1>5 DEF EndClaim, CronRead, CronClaim, CloseCommit, CloserDies, sessionVars
<1>6. ASSUME \/ Tick
             \/ \E k \in Tokens : SignToken(k)
             \/ \E s \in Students : Enroll(s) \/ Remove(s)
             \/ \E s \in Students, st \in ManualStatuses : UpdateStatus(s, st) \/ CreateManual(s, st)
             \/ \E i \in Attempts : Refuse(i)
             \/ UNCHANGED vars
      PROVE  UNCHANGED <<qrToken, request>>
    BY <1>6 DEF Tick, SignToken, Enroll, Remove, UpdateStatus, CreateManual, Refuse,
                sessionVars, vars
<1> QED BY <1>1, <1>2, <1>3, <1>4, <1>5, <1>6 DEF Next, CronStep, Closers

LEMMA OneTokenStep ==
    ASSUME Typed, Accounted, Lifecycle, OneToken, [Next]_vars
    PROVE  OneToken'
<1> USE DEF Typed
<1>1. PICK k \in Tokens \cup {NoToken} : EarnedWith(k)
    BY DEF OneToken
<1>2. ASSUME Opens, UNCHANGED outcome,
             \A r \in Requests : request'[r].phase = "writing" => request'[r] = request[r]
      PROVE  OneToken'
  <2>1. \A i \in Attempts : outcome'[i] \notin Credited
      BY <1>2 DEF Opens, OneToken
  <2>2. \A r \in Requests : request'[r].phase # "writing"
      BY <1>2 DEF Opens, Lifecycle
  <2>3. qrToken' \in Tokens \cup {NoToken}
      BY TypedStep DEF TypeOK
  <2> QED BY <2>1, <2>2, <2>3 DEF OneToken, EarnedWith
<1>3. ASSUME NEW r \in Requests, WriteAccept(r) PROVE OneToken'
  <2> DEFINE q == request[r]
             s == Owner[q.id]
  <2>1. /\ q.id \in Attempts /\ s \in Students
        /\ record[s].acceptedScanAttemptId = NoAttempt
        /\ record' = [record EXCEPT ![s] =
             [status |-> q.verdict, manuallySet |-> FALSE,
              tokenSnapshot |-> q.token, acceptedScanAttemptId |-> q.id]]
        /\ outcome' = [outcome EXCEPT ![q.id] = Outcome(q.verdict)]
      BY <1>3, WriteEffect
  <2>2. /\ q.phase = "writing"
        /\ isActive \/ ended
        /\ UNCHANGED <<isActive, ended, qrToken>>
        /\ \A x \in Requests : request'[x].phase = "writing" => request'[x] = request[x]
      BY <1>3 DEF WriteAccept, Lifecycle, IdleRequest, TypeOK, sessionVars
  <2>3. ASSUME NEW i \in Attempts, outcome'[i] \in Credited
        PROVE  record'[Owner[i]].tokenSnapshot = k
    <3>1. CASE i = q.id
      <4>1. q.verdict \in Credited
          BY <2>1, <2>3, <3>1 DEF Outcome, Credited, TypeOK
      <4>2. q.token = k
          BY <1>1, <2>2, <4>1 DEF EarnedWith
      <4>3. record'[s].tokenSnapshot = q.token
          BY <2>1 DEF TypeOK
      <4> HIDE DEF q
      <4> QED BY <3>1, <4>2, <4>3
    <3>2. CASE i # q.id
      <4>1. outcome[i] \in Credited /\ record[Owner[i]].acceptedScanAttemptId = i
          BY <2>1, <2>3, <3>2 DEF TypeOK, Accounted, OneAcceptedAttempt, Accepted, Credited
      <4>2. Owner[i] # s
          BY <2>1, <4>1, NullAssumption
      <4> QED BY <1>1, <2>1, <4>1, <4>2, OwnerAssumption DEF EarnedWith, TypeOK
    <3> QED BY <3>1, <3>2
  <2>4. EarnedWith(k)'
      BY <1>1, <2>2, <2>3 DEF EarnedWith
  <2> QED BY <2>2, <2>4 DEF OneToken
<1>4. ASSUME NEW r \in Requests, ValidateAccept(r) PROVE OneToken'
  <2>1. PICK e \in Evidence, t \in ScanTimes(request[r]) :
           /\ Verdict(request[r], e, t) # "denied"
           /\ request' = [request EXCEPT ![r].phase = "writing",
                                         ![r].verdict = Verdict(request[r], e, t)]
      BY <1>4 DEF ValidateAccept
  <2>2. Verdict(request[r], e, t) \in Credited => Admissible(request[r]) /\ (ended => ~request[r].offline)
      BY <2>1 DEF Verdict, Credited
  <2>3. Verdict(request[r], e, t) \in Credited => request[r].token = qrToken /\ qrToken # NoToken
      BY <2>2 DEF Admissible, Lifecycle
  <2>4. /\ request'[r].token = request[r].token
        /\ request'[r].verdict = Verdict(request[r], e, t)
        /\ \A x \in Requests \ {r} : request'[x] = request[x]
      BY <2>1 DEF TypeOK, Request
  <2>5. UNCHANGED <<isActive, ended, qrToken, record, outcome>>
      BY <1>4 DEF ValidateAccept, sessionVars
  <2>6. \A x \in Requests : request'[x].phase = "writing" /\ request'[x].verdict \in Credited
                            => request'[x].token = k
      BY <1>1, <2>3, <2>4 DEF EarnedWith
  <2>7. EarnedWith(k)'
      BY <1>1, <2>5, <2>6 DEF EarnedWith
  <2> QED BY <2>5, <2>7 DEF OneToken
<1>5. ASSUME KeepsAcceptedScans, qrToken' \in {qrToken, NoToken},
             \A r \in Requests : request'[r].phase = "writing" => request'[r] = request[r]
      PROVE  OneToken'
  <2>1. \A i \in Attempts : outcome'[i] \in Credited => outcome[i] \in Credited
      BY <1>5 DEF KeepsAcceptedScans, Credited
  <2>2. EarnedWith(k)'
      BY <1>1, <1>5, <2>1, OwnerAssumption DEF EarnedWith, KeepsAcceptedScans
  <2>3. ~isActive' /\ ~ended' => ~isActive /\ ~ended
      BY LifecycleStep DEF Opens, Closes
  <2> QED BY <2>1, <2>2, <2>3 DEF OneToken
<1> QED BY <1>2, <1>3, <1>4, <1>5, RequestEffect, StepEffect DEF Accounted

LEMMA OneTokenInit == Init => OneToken
<1> SUFFICES ASSUME Init PROVE OneToken
    OBVIOUS
<1>1. \A i \in Attempts : outcome[i] \notin Credited
    BY DEF Init, Credited
<1>2. \A r \in Requests : request[r].phase # "writing"
    BY DEF Init, IdleRequest
<1>3. qrToken = NoToken
    BY DEF Init
<1>4. EarnedWith(NoToken)
    BY <1>1, <1>2, <1>3 DEF EarnedWith
<1> QED BY <1>1, <1>4 DEF OneToken

\* All the scans that earned credit in a session used one and the same token.
THEOREM CreditIsForOneToken == Spec => []OneTokenEarnsCredit
<1>1. Typed /\ Accounted /\ Lifecycle /\ OneToken /\ [Next]_vars => OneToken'
    BY OneTokenStep
<1>2. OneToken => OneTokenEarnsCredit
    BY DEF OneToken, EarnedWith, OneTokenEarnsCredit
<1> QED BY <1>1, <1>2, OneTokenInit, TypedAlways, AccountedAlways, LifecycleAlways, PTL DEF Spec
-----------------------------------------------------------------------------
(* Who is told of an absence *)

\* A student who was pending or absent, and whatever became of that row since.
\* It is stable, which the bare status is not: a scan or the teacher may change
\* the row of a listed student, and the close resets manuallySet.
OnceUnseen(s) ==
    \/ record[s].status \in {"pending", "absent"}
    \/ record[s].acceptedScanAttemptId # NoAttempt
    \/ record[s].manuallySet

ListedWereUnseen ==
    \A c \in Closers : closer[c].phase = "claimed" => \A s \in closer[c].pending : OnceUnseen(s)

LEMMA OnceUnseenStays ==
    ASSUME Typed, Accounted, [Next]_vars, NEW s \in Students, OnceUnseen(s)
    PROVE  OnceUnseen(s)'
<1> USE DEF Typed
<1>1. record[s].status # "none"
    BY DEF Accounted, RowlessIsBlank, NoRow, OnceUnseen
<1>2. CASE UNCHANGED record
    BY <1>2 DEF OnceUnseen
<1>3. ASSUME NEW st \in {"pending", "absent"} PROVE Seeded(st)[s] = record[s]
    BY <1>1 DEF Seeded, HasRow
<1>4. ASSUME NEW rows \in [Students -> Row], rows[s] = record[s], record' = MarkAbsent(rows)
      PROVE  OnceUnseen(s)'
    BY <1>4 DEF MarkAbsent, OnceUnseen, Row
<1>5. ASSUME NEW d \in Devices, ActivateWin(d) PROVE OnceUnseen(s)'
  <2>1. CASE record' = MarkAbsent(Seeded("absent"))
      BY <1>3, <1>4, <2>1, SeededType
  <2>2. CASE record' = Seeded("pending")
      BY <1>3, <2>2 DEF OnceUnseen
  <2> QED BY <1>5, <2>1, <2>2 DEF ActivateWin
<1>6. ASSUME NEW r \in Requests, ScanActivateWin(r) PROVE OnceUnseen(s)'
  <2>1. record'[s] = record[s]
      BY <1>3, <1>6 DEF ScanActivateWin
  <2> QED BY <2>1 DEF OnceUnseen
<1>7. ASSUME NEW r \in Requests, WriteAccept(r) PROVE OnceUnseen(s)'
  <2> DEFINE x == Owner[request[r].id]
  <2>1. /\ x \in Students /\ request[r].id # NoAttempt
        /\ record' = [record EXCEPT ![x] =
             [status |-> request[r].verdict, manuallySet |-> FALSE,
              tokenSnapshot |-> request[r].token,
              acceptedScanAttemptId |-> request[r].id]]
      BY <1>7, WriteEffect, NullAssumption
  <2> QED BY <2>1 DEF TypeOK, OnceUnseen
<1>8. ASSUME NEW x \in Students, NEW st \in ManualStatuses, UpdateStatus(x, st)
      PROVE  OnceUnseen(s)'
    BY <1>8 DEF UpdateStatus, TypeOK, Row, OnceUnseen
<1>9. ASSUME NEW x \in Students, NEW st \in ManualStatuses, CreateManual(x, st)
      PROVE  OnceUnseen(s)'
  <2>1. Target(x) \in Row
      BY RowType DEF Target, TypeOK, Statuses
  <2>2. record' = [record EXCEPT ![x] = [Target(x) EXCEPT !.status = st, !.manuallySet = TRUE]]
      BY <1>9 DEF CreateManual
  <2> QED BY <2>1, <2>2 DEF TypeOK, Row, OnceUnseen
<1>10. ASSUME NEW c \in Closers, CloseCommit(c) PROVE OnceUnseen(s)'
    BY <1>4, <1>10 DEF CloseCommit, TypeOK
<1>11. ASSUME NEW d \in Devices, ActivateStep(d) PROVE ActivateWin(d) \/ UNCHANGED record
    BY <1>11 DEF ActivateStep, ActivateRead, ActivateLose, DeviceDies
<1>12. ASSUME NEW r \in Requests, RequestStep(r)
       PROVE  ScanActivateWin(r) \/ WriteAccept(r) \/ UNCHANGED record
    BY <1>12 DEF RequestStep, Deliver, ScanActivateLose, ValidateAccept, ValidateDeny,
                 WriteDuplicate, WriteAbort, RequestDies
<1>13. ASSUME NEW c \in Closers, EndClaim(c) \/ CronRead(c) \/ CronClaim(c) \/ CloserDies(c)
       PROVE  UNCHANGED record
    BY <1>13 DEF EndClaim, CronRead, CronClaim, CloserDies
<1>14. ASSUME \/ Tick
              \/ \E k \in Tokens : SignToken(k)
              \/ \E x \in Students : Enroll(x) \/ Remove(x)
              \/ \E i \in Attempts : Refuse(i)
              \/ UNCHANGED vars
       PROVE  UNCHANGED record
    BY <1>14 DEF Tick, SignToken, Enroll, Remove, Refuse, vars
<1> QED BY <1>2, <1>5, <1>6, <1>7, <1>8, <1>9, <1>10, <1>11, <1>12, <1>13, <1>14
        DEF Next, CronStep, Closers

\* A claim lists rows that are pending when it is made, and no other step lists.
LEMMA ListingEffect ==
    ASSUME Typed, [Next]_vars, NEW c \in Closers, closer'[c].phase = "claimed"
    PROVE  closer'[c] = closer[c] \/ closer'[c].pending = PendingStudents
<1> USE DEF Typed
<1>1. ASSUME NEW e \in Closers,
             EndClaim(e) \/ CronRead(e) \/ CronClaim(e) \/ CloseCommit(e) \/ CloserDies(e)
      PROVE  closer'[c] = closer[c] \/ closer'[c].pending = PendingStudents
  <2>1. CASE e # c
      BY <1>1, <2>1 DEF EndClaim, CronRead, CronClaim, CloseCommit, CloserDies, TypeOK
  <2>2. CASE EndClaim(c)
      BY <2>2 DEF EndClaim, TypeOK
  <2>3. CASE CronRead(c)
      BY <2>3 DEF CronRead, TypeOK, Closer
  <2>4. CASE CronClaim(c)
      BY <2>4 DEF CronClaim, IdleCloser, TypeOK
  <2>5. CASE CloseCommit(c) \/ CloserDies(c)
      BY <2>5 DEF CloseCommit, CloserDies, IdleCloser, TypeOK
  <2> QED BY <1>1, <2>1, <2>2, <2>3, <2>4, <2>5
<1>2. ASSUME NEW d \in Devices, ActivateStep(d) PROVE UNCHANGED closer
    BY <1>2 DEF ActivateStep, ActivateRead, ActivateWin, ActivateLose, DeviceDies
<1>3. ASSUME NEW r \in Requests, RequestStep(r) PROVE UNCHANGED closer
    BY <1>3 DEF RequestStep, Deliver, ScanActivateWin, ScanActivateLose, ValidateAccept,
                ValidateDeny, WriteAccept, WriteDuplicate, WriteAbort, RequestDies
<1>4. ASSUME \/ Tick
             \/ \E k \in Tokens : SignToken(k)
             \/ \E s \in Students : Enroll(s) \/ Remove(s)
             \/ \E s \in Students, st \in ManualStatuses : UpdateStatus(s, st) \/ CreateManual(s, st)
             \/ \E i \in Attempts : Refuse(i)
             \/ UNCHANGED vars
      PROVE  UNCHANGED closer
    BY <1>4 DEF Tick, SignToken, Enroll, Remove, UpdateStatus, CreateManual, Refuse, vars
<1> QED BY <1>1, <1>2, <1>3, <1>4 DEF Next, CronStep, Closers

LEMMA ListedStep ==
    ASSUME Typed, Accounted, ListedWereUnseen, [Next]_vars
    PROVE  ListedWereUnseen'
<1> SUFFICES ASSUME NEW c \in Closers, closer'[c].phase = "claimed", NEW s \in closer'[c].pending
             PROVE  OnceUnseen(s)'
    BY DEF ListedWereUnseen
<1>1. s \in Students
    BY TypedStep DEF Typed, TypeOK, Closer
<1>2. OnceUnseen(s)
    BY <1>1, ListingEffect DEF ListedWereUnseen, OnceUnseen, PendingStudents, Pending
<1> QED BY <1>1, <1>2, OnceUnseenStays

\* The close leaves nobody pending: whom it tells is absent, unless a scan or the
\* teacher was there first.
LEMMA NotifyStep ==
    ASSUME Typed, Accounted, ListedWereUnseen, [Next]_vars, NEW s \in notified' \ notified
    PROVE  \/ record'[s].status = "absent"
           \/ record'[s].acceptedScanAttemptId # NoAttempt
           \/ record'[s].manuallySet
<1>1. PICK c \in Closers : CloseCommit(c)
  <2>1. ASSUME NEW d \in Devices, ActivateStep(d) PROVE UNCHANGED notified
      BY <2>1 DEF ActivateStep, ActivateRead, ActivateWin, ActivateLose, DeviceDies
  <2>2. ASSUME NEW r \in Requests, RequestStep(r) PROVE UNCHANGED notified
      BY <2>2 DEF RequestStep, Deliver, ScanActivateWin, ScanActivateLose, ValidateAccept,
                  ValidateDeny, WriteAccept, WriteDuplicate, WriteAbort, RequestDies
  <2>3. ASSUME NEW c \in Closers, EndClaim(c) \/ CronRead(c) \/ CronClaim(c) \/ CloserDies(c)
        PROVE  UNCHANGED notified
      BY <2>3 DEF EndClaim, CronRead, CronClaim, CloserDies
  <2>4. ASSUME \/ Tick
               \/ \E k \in Tokens : SignToken(k)
               \/ \E x \in Students : Enroll(x) \/ Remove(x)
               \/ \E x \in Students, st \in ManualStatuses : UpdateStatus(x, st) \/ CreateManual(x, st)
               \/ \E i \in Attempts : Refuse(i)
               \/ UNCHANGED vars
        PROVE  UNCHANGED notified
      BY <2>4 DEF Tick, SignToken, Enroll, Remove, UpdateStatus, CreateManual, Refuse, vars
  <2> QED BY <2>1, <2>2, <2>3, <2>4 DEF Next, CronStep, Closers
<1>2. s \in closer[c].pending /\ closer[c].phase = "claimed" /\ record' = MarkAbsent(record)
    BY <1>1 DEF CloseCommit
<1>3. s \in Students /\ OnceUnseen(s)
    BY <1>2 DEF ListedWereUnseen, Typed, TypeOK, Closer
<1> QED BY <1>2, <1>3 DEF MarkAbsent, OnceUnseen, Typed, TypeOK, Row

LEMMA ListedInit == Init => ListedWereUnseen
<1>1. Init => \A c \in Closers : closer[c].phase # "claimed"
    BY DEF Init, IdleCloser
<1> QED BY <1>1 DEF ListedWereUnseen

\* Nobody is told of an absence without a row that says so, a scan or the word of
\* the teacher, whatever happens between the listing of a close and its commit.
THEOREM TheUnseenAreTold == Spec => OnlyThePendingAreNotified
<1>1. Typed /\ Accounted /\ ListedWereUnseen /\ [Next]_vars => ListedWereUnseen'
    BY ListedStep
<1>2. Typed /\ Accounted /\ ListedWereUnseen /\ [Next]_vars =>
      [\A s \in notified' \ notified :
         \/ record'[s].status = "absent"
         \/ record'[s].acceptedScanAttemptId # NoAttempt
         \/ record'[s].manuallySet]_vars
    BY NotifyStep
<1> QED BY <1>1, <1>2, ListedInit, TypedAlways, AccountedAlways, PTL
        DEF Spec, OnlyThePendingAreNotified
=============================================================================
