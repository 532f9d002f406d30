------------------------ MODULE OnlineSessionProofs ------------------------
(***************************************************************************)
(* Proofs about OnlineSession, for every set of students, attempts, tokens,*)
(* requests, devices and closers, every assignment of attempts to students *)
(* and every value of the time bounds.                                     *)
(***************************************************************************)
EXTENDS OnlineSession, TLAPS

\* Whatever is in progress carries an attempt, and a token of the right checkpoint.
InProgressCarries ==
    /\ \A r \in Requests : request[r].phase # "idle" =>
          request[r].id \in Attempts /\ request[r].token \in Tokens
    /\ \A d \in Devices :
          /\ arming[d].op \in {"start", "restart"} => arming[d].token \in StartTokens
          /\ arming[d].op \in {"end", "reend"} => arming[d].token \in EndTokens

Typed == TypeOK /\ InProgressCarries

In(row)  == row.checkInToken # NoToken
Out(row) == row.checkOutToken # NoToken

\* A student without a row has no trace of a scan or a correction.
RowlessIsBlank == \A s \in Students : record[s].status = "none" => record[s] = NoRow

\* A leg is filled as a whole, and its two attempts differ.
LegsAreWhole ==
    \A s \in Students :
       /\ In(record[s]) <=> record[s].checkInAttemptId # NoAttempt
       /\ In(record[s]) <=> record[s].checkInStatus # "none"
       /\ Out(record[s]) <=> record[s].checkOutAttemptId # NoAttempt

\* A row names attempts of its own student only, and each on one leg.
RowsNameOwnAttempts ==
    \A s \in Students, i \in Attempts :
       /\ i \in {record[s].checkInAttemptId, record[s].checkOutAttemptId} => Owner[i] = s
       /\ ~(record[s].checkInAttemptId = i /\ record[s].checkOutAttemptId = i)

Accounted == RowlessIsBlank /\ LegsAreWhole /\ RowsNameOwnAttempts /\ AcceptedAttemptsAreLegs

\* The session is active exactly while its start is armed, and never once it has
\* ended; a scan is written only after the activation; and a single closing
\* transaction holds the row's lock, on an active session.
Lifecycle ==
    /\ isActive <=> startQrToken # NoToken
    /\ endQrToken # NoToken => isActive
    /\ ended => ~isActive
    /\ \A r \in Requests : request[r].phase = "writing" => isActive \/ ended
    /\ \A c \in Closers : closer[c].phase = "claimed" => isActive
    /\ \A c, e \in Closers : closer[c].phase = "claimed" /\ closer[e].phase = "claimed" => c = e

\* The job acts on a deadline that has passed, and on the one in force once it
\* holds the lock.
JobIsLate ==
    \A c \in CronWorkers :
       /\ closer[c].phase # "idle" => now > closer[c].deadline
       /\ closer[c].phase = "claimed" => closer[c].deadline = autoEndAt

\* A disputed check-in disputes its row.
DisputesAreMarked ==
    \A s \in Students : Undecided(record[s]) => record[s].checkInStatus # "disputed"

\* What a closing transaction listed of the legs still holds, and an undecided row
\* without a leg was listed as absent: scans only add legs.
ListsHold ==
    \A c \in Closers, s \in Students : closer[c].phase = "claimed" =>
       /\ closer[c].listed[s] \in Credited \cup {"missedCheckout"} => In(record[s])
       /\ closer[c].listed[s] \in Credited => record[s].checkInStatus = closer[c].listed[s]
       /\ closer[c].listed[s] = "missedCheckin" => Out(record[s])
       /\ Undecided(record[s]) /\ ~In(record[s]) /\ ~Out(record[s])
             => closer[c].listed[s] = "absent"

Resolution == DisputesAreMarked /\ ListsHold /\ ResolutionMatchesLegs /\ OnlyScannersStayPending

IInv == Typed /\ Accounted /\ Lifecycle /\ JobIsLate /\ Resolution

-----------------------------------------------------------------------------
(* Types *)

USE DEF Times, NoTime, Tokens

LEMMA RowType ==
    /\ \A st \in Statuses : SeededRow(st) \in Row
    /\ NoRow \in Row
BY DEF SeededRow, NoRow, Row, Statuses

LEMMA IdleType ==
    /\ IdleRequest \in Request
    /\ IdleArming \in Arming
    /\ IdleCloser \in Closer
BY TimeAssumption DEF IdleRequest, Request, IdleArming, Arming, IdleCloser, Closer, Buckets

\* The deadlines a claim sets are times or null.
LEMMA DeadlineTypes ==
    ASSUME TypeOK, NEW k \in Tokens
    PROVE  ClassDeadline(k) \in Times \cup {NoTime} /\ ExpiresAt(k) \in Times \cup {NoTime}
BY TimeAssumption, SMT DEF TypeOK, ClassDeadline, ExpiresAt

LEMMA TargetType ==
    ASSUME TypeOK, NEW s \in Students
    PROVE  Target(s) \in Row /\ Target(s).status # "none"
BY RowType DEF TypeOK, Target, HasRow, SeededRow, NoRow, Statuses

LEMMA FilledType ==
    ASSUME NEW row \in Row, NEW q \in Request, q.id \in Attempts, q.token \in Tokens
    PROVE  Filled(row, q) \in Row
<1> DEFINE marked == IF q.verdict = "disputed" THEN [row EXCEPT !.status = "disputed"] ELSE row
<1>1. marked \in Row
    BY DEF Row, Statuses
<1>2. CASE q.token \in StartTokens
  <2>1. [marked EXCEPT !.checkInToken = q.token, !.checkInStatus = q.verdict,
                       !.checkInAttemptId = q.id] \in Row
    <3> HIDE DEF marked
    <3> QED BY <1>1, <1>2 DEF Row, Request
  <2> QED BY <1>2, <2>1 DEF Filled
<1>3. CASE q.token \notin StartTokens
  <2>1. [marked EXCEPT !.checkOutToken = q.token, !.checkOutAttemptId = q.id] \in Row
    <3> HIDE DEF marked
    <3> QED BY <1>1, <1>3 DEF Row
  <2> QED BY <1>3, <2>1 DEF Filled
<1> QED BY <1>2, <1>3

LEMMA BucketType ==
    ASSUME TypeOK, NEW s \in Students, NEW armed \in BOOLEAN
    PROVE  Bucket(record[s], armed) \in Buckets
BY DEF TypeOK, Bucket, Buckets, Credited, Row, Undecided

-----------------------------------------------------------------------------
LEMMA TypedInit == Init => Typed
<1> SUFFICES ASSUME Init PROVE Typed
    OBVIOUS
<1>1. record \in [Students -> Row] /\ request \in [Requests -> Request]
      /\ arming \in [Devices -> Arming] /\ closer \in [Closers -> Closer]
    BY IdleType, RowType DEF Init
<1>2. issuedAt \in [Tokens -> 0..LastIssue \cup {NoTime}] /\ outcome \in [Attempts -> Outcomes]
    BY DEF Init, Outcomes
<1>3. now \in Times /\ autoEndAt \in Times \cup {NoTime} /\ failures \in 0..MaxFailures
    BY TimeAssumption, FailureAssumption DEF Init
<1>4. /\ isActive \in BOOLEAN /\ ended \in BOOLEAN /\ endGenerated \in BOOLEAN
      /\ startQrToken \in StartTokens \cup {NoToken} /\ endQrToken \in EndTokens \cup {NoToken}
      /\ enrolled \subseteq Students
    BY DEF Init
<1>5. InProgressCarries
    BY DEF Init, InProgressCarries, IdleRequest, IdleArming
<1> QED BY <1>1, <1>2, <1>3, <1>4, <1>5 DEF Typed, TypeOK

\* The teacher's device: reading, and each of the claims.
LEMMA ArmTyped == ASSUME Typed, NEW d \in Devices, ArmStep(d) PROVE Typed'
<1> USE DEF Typed
<1>1. ASSUME NEW op \in {"start", "restart", "end", "reend"}, NEW k \in Tokens, ArmRead(d, op, k)
      PROVE  Typed'
  <2> DEFINE new == [op |-> op, token |-> k,
                     expected |-> IF op = "restart" THEN startQrToken
                                  ELSE IF op = "reend" THEN endQrToken ELSE NoToken]
  <2>1. new \in Arming
      BY DEF TypeOK, Arming
  <2>2. /\ op \in {"start", "restart"} => k \in StartTokens
        /\ op \in {"end", "reend"} => k \in EndTokens
      BY <1>1 DEF ArmRead, MayArm
  <2>3. arming' = [arming EXCEPT ![d] = new] /\ UNCHANGED <<now, issuedAt, sessionVars, enrolled, record,
          outcome, request, closer, failures>>
      BY <1>1 DEF ArmRead
  <2>4. new.op = op /\ new.token = k
      OBVIOUS
  <2> HIDE DEF new
  <2> QED BY <2>1, <2>2, <2>3, <2>4 DEF TypeOK, InProgressCarries, sessionVars
<1>2. ASSUME ArmStart(d) PROVE Typed'
  <2>1. arming[d].token \in StartTokens
      BY <1>2 DEF ArmStart, InProgressCarries
  <2>2. ClassDeadline(arming[d].token) \in Times \cup {NoTime}
      BY <2>1, DeadlineTypes
  <2>3. record' \in [Students -> Row]
      BY <1>2, RowType DEF ArmStart, TypeOK, Statuses
  <2> QED BY <1>2, <2>1, <2>2, <2>3, IdleType
          DEF ArmStart, TypeOK, InProgressCarries, IdleArming
<1>3. ASSUME RegenerateStart(d) PROVE Typed'
    BY <1>3, IdleType DEF RegenerateStart, TypeOK, InProgressCarries, IdleArming
<1>4. ASSUME ArmEnd(d) PROVE Typed'
  <2>1. arming[d].token \in EndTokens
      BY <1>4 DEF ArmEnd, InProgressCarries
  <2>2. ExpiresAt(arming[d].token) \in Times \cup {NoTime}
      BY <2>1, DeadlineTypes
  <2> QED BY <1>4, <2>1, <2>2, IdleType DEF ArmEnd, TypeOK, InProgressCarries, IdleArming
<1>5. ASSUME ArmLose(d) \/ DeviceDies(d) PROVE Typed'
    BY <1>5, IdleType, FailureAssumption
    DEF ArmLose, DeviceDies, TypeOK, InProgressCarries, IdleArming, sessionVars
<1> QED BY <1>1, <1>2, <1>3, <1>4, <1>5 DEF ArmStep

\* A scan submission.
LEMMA RequestTyped == ASSUME Typed, NEW r \in Requests, RequestStep(r) PROVE Typed'
<1> USE DEF Typed
<1>1. ASSUME NEW i \in Attempts, NEW k \in Tokens, NEW off \in BOOLEAN, Deliver(r, i, k, off)
      PROVE  Typed'
  <2>1. request' \in [Requests -> Request]
      BY <1>1 DEF Deliver, TypeOK, Request, IdleRequest
  <2> QED BY <1>1, <2>1 DEF Deliver, TypeOK, InProgressCarries, IdleRequest, sessionVars
<1>2. ASSUME ValidateAccept(r) PROVE Typed'
  <2>1. PICK e \in Evidence, t \in ScanTimes(request[r]) :
           /\ Verdict(request[r], e, t) # "denied"
           /\ request' = [request EXCEPT ![r].phase = "writing",
                                         ![r].verdict = Verdict(request[r], e, t)]
      BY <1>2 DEF ValidateAccept
  <2>2. Verdict(request[r], e, t) \in {"present", "late", "disputed"}
      BY <2>1 DEF Verdict, Evidence
  <2>3. [request[r] EXCEPT !.phase = "writing", !.verdict = Verdict(request[r], e, t)] \in Request
      BY <2>2 DEF TypeOK, Request
  <2>4. request' = [request EXCEPT ![r] =
           [request[r] EXCEPT !.phase = "writing", !.verdict = Verdict(request[r], e, t)]]
      BY <2>1 DEF TypeOK
  <2>5. /\ request[r].phase = "validating"
        /\ UNCHANGED <<now, issuedAt, sessionVars, enrolled, record, outcome,
                       arming, closer, failures>>
      BY <1>2 DEF ValidateAccept
  <2>6. request' \in [Requests -> Request]
      BY <2>3, <2>4 DEF TypeOK
  <2>7. InProgressCarries'
      BY <2>4, <2>5 DEF TypeOK, Request, InProgressCarries
  <2> QED BY <2>5, <2>6, <2>7 DEF TypeOK, sessionVars
<1>3. ASSUME ValidateDeny(r) PROVE Typed'
    BY <1>3, IdleType
    DEF ValidateDeny, TypeOK, InProgressCarries, IdleRequest, Outcomes, sessionVars
<1>4. ASSUME WriteAccept(r) PROVE Typed'
  <2> DEFINE q == request[r]
             s == Owner[q.id]
  <2>1. q \in Request /\ q.id \in Attempts /\ q.token \in Tokens /\ s \in Students
      BY <1>4, OwnerAssumption DEF WriteAccept, TypeOK, InProgressCarries
  <2>2. Filled(Target(s), q) \in Row
      BY <2>1, FilledType, TargetType
  <2>3. Outcome(q.verdict) \in Outcomes
      BY <2>1 DEF Outcome, Outcomes, Request
  <2> QED BY <1>4, <2>1, <2>2, <2>3, IdleType
          DEF WriteAccept, TypeOK, InProgressCarries, IdleRequest, sessionVars
<1>5. ASSUME WriteDuplicate(r) \/ WriteAbort(r) \/ RequestDies(r) PROVE Typed'
  <2>1. request' = [request EXCEPT ![r] = IdleRequest]
      BY <1>5 DEF WriteDuplicate, WriteAbort, RequestDies
  <2>2. request' \in [Requests -> Request] /\ InProgressCarries'
      BY <1>5, <2>1, IdleType
      DEF WriteDuplicate, WriteAbort, RequestDies, TypeOK, InProgressCarries, IdleRequest
  <2>3. outcome' \in [Attempts -> Outcomes]
      BY <1>5 DEF WriteDuplicate, WriteAbort, RequestDies, TypeOK, Outcomes
  <2>4. failures' \in 0..MaxFailures
      BY <1>5, FailureAssumption DEF WriteDuplicate, WriteAbort, RequestDies, TypeOK
  <2> QED BY <1>5, <2>2, <2>3, <2>4
          DEF WriteDuplicate, WriteAbort, RequestDies, TypeOK, sessionVars
<1> QED BY <1>1, <1>2, <1>3, <1>4, <1>5 DEF RequestStep

\* Closing, by whomever.
CloserStep(c) == EndRead(c) \/ EndClaim(c) \/ CronRead(c) \/ CronClaim(c) \/ CloserDies(c)

LEMMA CloserTyped == ASSUME Typed, NEW c \in Closers, CloserStep(c) \/ CloseCommit(c) PROVE Typed'
<1> USE DEF Typed
<1>1. ASSUME EndRead(c) \/ CronRead(c) PROVE Typed'
  <2>1. \A armed \in BOOLEAN, t \in Times \cup {NoTime} :
           [IdleCloser EXCEPT !.phase = "read", !.deadline = t, !.endArmed = armed] \in Closer
      BY DEF IdleCloser, Closer, Buckets
  <2>2. \A armed \in BOOLEAN : [IdleCloser EXCEPT !.phase = "read", !.endArmed = armed] \in Closer
      BY DEF IdleCloser, Closer, Buckets
  <2>3. (endQrToken # NoToken \/ endGenerated) \in BOOLEAN
      BY DEF TypeOK
  <2>4. closer' \in [Closers -> Closer]
      BY <1>1, <2>1, <2>2, <2>3 DEF EndRead, CronRead, TypeOK
  <2> QED BY <1>1, <2>4 DEF EndRead, CronRead, TypeOK, InProgressCarries, sessionVars
<1>2. ASSUME NEW holds, Claim(c, holds) PROVE Typed'
  <2> DEFINE lists == [s \in Students |-> Bucket(record[s], closer[c].endArmed)]
  <2>1. lists \in [Students -> Buckets]
      BY BucketType DEF TypeOK, Closer
  <2>2. [closer[c] EXCEPT !.phase = "claimed", !.listed = lists] \in Closer
      BY <2>1 DEF TypeOK, Closer
  <2>3. closer' \in [Closers -> Closer]
      BY <1>2, <2>2, IdleType DEF Claim, TypeOK
  <2> QED BY <1>2, <2>3 DEF Claim, TypeOK, InProgressCarries, sessionVars
<1>3. ASSUME CloseCommit(c) PROVE Typed'
  <2>1. closer[c].listed \in [Students -> Buckets] /\ closer[c].endArmed \in BOOLEAN
      BY DEF TypeOK, Closer
  <2>2. \A s \in Students : closer[c].listed[s] # "no" =>
           [record[s] EXCEPT !.status = Resolved(closer[c].listed[s])] \in Row
      BY <2>1 DEF TypeOK, Row, Resolved, Buckets, Statuses
  <2>3. record' \in [Students -> Row]
      BY <1>3, <2>2 DEF CloseCommit, StillMatches, TypeOK
  <2> QED BY <1>3, <2>3, IdleType DEF CloseCommit, TypeOK, InProgressCarries
<1>4. ASSUME CloserDies(c) PROVE Typed'
    BY <1>4, IdleType, FailureAssumption DEF CloserDies, TypeOK, InProgressCarries, sessionVars
<1> QED BY <1>1, <1>2, <1>3, <1>4 DEF CloserStep, EndClaim, CronClaim

\* Corrections by the teacher.
Correction(s, st) == UpdateStatus(s, st) \/ CreateManual(s, st)

LEMMA CorrectionTyped ==
    ASSUME Typed, NEW s \in Students, NEW st \in ManualStatuses, Correction(s, st)
    PROVE  Typed'
<1> USE DEF Typed
<1>1. st \in Statuses
    BY StatusAssumption
<1>2. CASE UpdateStatus(s, st)
  <2>1. [record[s] EXCEPT !.status = st, !.manuallySet = TRUE] \in Row
      BY <1>1 DEF TypeOK, Row
  <2>2. record' = [record EXCEPT ![s] = [record[s] EXCEPT !.status = st, !.manuallySet = TRUE]]
      BY <1>2 DEF UpdateStatus, TypeOK
  <2> QED BY <1>2, <2>1, <2>2 DEF UpdateStatus, TypeOK, InProgressCarries, sessionVars
<1>3. CASE CreateManual(s, st)
  <2>1. [Target(s) EXCEPT !.status = st, !.manuallySet = TRUE] \in Row
      BY <1>1, TargetType DEF Row
  <2> QED BY <1>3, <2>1 DEF CreateManual, TypeOK, InProgressCarries, sessionVars
<1> QED BY <1>2, <1>3 DEF Correction

\* What leaves the session, the rows and what is in progress alone.
Aside ==
    \/ Tick
    \/ \E k \in Tokens : SignToken(k)
    \/ \E s \in Students : Enroll(s) \/ Remove(s)
    \/ \E i \in Attempts : Refuse(i)
    \/ UNCHANGED vars

LEMMA AsideTyped == ASSUME Typed, Aside PROVE Typed'
<1> USE DEF Typed
<1>1. CASE Tick
    BY <1>1, TimeAssumption DEF Tick, TypeOK, InProgressCarries, sessionVars
<1>2. ASSUME NEW k \in Tokens, SignToken(k) PROVE Typed'
    BY <1>2, TimeAssumption DEF SignToken, TypeOK, InProgressCarries, sessionVars
<1>3. ASSUME NEW s \in Students, Enroll(s) \/ Remove(s) PROVE Typed'
    BY <1>3 DEF Enroll, Remove, TypeOK, InProgressCarries, sessionVars
<1>4. ASSUME NEW i \in Attempts, Refuse(i) PROVE Typed'
    BY <1>4 DEF Refuse, TypeOK, InProgressCarries, Outcomes, sessionVars
<1>5. CASE UNCHANGED vars
    BY <1>5 DEF vars, TypeOK, InProgressCarries
<1> QED BY <1>1, <1>2, <1>3, <1>4, <1>5 DEF Aside

\* Every step is one of these.
LEMMA StepCases ==
    ASSUME [Next]_vars
    PROVE  \/ Aside
           \/ \E d \in Devices : ArmStep(d)
           \/ \E r \in Requests : RequestStep(r)
           \/ \E s \in Students, st \in ManualStatuses : Correction(s, st)
           \/ \E c \in Enders : EndRead(c) \/ EndClaim(c) \/ CloseCommit(c)
           \/ \E c \in CronWorkers : CronRead(c) \/ CronClaim(c) \/ CloseCommit(c)
           \/ \E c \in Closers : CloserDies(c)
BY DEF Next, Aside, Correction

LEMMA TypedStep == Typed /\ [Next]_vars => Typed'
<1> SUFFICES ASSUME Typed, [Next]_vars PROVE Typed'
    OBVIOUS
<1>1. Enders \subseteq Closers /\ CronWorkers \subseteq Closers
    BY DEF Closers
<1> QED BY <1>1, StepCases, AsideTyped, ArmTyped, RequestTyped, CloserTyped, CorrectionTyped
        DEF CloserStep

LEMMA TypedAlways == Spec => []Typed
BY TypedInit, TypedStep, PTL DEF Spec

\* The session row, the attendance rows, the stored attempts and all that is in
\* progress keep their types in every behaviour.
THEOREM OnlineTypeCorrect == Spec => []TypeOK
BY TypedAlways, PTL DEF Typed

-----------------------------------------------------------------------------
(* What steps do to rows and stored attempts *)

SameLegs(old, new) ==
    /\ new.checkInToken = old.checkInToken /\ new.checkInStatus = old.checkInStatus
    /\ new.checkInAttemptId = old.checkInAttemptId
    /\ new.checkOutToken = old.checkOutToken /\ new.checkOutAttemptId = old.checkOutAttemptId

\* Every step but an accepting write leaves the legs alone, deletes no row, and
\* stores no attempt but as denied.
KeepsLegs ==
    /\ \A s \in Students :
          /\ SameLegs(record[s], record'[s])
          /\ record'[s].status = "none" => record'[s] = record[s]
    /\ \A i \in Attempts :
          outcome'[i] = outcome[i] \/ (outcome[i] = "none" /\ outcome'[i] = "denied")

LEMMA TargetLegs ==
    ASSUME TypeOK, RowlessIsBlank, NEW s \in Students
    PROVE  SameLegs(record[s], Target(s)) /\ Target(s).manuallySet = record[s].manuallySet
BY DEF TypeOK, Row, RowlessIsBlank, Target, HasRow, SeededRow, NoRow, SameLegs

\* A correction writes one row: its status, and the mark that a teacher set it.
LEMMA CorrectionEffect ==
    ASSUME Typed, RowlessIsBlank, NEW s \in Students, NEW st \in ManualStatuses, Correction(s, st)
    PROVE  /\ UNCHANGED <<now, issuedAt, sessionVars, enrolled, outcome, request, arming, closer>>
           /\ \A x \in Students \ {s} : record'[x] = record[x]
           /\ SameLegs(record[s], record'[s])
           /\ record'[s].status \in Statuses
           /\ record'[s].manuallySet
<1>1. UNCHANGED <<now, issuedAt, sessionVars, enrolled, outcome, request, arming, closer>>
    BY DEF Correction, UpdateStatus, CreateManual
<1>2. PICK row \in Row : /\ SameLegs(record[s], row)
                         /\ record' = [record EXCEPT ![s] = [row EXCEPT !.status = st, !.manuallySet = TRUE]]
  <2>1. CASE UpdateStatus(s, st)
    <3>1. record[s] \in Row /\ SameLegs(record[s], record[s])
        BY DEF Typed, TypeOK, SameLegs
    <3>2. record' = [record EXCEPT ![s] = [record[s] EXCEPT !.status = st, !.manuallySet = TRUE]]
        BY <2>1 DEF UpdateStatus, Typed, TypeOK
    <3> QED BY <3>1, <3>2
  <2>2. CASE CreateManual(s, st)
      BY <2>2, TargetType, TargetLegs DEF CreateManual, Typed
  <2> QED BY <2>1, <2>2 DEF Correction
<1>3. st \in Statuses
    BY StatusAssumption
<1>4. record'[s] = [row EXCEPT !.status = st, !.manuallySet = TRUE]
    BY <1>2 DEF Typed, TypeOK
<1> QED BY <1>1, <1>2, <1>3, <1>4 DEF Typed, TypeOK, Row, SameLegs

\* What an accepting write does: an attempt nobody has stored fills an empty leg of
\* its student's row, which no teacher has set, and disputes the row or leaves it pending.
LEMMA WriteEffect ==
    ASSUME Typed, RowlessIsBlank, NEW r \in Requests, WriteAccept(r)
    PROVE  LET q == request[r]
               s == Owner[q.id]
           IN  /\ q.id \in Attempts /\ s \in Students /\ outcome[q.id] = "none"
               /\ \A x \in Students \ {s} : record'[x] = record[x]
               /\ ~record[s].manuallySet /\ ~record'[s].manuallySet
               /\ \/ record[s].status \in {"none", "pending"}
                  \/ record[s].status = "absent" /\ q.verdict = "disputed"
               /\ record'[s].status = IF q.verdict = "disputed" THEN "disputed" ELSE "pending"
               /\ q.verdict \in {"present", "late", "disputed"}
               /\ \/ /\ q.token \in StartTokens /\ ~In(record[s])
                     /\ record'[s].checkInToken = q.token
                     /\ record'[s].checkInStatus = q.verdict
                     /\ record'[s].checkInAttemptId = q.id
                     /\ record'[s].checkOutToken = record[s].checkOutToken
                     /\ record'[s].checkOutAttemptId = record[s].checkOutAttemptId
                  \/ /\ q.token \in EndTokens /\ ~Out(record[s])
                     /\ record'[s].checkInToken = record[s].checkInToken
                     /\ record'[s].checkInStatus = record[s].checkInStatus
                     /\ record'[s].checkInAttemptId = record[s].checkInAttemptId
                     /\ record'[s].checkOutToken = q.token
                     /\ record'[s].checkOutAttemptId = q.id
               /\ \A i \in Attempts \ {q.id} : outcome'[i] = outcome[i]
               /\ outcome'[q.id] \in Accepted
<1> DEFINE q == request[r]
           s == Owner[q.id]
           row == Target(s)
<1>1. /\ q \in Request /\ q.id \in Attempts /\ q.token \in Tokens /\ s \in Students
    BY OwnerAssumption DEF WriteAccept, Typed, TypeOK, InProgressCarries
<1>2. q.verdict \in {"present", "late", "disputed"} /\ Outcome(q.verdict) \in Accepted
    BY <1>1 DEF Request, Outcome, Accepted
<1>3. /\ row \in Row /\ SameLegs(record[s], row) /\ row.manuallySet = record[s].manuallySet
      /\ row.status = IF record[s].status = "none" THEN "pending" ELSE record[s].status
    BY <1>1, TargetType, TargetLegs DEF Typed, Target, HasRow, SeededRow, NoRow
<1>4. /\ Accepts(row, q) /\ outcome[q.id] = "none"
      /\ record' = [record EXCEPT ![s] = Filled(row, q)]
      /\ outcome' = [outcome EXCEPT ![q.id] = Outcome(q.verdict)]
    BY DEF WriteAccept
<1>5. /\ record'[s] = Filled(row, q)
      /\ \A x \in Students \ {s} : record'[x] = record[x]
      /\ outcome'[q.id] \in Accepted
      /\ \A i \in Attempts \ {q.id} : outcome'[i] = outcome[i]
    BY <1>1, <1>2, <1>4 DEF Typed, TypeOK
<1> HIDE DEF q, s, row
<1>6. /\ ~row.manuallySet
      /\ row.status = "pending" \/ (row.status = "absent" /\ q.verdict = "disputed")
      /\ q.token \in StartTokens => ~In(row)
      /\ q.token \notin StartTokens => ~Out(row)
    BY <1>4 DEF Accepts, In, Out
<1> DEFINE marked == IF q.verdict = "disputed" THEN [row EXCEPT !.status = "disputed"] ELSE row
<1>7. /\ marked \in Row /\ SameLegs(row, marked) /\ ~marked.manuallySet
      /\ marked.status = IF q.verdict = "disputed" THEN "disputed" ELSE "pending"
    BY <1>3, <1>6 DEF Row, SameLegs, Statuses
<1>8. Filled(row, q) = IF q.token \in StartTokens
                       THEN [marked EXCEPT !.checkInToken = q.token, !.checkInStatus = q.verdict,
                                           !.checkInAttemptId = q.id]
                       ELSE [marked EXCEPT !.checkOutToken = q.token, !.checkOutAttemptId = q.id]
    BY DEF Filled
<1> HIDE DEF marked
<1>9. /\ Filled(row, q).status = marked.status /\ ~Filled(row, q).manuallySet
      /\ \/ /\ q.token \in StartTokens
            /\ Filled(row, q).checkInToken = q.token
            /\ Filled(row, q).checkInStatus = q.verdict
            /\ Filled(row, q).checkInAttemptId = q.id
            /\ Filled(row, q).checkOutToken = marked.checkOutToken
            /\ Filled(row, q).checkOutAttemptId = marked.checkOutAttemptId
         \/ /\ q.token \notin StartTokens
            /\ Filled(row, q).checkInToken = marked.checkInToken
            /\ Filled(row, q).checkInStatus = marked.checkInStatus
            /\ Filled(row, q).checkInAttemptId = marked.checkInAttemptId
            /\ Filled(row, q).checkOutToken = q.token
            /\ Filled(row, q).checkOutAttemptId = q.id
    BY <1>7, <1>8 DEF Row
<1>10. /\ ~record[s].manuallySet
       /\ record[s].status \in {"none", "pending"} \/ (record[s].status = "absent" /\ q.verdict = "disputed")
       /\ q.token \in StartTokens => ~In(record[s])
       /\ q.token \notin StartTokens => ~Out(record[s])
    BY <1>3, <1>6 DEF SameLegs, In, Out
<1> QED BY <1>1, <1>2, <1>3, <1>4, <1>5, <1>7, <1>9, <1>10 DEF SameLegs, q, s

\* The rows the activation seeds, and those the close resolves.
LEMMA SeedEffect ==
    ASSUME Typed, RowlessIsBlank, NEW d \in Devices, ArmStart(d), NEW s \in Students
    PROVE  /\ SameLegs(record[s], record'[s])
           /\ \/ record'[s] = record[s]
              \/ /\ ~HasRow(s) /\ record'[s].status = "pending" /\ ~record'[s].manuallySet
                 /\ ~In(record'[s]) /\ ~Out(record'[s])
<1>1. record'[s] = record[s] \/ (~HasRow(s) /\ record'[s] = SeededRow("pending"))
    BY DEF ArmStart
<1> QED BY <1>1 DEF SameLegs, RowlessIsBlank, HasRow, SeededRow, NoRow, In, Out

LEMMA CommitEffect ==
    ASSUME Typed, NEW c \in Closers, CloseCommit(c), NEW s \in Students
    PROVE  /\ SameLegs(record[s], record'[s])
           /\ record'[s].manuallySet = record[s].manuallySet
           /\ \/ /\ record'[s] = record[s]
                 /\ ~StillMatches(record[s], closer[c].listed[s], closer[c].endArmed)
              \/ /\ StillMatches(record[s], closer[c].listed[s], closer[c].endArmed)
                 /\ record'[s].status = Resolved(closer[c].listed[s])
                 /\ record'[s].status \in {"absent", "present", "late", "incomplete"}
<1>1. record[s] \in Row /\ closer[c].listed[s] \in Buckets
    BY DEF Typed, TypeOK, Closer
<1>2. record'[s] = IF StillMatches(record[s], closer[c].listed[s], closer[c].endArmed)
                   THEN [record[s] EXCEPT !.status = Resolved(closer[c].listed[s])]
                   ELSE record[s]
    BY DEF CloseCommit
<1>3. CASE StillMatches(record[s], closer[c].listed[s], closer[c].endArmed)
  <2>1. Resolved(closer[c].listed[s]) \in {"absent", "present", "late", "incomplete"}
      BY <1>1, <1>3 DEF StillMatches, Resolved, Buckets
  <2> QED BY <1>1, <1>2, <1>3, <2>1 DEF Row, SameLegs
<1>4. CASE ~StillMatches(record[s], closer[c].listed[s], closer[c].endArmed)
    BY <1>2, <1>4 DEF SameLegs
<1> QED BY <1>3, <1>4

\* The steps that touch neither rows nor the session.
LEMMA RestOfRequest ==
    ASSUME Typed, NEW r \in Requests, RequestStep(r)
    PROVE  /\ UNCHANGED <<now, issuedAt, sessionVars, arming, closer>>
           /\ \/ WriteAccept(r)
              \/ /\ UNCHANGED record
                 /\ \A i \in Attempts :
                       outcome'[i] = outcome[i] \/ (outcome[i] = "none" /\ outcome'[i] = "denied")
<1>1. CASE ValidateDeny(r) \/ WriteDuplicate(r)
    BY <1>1 DEF ValidateDeny, WriteDuplicate, Typed, TypeOK, InProgressCarries
<1>2. UNCHANGED <<now, issuedAt, sessionVars, arming, closer>>
    BY DEF RequestStep, Deliver, ValidateAccept, ValidateDeny, WriteAccept, WriteDuplicate,
           WriteAbort, RequestDies
<1> QED BY <1>1, <1>2 DEF RequestStep, Deliver, ValidateAccept, WriteAbort, RequestDies

LEMMA StepEffect ==
    ASSUME Typed, RowlessIsBlank, [Next]_vars
    PROVE  KeepsLegs \/ \E r \in Requests : WriteAccept(r)
<1>1. ASSUME UNCHANGED <<record, outcome>> PROVE KeepsLegs
    BY <1>1 DEF KeepsLegs, SameLegs
<1>2. CASE Aside
  <2>1. ASSUME NEW i \in Attempts, Refuse(i) PROVE KeepsLegs
      BY <2>1 DEF Refuse, KeepsLegs, SameLegs, Typed, TypeOK
  <2> QED BY <1>1, <1>2, <2>1 DEF Aside, Tick, SignToken, Enroll, Remove, vars
<1>3. ASSUME NEW d \in Devices, ArmStep(d) PROVE KeepsLegs
  <2>1. CASE ArmStart(d)
    <3>1. UNCHANGED outcome
        BY <2>1 DEF ArmStart
    <3>2. ASSUME NEW s \in Students
          PROVE  /\ SameLegs(record[s], record'[s])
                 /\ record'[s].status = "none" => record'[s] = record[s]
        BY <2>1, SeedEffect
    <3> QED BY <3>1, <3>2 DEF KeepsLegs
  <2>2. ASSUME NEW op \in {"start", "restart", "end", "reend"}, NEW k \in Tokens, ArmRead(d, op, k)
        PROVE  KeepsLegs
      BY <1>1, <2>2 DEF ArmRead
  <2>3. ASSUME RegenerateStart(d) \/ ArmEnd(d) \/ ArmLose(d) \/ DeviceDies(d)
        PROVE  KeepsLegs
      BY <1>1, <2>3 DEF RegenerateStart, ArmEnd, ArmLose, DeviceDies
  <2> QED BY <1>3, <2>1, <2>2, <2>3 DEF ArmStep
<1>4. ASSUME NEW r \in Requests, RequestStep(r) PROVE KeepsLegs \/ WriteAccept(r)
    BY <1>4, RestOfRequest DEF KeepsLegs, SameLegs
<1>5. ASSUME NEW s \in Students, NEW st \in ManualStatuses, Correction(s, st) PROVE KeepsLegs
    BY <1>5, CorrectionEffect DEF KeepsLegs, SameLegs, Statuses
<1>6. ASSUME NEW c \in Closers, CloseCommit(c) PROVE KeepsLegs
  <2>1. UNCHANGED outcome
      BY <1>6 DEF CloseCommit
  <2> QED BY <1>6, <2>1, CommitEffect DEF KeepsLegs
<1>7. ASSUME NEW c \in Closers, CloserStep(c) PROVE UNCHANGED <<record, outcome>>
    BY <1>7 DEF CloserStep, EndRead, EndClaim, CronRead, CronClaim, Claim, CloserDies
<1> QED BY <1>1, <1>2, <1>3, <1>4, <1>5, <1>6, <1>7, StepCases DEF CloserStep, Closers

-----------------------------------------------------------------------------
(* Attempts and legs *)

LEMMA AccountedWrite ==
    ASSUME Typed, Accounted, NEW r \in Requests, WriteAccept(r)
    PROVE  Accounted'
<1> DEFINE q == request[r]
           s == Owner[q.id]
           i == q.id
<1>1. RowlessIsBlank /\ LegsAreWhole /\ RowsNameOwnAttempts /\ AcceptedAttemptsAreLegs
    BY DEF Accounted
<1>2. /\ i \in Attempts /\ s \in Students /\ s = Owner[i] /\ outcome[i] = "none"
      /\ \A x \in Students \ {s} : record'[x] = record[x]
      /\ record'[s].status \in {"pending", "disputed"}
      /\ q.verdict \in {"present", "late", "disputed"}
      /\ \A j \in Attempts \ {i} : outcome'[j] = outcome[j]
      /\ outcome'[i] \in Accepted
    BY <1>1, WriteEffect
<1>3. \/ /\ q.token \in StartTokens /\ ~In(record[s])
         /\ record'[s].checkInToken = q.token
         /\ record'[s].checkInStatus = q.verdict
         /\ record'[s].checkInAttemptId = i
         /\ record'[s].checkOutToken = record[s].checkOutToken
         /\ record'[s].checkOutAttemptId = record[s].checkOutAttemptId
      \/ /\ q.token \in EndTokens /\ ~Out(record[s])
         /\ record'[s].checkInToken = record[s].checkInToken
         /\ record'[s].checkInStatus = record[s].checkInStatus
         /\ record'[s].checkInAttemptId = record[s].checkInAttemptId
         /\ record'[s].checkOutToken = q.token
         /\ record'[s].checkOutAttemptId = i
    BY <1>1, WriteEffect
<1> HIDE DEF q, s, i
<1>4. i # NoAttempt /\ \A k \in Tokens : k # NoToken
    BY <1>2, TokenAssumption
<1>5. RowlessIsBlank'
  <2>1. NoRow' = NoRow
      BY DEF NoRow
  <2> QED BY <1>1, <1>2, <2>1 DEF RowlessIsBlank
<1>6. LegsAreWhole'
    BY <1>1, <1>2, <1>3, <1>4 DEF LegsAreWhole, In, Out
<1>7. \A x \in Students : record[x].checkInAttemptId # i /\ record[x].checkOutAttemptId # i
    BY <1>1, <1>2 DEF RowsNameOwnAttempts, AcceptedAttemptsAreLegs, Accepted
<1>8. RowsNameOwnAttempts'
    BY <1>1, <1>2, <1>3, <1>7 DEF RowsNameOwnAttempts
<1>9. ASSUME NEW j \in Attempts
      PROVE  outcome'[j] \in Accepted
             <=> j \in {record'[Owner[j]].checkInAttemptId, record'[Owner[j]].checkOutAttemptId}
  <2>1. CASE j = i
      BY <1>2, <1>3, <2>1
  <2>2. CASE j # i /\ Owner[j] = s
    <3>1. outcome'[j] = outcome[j]
        BY <1>2, <2>2
    <3>2. record[s].checkInAttemptId = NoAttempt \/ q.token \notin StartTokens \/ In(record[s])
        BY <1>1, <1>2 DEF LegsAreWhole
    <3>3. record[s].checkOutAttemptId = NoAttempt \/ Out(record[s])
        BY <1>1, <1>2 DEF LegsAreWhole
    <3>4. j # NoAttempt
        BY TokenAssumption
    <3>5. outcome[j] \in Accepted <=> j \in {record[s].checkInAttemptId, record[s].checkOutAttemptId}
        BY <1>1, <2>2 DEF AcceptedAttemptsAreLegs
    <3> QED BY <1>3, <2>2, <3>1, <3>2, <3>3, <3>4, <3>5
  <2>3. CASE Owner[j] # s
      BY <1>1, <1>2, <2>3, OwnerAssumption DEF AcceptedAttemptsAreLegs
  <2> QED BY <2>1, <2>2, <2>3
<1>10. AcceptedAttemptsAreLegs'
    BY <1>9 DEF AcceptedAttemptsAreLegs
<1> QED BY <1>5, <1>6, <1>8, <1>10 DEF Accounted

LEMMA AccountedStep == Typed /\ Accounted /\ [Next]_vars => Accounted'
<1> SUFFICES ASSUME Typed, Accounted, [Next]_vars PROVE Accounted'
    OBVIOUS
<1>1. RowlessIsBlank /\ LegsAreWhole /\ RowsNameOwnAttempts /\ AcceptedAttemptsAreLegs
    BY DEF Accounted
<1>2. CASE KeepsLegs
  <2>1. \A s \in Students : SameLegs(record[s], record'[s])
                            /\ (record'[s].status = "none" => record'[s] = record[s])
      BY <1>2 DEF KeepsLegs
  <2>2. RowlessIsBlank'
    <3>1. NoRow' = NoRow
        BY DEF NoRow
    <3> QED BY <1>1, <2>1, <3>1 DEF RowlessIsBlank
  <2>3. LegsAreWhole'
      BY <1>1, <2>1 DEF LegsAreWhole, SameLegs, In, Out
  <2>4. RowsNameOwnAttempts'
      BY <1>1, <2>1 DEF RowsNameOwnAttempts, SameLegs
  <2>5. \A i \in Attempts : outcome'[i] \in Accepted <=> outcome[i] \in Accepted
      BY <1>2 DEF KeepsLegs, Accepted
  <2>6. AcceptedAttemptsAreLegs'
      BY <1>1, <2>1, <2>5, OwnerAssumption DEF AcceptedAttemptsAreLegs, SameLegs
  <2> QED BY <2>2, <2>3, <2>4, <2>6 DEF Accounted
<1> QED BY <1>1, <1>2, StepEffect, AccountedWrite

LEMMA AccountedInit == Init => Accounted
BY TokenAssumption, OwnerAssumption
DEF Init, Accounted, RowlessIsBlank, LegsAreWhole, RowsNameOwnAttempts, AcceptedAttemptsAreLegs,
    NoRow, In, Out, Accepted

LEMMA AccountedAlways == Spec => []Accounted
BY TypedAlways, AccountedInit, AccountedStep, PTL DEF Spec

\* An attempt is stored as accepted exactly when a leg of its student's row names
\* it, whatever is delivered twice, rolled back or retried.
THEOREM AttemptsHoldLegs == Spec => []AcceptedAttemptsAreLegs
BY AccountedAlways, PTL DEF Accounted

-----------------------------------------------------------------------------
(* The life of the session row *)

Opens  == ~isActive /\ ~ended /\ isActive' /\ ~ended'
Closes == isActive /\ ~isActive' /\ ended'

\* A device changes the session only when it wins its claim, while no closing
\* transaction holds the row.
LEMMA ArmEffect ==
    ASSUME Typed, NEW d \in Devices, ArmStep(d)
    PROVE  /\ UNCHANGED <<now, ended, outcome, request, closer>>
           /\ \/ UNCHANGED <<isActive, startQrToken, endQrToken, autoEndAt, record>>
              \/ SessionUnlocked /\ (ArmStart(d) \/ RegenerateStart(d) \/ ArmEnd(d))
<1>1. ASSUME NEW op \in {"start", "restart", "end", "reend"}, NEW k \in Tokens, ArmRead(d, op, k)
      PROVE  UNCHANGED <<now, sessionVars, outcome, record, request, closer>>
    BY <1>1 DEF ArmRead
<1>2. ASSUME ArmLose(d) \/ DeviceDies(d)
      PROVE  UNCHANGED <<now, sessionVars, outcome, record, request, closer>>
    BY <1>2 DEF ArmLose, DeviceDies
<1>3. ASSUME ArmStart(d) \/ RegenerateStart(d) \/ ArmEnd(d)
      PROVE  SessionUnlocked /\ UNCHANGED <<now, ended, outcome, request, closer>>
    BY <1>3 DEF ArmStart, RegenerateStart, ArmEnd
<1>4. ASSUME UNCHANGED <<now, sessionVars, outcome, record, request, closer>>
      PROVE  UNCHANGED <<now, ended, outcome, request, closer, isActive, startQrToken, endQrToken,
                         autoEndAt, record>>
    BY <1>4 DEF sessionVars
<1> QED BY <1>1, <1>2, <1>3, <1>4 DEF ArmStep

\* What is before the commit of a close changes the closer alone, and claims only
\* an unlocked, active session.
LEMMA CloserEffect ==
    ASSUME Typed, NEW c \in Closers, CloserStep(c)
    PROVE  /\ UNCHANGED <<now, isActive, ended, startQrToken, endQrToken, autoEndAt, record,
                          outcome, request>>
           /\ \A e \in Closers \ {c} : closer'[e] = closer[e]
           /\ closer'[c].phase = "claimed" =>
                 /\ isActive /\ SessionUnlocked /\ closer[c].phase = "read"
                 /\ closer'[c].deadline = closer[c].deadline
                 /\ closer'[c].listed =
                       [s \in Students |-> Bucket(record[s], closer[c].endArmed)]
<1>1. ASSUME EndRead(c) \/ CronRead(c) \/ CloserDies(c)
      PROVE  /\ UNCHANGED <<now, sessionVars, record, outcome, request>>
             /\ closer'[c].phase # "claimed"
             /\ \A e \in Closers \ {c} : closer'[e] = closer[e]
  <2>1. CASE EndRead(c)
      BY <2>1 DEF EndRead, IdleCloser, Typed, TypeOK
  <2>2. CASE CronRead(c)
      BY <2>2 DEF CronRead, IdleCloser, Typed, TypeOK
  <2>3. CASE CloserDies(c)
      BY <2>3 DEF CloserDies, IdleCloser, Typed, TypeOK
  <2> QED BY <1>1, <2>1, <2>2, <2>3
<1>2. ASSUME NEW holds, holds => isActive, Claim(c, holds)
      PROVE  /\ UNCHANGED <<now, sessionVars, record, outcome, request>>
             /\ \A e \in Closers \ {c} : closer'[e] = closer[e]
             /\ closer'[c].phase = "claimed" =>
                   /\ isActive /\ SessionUnlocked /\ closer[c].phase = "read"
                   /\ closer'[c].deadline = closer[c].deadline
                   /\ closer'[c].listed =
                         [s \in Students |-> Bucket(record[s], closer[c].endArmed)]
    BY <1>2 DEF Claim, IdleCloser, Typed, TypeOK, Closer
<1>3. EndClaim(c) \/ CronClaim(c) => \E holds : (holds => isActive) /\ Claim(c, holds)
    BY DEF EndClaim, CronClaim
<1> QED BY <1>1, <1>2, <1>3 DEF CloserStep, sessionVars

LEMMA CorrectionKeeps ==
    ASSUME NEW s \in Students, NEW st \in ManualStatuses, Correction(s, st)
    PROVE  UNCHANGED <<now, isActive, ended, startQrToken, endQrToken, autoEndAt, request, closer>>
BY DEF Correction, UpdateStatus, CreateManual, sessionVars

LEMMA AsideKeeps ==
    ASSUME Typed, Aside
    PROVE  /\ UNCHANGED <<isActive, ended, startQrToken, endQrToken, autoEndAt, record, request, closer>>
           /\ now' >= now
<1>1. now \in Int
    BY DEF Typed, TypeOK
<1>2. CASE Tick
    BY <1>1, <1>2 DEF Tick, sessionVars
<1>3. UNCHANGED now \/ Tick
    BY DEF Aside, SignToken, Enroll, Remove, Refuse, vars
<1>4. UNCHANGED <<isActive, ended, startQrToken, endQrToken, autoEndAt, record, request, closer>>
    BY DEF Aside, Tick, SignToken, Enroll, Remove, Refuse, vars, sessionVars
<1> QED BY <1>1, <1>2, <1>3, <1>4

LEMMA LifecycleInit == Init => Lifecycle
BY DEF Init, Lifecycle, IdleRequest, IdleCloser

LEMMA RequestKeepsLife == ASSUME Typed, Lifecycle, NEW r \in Requests, RequestStep(r) PROVE Lifecycle'
<1>1. UNCHANGED <<isActive, ended, startQrToken, endQrToken, closer>>
    BY RestOfRequest DEF sessionVars
<1>2. \A x \in Requests \ {r} : request'[x] = request[x]
    BY DEF RequestStep, Deliver, ValidateAccept, ValidateDeny, WriteAccept, WriteDuplicate,
           WriteAbort, RequestDies, Typed, TypeOK
<1>3. ASSUME request'[r].phase = "writing" PROVE isActive \/ ended
  <2>1. CASE ValidateAccept(r)
      BY <2>1 DEF ValidateAccept, Verdict, Admissible
  <2>2. ASSUME NEW i \in Attempts, NEW k \in Tokens, NEW off \in BOOLEAN, Deliver(r, i, k, off)
        PROVE  FALSE
      BY <1>3, <2>2 DEF Deliver, IdleRequest, Typed, TypeOK
  <2>3. ASSUME ValidateDeny(r) \/ WriteAccept(r) \/ WriteDuplicate(r) \/ WriteAbort(r) \/ RequestDies(r)
        PROVE  FALSE
    <3>1. request' = [request EXCEPT ![r] = IdleRequest]
        BY <2>3 DEF ValidateDeny, WriteAccept, WriteDuplicate, WriteAbort, RequestDies
    <3> QED BY <1>3, <3>1 DEF IdleRequest, Typed, TypeOK
  <2> QED BY <2>1, <2>2, <2>3 DEF RequestStep
<1> QED BY <1>1, <1>2, <1>3 DEF Lifecycle

LEMMA ArmKeepsLife ==
    ASSUME Typed, Lifecycle, NEW d \in Devices, ArmStep(d)
    PROVE  Lifecycle' /\ (UNCHANGED <<isActive, ended>> \/ Opens)
<1>1. UNCHANGED <<ended, request, closer>>
    BY ArmEffect
<1>2. CASE ArmStart(d)
  <2>1. arming[d].token \in StartTokens /\ arming[d].token # NoToken
      BY <1>2, TokenAssumption DEF ArmStart, Typed, InProgressCarries
  <2>2. /\ ~isActive /\ ~ended /\ isActive' = TRUE
        /\ startQrToken' # NoToken /\ UNCHANGED endQrToken
      BY <1>2, <2>1 DEF ArmStart, ClaimHolds
  <2> QED BY <1>1, <2>2 DEF Lifecycle, Opens
<1>3. CASE RegenerateStart(d)
  <2>1. arming[d].token \in StartTokens /\ arming[d].token # NoToken
      BY <1>3, TokenAssumption DEF RegenerateStart, Typed, InProgressCarries
  <2>2. isActive /\ ~ended /\ startQrToken' # NoToken /\ UNCHANGED <<isActive, endQrToken>>
      BY <1>3, <2>1 DEF RegenerateStart, ClaimHolds
  <2> QED BY <1>1, <2>2 DEF Lifecycle
<1>4. CASE ArmEnd(d)
  <2>1. isActive /\ ~ended /\ UNCHANGED <<isActive, startQrToken>>
      BY <1>4 DEF ArmEnd, ClaimHolds
  <2> QED BY <1>1, <2>1 DEF Lifecycle
<1>5. CASE UNCHANGED <<isActive, startQrToken, endQrToken>>
    BY <1>1, <1>5 DEF Lifecycle
<1> QED BY <1>2, <1>3, <1>4, <1>5, ArmEffect

LEMMA LifecycleStep ==
    ASSUME Typed, Lifecycle, [Next]_vars
    PROVE  /\ Lifecycle'
           /\ UNCHANGED <<isActive, ended>> \/ Opens \/ Closes
<1>1. ASSUME UNCHANGED <<isActive, ended, startQrToken, endQrToken, request, closer>>
      PROVE  Lifecycle'
    BY <1>1 DEF Lifecycle
<1>2. ASSUME Aside \/ \E s \in Students, st \in ManualStatuses : Correction(s, st)
      PROVE  Lifecycle' /\ UNCHANGED <<isActive, ended>>
    BY <1>1, <1>2, AsideKeeps, CorrectionKeeps
<1>3. ASSUME NEW r \in Requests, RequestStep(r) PROVE Lifecycle' /\ UNCHANGED <<isActive, ended>>
    BY <1>3, RequestKeepsLife, RestOfRequest DEF sessionVars
<1>4. ASSUME NEW c \in Closers, CloserStep(c) PROVE Lifecycle' /\ UNCHANGED <<isActive, ended>>
  <2>1. UNCHANGED <<isActive, ended, startQrToken, endQrToken, request>>
      BY <1>4, CloserEffect
  <2>2. \A e \in Closers \ {c} : closer'[e] = closer[e]
      BY <1>4, CloserEffect
  <2>3. closer'[c].phase = "claimed" => isActive /\ SessionUnlocked
      BY <1>4, CloserEffect
  <2> QED BY <2>1, <2>2, <2>3 DEF Lifecycle, SessionUnlocked
<1>5. ASSUME NEW c \in Closers, CloseCommit(c) PROVE Lifecycle' /\ Closes
  <2>1. /\ isActive /\ isActive' = FALSE /\ ended' = TRUE
        /\ startQrToken' = NoToken /\ endQrToken' = NoToken /\ UNCHANGED request
      BY <1>5 DEF CloseCommit, Lifecycle
  <2>2. \A e \in Closers : closer'[e].phase # "claimed"
      BY <1>5 DEF CloseCommit, IdleCloser, Lifecycle, Typed, TypeOK
  <2> QED BY <2>1, <2>2 DEF Lifecycle, Closes
<1> QED BY <1>2, <1>3, <1>4, <1>5, ArmKeepsLife, StepCases DEF CloserStep, Closers

LEMMA LifecycleAlways == Spec => []Lifecycle
BY TypedAlways, LifecycleInit, LifecycleStep, PTL DEF Spec

\* Whatever was read or armed before it, an ended session is inactive and holds no
\* token.
THEOREM EndedIsDisarmed == Spec => []EndedSessionIsDisarmed
<1>1. Lifecycle => EndedSessionIsDisarmed
    BY DEF Lifecycle, EndedSessionIsDisarmed
<1> QED BY <1>1, LifecycleAlways, PTL

-----------------------------------------------------------------------------
(* The deadline of the auto-end job *)

LEMMA JobIsLateStep == ASSUME Typed, JobIsLate, [Next]_vars PROVE JobIsLate'
<1>1. now \in Int /\ \A c \in CronWorkers : closer[c].deadline \in Int
    BY TimeAssumption DEF Typed, TypeOK, Closer, Closers
<1>2. ASSUME UNCHANGED <<now, autoEndAt, closer>> PROVE JobIsLate'
    BY <1>2 DEF JobIsLate
<1>3. CASE Aside
  <2>1. UNCHANGED <<autoEndAt, closer>> /\ now' >= now /\ now' \in Int
      BY <1>3, AsideKeeps, TypedStep DEF Typed, TypeOK
  <2> QED BY <1>1, <2>1 DEF JobIsLate
<1>4. ASSUME NEW d \in Devices, ArmStep(d) PROVE JobIsLate'
  <2>1. UNCHANGED <<now, closer>> /\ (UNCHANGED autoEndAt \/ SessionUnlocked)
      BY <1>4, ArmEffect
  <2> QED BY <2>1 DEF JobIsLate, SessionUnlocked, Closers
<1>5. ASSUME NEW c \in Closers, NEW e \in CronWorkers, e # c, CloserStep(c) \/ CloseCommit(c)
      PROVE  closer'[e] = closer[e] /\ UNCHANGED <<now, autoEndAt>>
  <2>1. CASE CloserStep(c)
      BY <1>5, <2>1, CloserEffect DEF Closers
  <2>2. CASE CloseCommit(c)
      BY <1>5, <2>2 DEF CloseCommit, Typed, TypeOK, Closers
  <2> QED BY <1>5, <2>1, <2>2
<1>6. ASSUME NEW c \in CronWorkers, CronRead(c) PROVE JobIsLate'
  <2>1. /\ now > autoEndAt /\ UNCHANGED <<now, autoEndAt>>
        /\ closer'[c].deadline = autoEndAt /\ closer'[c].phase = "read"
      BY <1>6 DEF CronRead, Typed, TypeOK, Closers, IdleCloser, sessionVars
  <2>2. \A e \in CronWorkers \ {c} : closer'[e] = closer[e]
      BY <1>5, <1>6 DEF CloserStep, Closers
  <2> QED BY <2>1, <2>2 DEF JobIsLate
<1>7. ASSUME NEW c \in CronWorkers, CronClaim(c) PROVE JobIsLate'
  <2>1. /\ closer[c].phase = "read" /\ UNCHANGED <<now, autoEndAt>>
        /\ closer'[c] = IdleCloser
           \/ (closer'[c].deadline = closer[c].deadline /\ autoEndAt = closer[c].deadline)
      BY <1>7 DEF CronClaim, Claim, Typed, TypeOK, Closers, Closer, sessionVars
  <2>2. \A e \in CronWorkers \ {c} : closer'[e] = closer[e]
      BY <1>5, <1>7 DEF CloserStep, Closers
  <2> QED BY <2>1, <2>2 DEF JobIsLate, IdleCloser
<1>8. ASSUME NEW c \in Closers, CloseCommit(c) \/ CloserDies(c) PROVE JobIsLate'
  <2>1. closer'[c].phase = "idle" /\ UNCHANGED <<now, autoEndAt>>
      BY <1>8 DEF CloseCommit, CloserDies, IdleCloser, Typed, TypeOK, sessionVars
  <2>2. \A e \in CronWorkers \ {c} : closer'[e] = closer[e]
      BY <1>5, <1>8 DEF CloserStep
  <2> QED BY <2>1, <2>2 DEF JobIsLate
<1>9. ASSUME NEW c \in Enders, EndRead(c) \/ EndClaim(c) PROVE JobIsLate'
  <2>1. c \in Closers /\ c \notin CronWorkers
      BY CloserAssumption DEF Closers
  <2>2. UNCHANGED <<now, autoEndAt>>
      BY <1>9, <2>1, CloserEffect DEF CloserStep
  <2>3. \A e \in CronWorkers : closer'[e] = closer[e]
      BY <1>5, <1>9, <2>1 DEF CloserStep
  <2> QED BY <2>2, <2>3 DEF JobIsLate
<1>10. ASSUME NEW r \in Requests, RequestStep(r) PROVE JobIsLate'
    BY <1>2, <1>10, RestOfRequest DEF sessionVars
<1>11. ASSUME NEW s \in Students, NEW st \in ManualStatuses, Correction(s, st) PROVE JobIsLate'
    BY <1>2, <1>11, CorrectionKeeps
<1> QED BY <1>3, <1>4, <1>6, <1>7, <1>8, <1>9, <1>10, <1>11, StepCases DEF Closers

\* The job never holds an active session whose deadline has not passed, although
\* the deadline may move between its read and its claim.
THEOREM JobWaitsForDeadline == Spec => []NoEarlyAutoEnd
<1>1. Init => JobIsLate
    BY DEF Init, JobIsLate, IdleCloser, Closers
<1>2. Typed /\ JobIsLate /\ [Next]_vars => JobIsLate'
    BY JobIsLateStep
<1>3. JobIsLate => NoEarlyAutoEnd
    BY DEF JobIsLate, NoEarlyAutoEnd
<1> QED BY <1>1, <1>2, <1>3, TypedAlways, PTL DEF Spec

-----------------------------------------------------------------------------
(* The session implements the ledger *)

Phase  == IF ended THEN "closed" ELSE IF isActive THEN "open" ELSE "scheduled"
Legs   == Students \X Checkpoints
Winner == [leg \in Legs |-> IF leg[2] = "start" THEN record[leg[1]].checkInAttemptId
                                                ELSE record[leg[1]].checkOutAttemptId]

\* An accepting write takes the leg of its token's checkpoint.
LEMMA LedgerWrite ==
    ASSUME Typed, Accounted, Lifecycle, NEW r \in Requests, WriteAccept(r)
    PROVE  Ledger!LedgerNext
<1> DEFINE i == request[r].id
           s == Owner[i]
           leg == <<s, IF request[r].token \in StartTokens THEN "start" ELSE "end">>
<1>1. RowlessIsBlank /\ LegsAreWhole /\ RowsNameOwnAttempts /\ AcceptedAttemptsAreLegs
    BY DEF Accounted
<1>2. /\ i \in Attempts /\ s \in Students /\ outcome[i] = "none"
      /\ \A x \in Students \ {s} : record'[x] = record[x]
      /\ \/ /\ request[r].token \in StartTokens /\ ~In(record[s])
            /\ record'[s].checkInAttemptId = i
            /\ record'[s].checkOutAttemptId = record[s].checkOutAttemptId
         \/ /\ request[r].token \in EndTokens /\ ~Out(record[s])
            /\ record'[s].checkInAttemptId = record[s].checkInAttemptId
            /\ record'[s].checkOutAttemptId = i
    BY <1>1, WriteEffect
<1>3. Phase # "scheduled" /\ UNCHANGED <<isActive, ended>>
    BY DEF WriteAccept, Lifecycle, Phase, sessionVars
<1>4. leg \in Legs /\ leg[1] = s /\ leg[2] = (IF request[r].token \in StartTokens THEN "start" ELSE "end")
    BY <1>2 DEF Legs, Checkpoints
<1>5. leg \in {Owner[i]} \X Checkpoints
    BY <1>4 DEF Legs
<1>6. Winner[leg] = NoAttempt
    BY <1>1, <1>2, <1>4, TokenAssumption DEF Winner, LegsAreWhole
<1>7. \A other \in Legs : Winner[other] # i
    BY <1>1, <1>2 DEF Winner, Legs, RowsNameOwnAttempts, AcceptedAttemptsAreLegs, Accepted
<1>8. ASSUME NEW other \in Legs, other # leg PROVE Winner'[other] = Winner[other]
  <2>1. /\ other = <<other[1], other[2]>> /\ other[1] \in Students /\ other[2] \in {"start", "end"}
      BY DEF Legs, Checkpoints
  <2>2. other[1] # s \/ other[2] # leg[2]
      BY <1>4, <1>8, <2>1
  <2> HIDE DEF leg
  <2> QED BY <1>2, <1>4, <2>1, <2>2, TokenAssumption DEF Winner
<1>9. Winner'[leg] = i
    BY <1>2, <1>4, TokenAssumption DEF Winner
<1>10. Winner' = [Winner EXCEPT ![leg] = i]
    BY <1>8, <1>9 DEF Winner
<1>11. leg \in [a \in Attempts |-> {Owner[a]} \X Checkpoints][i]
    BY <1>2, <1>5
<1>12. i \in Attempts /\ leg \in Students \X Checkpoints
    BY <1>2, <1>4 DEF Legs
<1> HIDE DEF leg, i, s
<1>13. Ledger!Accept(i, leg)
    BY <1>3, <1>6, <1>7, <1>10, <1>11 DEF Ledger!Accept, Winner, Phase, Legs
<1> QED BY <1>12, <1>13 DEF Ledger!LedgerNext, Ledger!Accept

LEMMA LedgerStep ==
    ASSUME Typed, Accounted, Lifecycle, [Next]_vars
    PROVE  [Ledger!LedgerNext]_(Ledger!ledgerVars)
<1>1. CASE KeepsLegs
  <2>1. \A s \in Students : /\ record'[s].checkInAttemptId = record[s].checkInAttemptId
                            /\ record'[s].checkOutAttemptId = record[s].checkOutAttemptId
      BY <1>1 DEF KeepsLegs, SameLegs
  <2>2. UNCHANGED Winner
      BY <2>1 DEF Winner, Legs
  <2>3. CASE UNCHANGED <<isActive, ended>>
      BY <2>2, <2>3 DEF Winner, Legs, Ledger!ledgerVars
  <2>4. CASE Opens
      BY <2>2, <2>4 DEF Opens, Winner, Legs, Ledger!LedgerNext, Ledger!Open
  <2>5. CASE Closes
      BY <2>2, <2>5 DEF Closes, Lifecycle, Winner, Legs, Ledger!LedgerNext, Ledger!Close
  <2> QED BY <2>3, <2>4, <2>5, LifecycleStep
<1> QED BY <1>1, LedgerWrite, StepEffect DEF Accounted

LEMMA LedgerStart == Init => Ledger!LedgerInit
BY DEF Init, NoRow, Ledger!LedgerInit

\* One opening, one closing, and one attempt per leg, taken once for good.
THEOREM OnlineImplementsLedger == Spec => ImplementsLedger
<1>1. Typed /\ Accounted /\ Lifecycle /\ [Next]_vars => [Ledger!LedgerNext]_(Ledger!ledgerVars)
    BY LedgerStep
<1> QED BY <1>1, LedgerStart, TypedAlways, AccountedAlways, LifecycleAlways, PTL
        DEF Spec, ImplementsLedger, Ledger!LedgerSpec

\* What the ledger promises, it keeps.
LEMMA LedgerKeeps ==
    ASSUME Ledger!PlacesAreApart, [Ledger!LedgerNext]_(Ledger!ledgerVars)
    PROVE  /\ Ledger!PlacesAreApart'
           /\ \A sl \in Legs : Winner[sl] # NoAttempt => Winner'[sl] = Winner[sl]
           /\ Phase = "closed" => Phase' = "closed"
<1>1. /\ Phase = "scheduled" => \A sl \in Legs : Winner[sl] = NoAttempt
      /\ \A sl, other \in Legs :
            Winner[sl] # NoAttempt /\ Winner[sl] = Winner[other] => sl = other
    BY DEF Ledger!PlacesAreApart, Winner, Phase, Legs
<1>2. CASE Ledger!Open \/ Ledger!Close \/ UNCHANGED Ledger!ledgerVars
    BY <1>2 DEF Ledger!Open, Ledger!Close, Ledger!ledgerVars, Ledger!PlacesAreApart, Winner, Phase, Legs
<1>3. ASSUME NEW i \in Attempts, NEW sl \in Legs, Ledger!Accept(i, sl)
      PROVE  /\ Ledger!PlacesAreApart'
             /\ \A other \in Legs : Winner[other] # NoAttempt => Winner'[other] = Winner[other]
             /\ Phase = "closed" => Phase' = "closed"
  <2>1. /\ Phase # "scheduled" /\ Phase' = Phase /\ Winner[sl] = NoAttempt
        /\ \A other \in Legs : Winner[other] # i
        /\ Winner' = [Winner EXCEPT ![sl] = i]
      BY <1>3 DEF Ledger!Accept, Winner, Phase, Legs
  <2>2. Winner'[sl] = i /\ \A other \in Legs \ {sl} : Winner'[other] = Winner[other]
      BY <2>1 DEF Winner
  <2>3. /\ Phase' # "scheduled"
        /\ \A x, other \in Legs :
              Winner'[x] # NoAttempt /\ Winner'[x] = Winner'[other] => x = other
      BY <1>1, <2>1, <2>2
  <2>4. Ledger!PlacesAreApart'
      BY <2>3 DEF Ledger!PlacesAreApart, Winner, Phase, Legs
  <2> QED BY <2>1, <2>2, <2>4
<1> QED BY <1>2, <1>3 DEF Ledger!LedgerNext, Legs

\* A leg is taken once and for good: whatever is armed again, corrected or closed, no
\* other attempt gets it, and none takes both legs.
THEOREM LegsAreTakenForGood == Spec => []Ledger!PlacesAreApart /\ Ledger!PlacesAreTakenForGood
<1>1. Ledger!LedgerInit => Ledger!PlacesAreApart
    BY DEF Ledger!LedgerInit, Ledger!PlacesAreApart
<1>2. Ledger!PlacesAreApart /\ [Ledger!LedgerNext]_(Ledger!ledgerVars) =>
      /\ Ledger!PlacesAreApart'
      /\ [/\ \A sl \in Legs : Winner[sl] # NoAttempt => Winner'[sl] = Winner[sl]
          /\ Phase = "closed" => Phase' = "closed"]_(Ledger!ledgerVars)
    BY LedgerKeeps
<1> QED BY <1>1, <1>2, OnlineImplementsLedger, PTL
        DEF ImplementsLedger, Ledger!LedgerSpec, Ledger!PlacesAreTakenForGood, Winner, Phase, Legs

-----------------------------------------------------------------------------
(* The close and the rows *)

\* Legs only come; a row is undecided and without a leg only if it was before.
Grows(old, new) ==
    /\ In(old) => In(new) /\ new.checkInStatus = old.checkInStatus
    /\ Out(old) => Out(new)
    /\ Undecided(new) /\ ~In(new) /\ ~Out(new) => Undecided(old) /\ ~In(old) /\ ~Out(old)

\* Every row grows in every step but the activation, which seeds new ones.
LEMMA RowsGrow ==
    ASSUME Typed, Accounted, [Next]_vars, \A d \in Devices : ~ArmStart(d), NEW s \in Students
    PROVE  Grows(record[s], record'[s])
<1>1. RowlessIsBlank
    BY DEF Accounted
<1>2. ASSUME record'[s] = record[s] PROVE Grows(record[s], record'[s])
    BY <1>2 DEF Grows
<1>3. ASSUME NEW r \in Requests, RequestStep(r) PROVE Grows(record[s], record'[s])
  <2>1. CASE WriteAccept(r)
    <3> DEFINE x == Owner[request[r].id]
    <3>1. s # x => record'[s] = record[s]
        BY <1>1, <2>1, WriteEffect
    <3>2. CASE s = x
      <4>1. \/ /\ request[r].token \in StartTokens /\ ~In(record[s])
               /\ record'[s].checkInToken = request[r].token
               /\ record'[s].checkOutToken = record[s].checkOutToken
            \/ /\ request[r].token \in EndTokens /\ ~Out(record[s])
               /\ record'[s].checkInToken = record[s].checkInToken
               /\ record'[s].checkInStatus = record[s].checkInStatus
               /\ record'[s].checkOutToken = request[r].token
          BY <1>1, <2>1, <3>2, WriteEffect
      <4>2. request[r].token \in Tokens => request[r].token # NoToken
          BY TokenAssumption
      <4> QED BY <4>1, <4>2 DEF Grows, In, Out
    <3> QED BY <1>2, <3>1, <3>2
  <2>2. CASE UNCHANGED record
      BY <1>2, <2>2
  <2> QED BY <1>3, <2>1, <2>2, RestOfRequest
<1>4. ASSUME NEW x \in Students, NEW st \in ManualStatuses, Correction(x, st)
      PROVE  Grows(record[s], record'[s])
  <2>1. x = s => SameLegs(record[s], record'[s]) /\ record'[s].manuallySet
      BY <1>1, <1>4, CorrectionEffect
  <2>2. x # s => record'[s] = record[s]
      BY <1>1, <1>4, CorrectionEffect
  <2> QED BY <1>2, <2>1, <2>2 DEF Grows, SameLegs, In, Out, Undecided
<1>5. ASSUME NEW c \in Closers, CloseCommit(c) PROVE Grows(record[s], record'[s])
  <2>1. /\ SameLegs(record[s], record'[s])
        /\ record'[s] = record[s] \/ record'[s].status # "pending"
      BY <1>5, CommitEffect
  <2> QED BY <2>1 DEF Grows, SameLegs, In, Out, Undecided
<1>6. ASSUME NEW d \in Devices, ArmStep(d) PROVE UNCHANGED record
    BY <1>6, ArmEffect DEF RegenerateStart, ArmEnd
<1> QED BY <1>2, <1>3, <1>4, <1>5, <1>6, AsideKeeps, CloserEffect, StepCases DEF CloserStep, Closers

LEMMA DisputesStep ==
    ASSUME Typed, Accounted, DisputesAreMarked, [Next]_vars
    PROVE  DisputesAreMarked'
<1>1. RowlessIsBlank /\ LegsAreWhole
    BY DEF Accounted
<1> SUFFICES ASSUME NEW s \in Students, Undecided(record'[s])
             PROVE  record'[s].checkInStatus # "disputed"
    BY DEF DisputesAreMarked, Undecided
<1>2. ASSUME record'[s] = record[s] PROVE record'[s].checkInStatus # "disputed"
    BY <1>2 DEF DisputesAreMarked
<1>3. ASSUME NEW r \in Requests, RequestStep(r) PROVE record'[s].checkInStatus # "disputed"
  <2>1. CASE WriteAccept(r) /\ s = Owner[request[r].id]
    <3>1. /\ ~record[s].manuallySet
          /\ \/ record[s].status \in {"none", "pending"}
             \/ record[s].status = "absent" /\ request[r].verdict = "disputed"
          /\ record'[s].status = IF request[r].verdict = "disputed" THEN "disputed" ELSE "pending"
          /\ record'[s].checkInStatus \in {request[r].verdict, record[s].checkInStatus}
        BY <1>1, <2>1, WriteEffect
    <3>2. request[r].verdict # "disputed" /\ record[s].status \in {"none", "pending"}
        BY <3>1 DEF Undecided
    <3>3. CASE record[s].status = "none"
        BY <1>1, <3>1, <3>2, <3>3 DEF RowlessIsBlank, NoRow
    <3>4. CASE record[s].status = "pending"
        BY <3>1, <3>2, <3>4 DEF DisputesAreMarked, Undecided
    <3> QED BY <3>2, <3>3, <3>4
  <2>2. CASE WriteAccept(r) /\ s # Owner[request[r].id]
      BY <1>1, <1>2, <2>2, WriteEffect
  <2>3. CASE UNCHANGED record
      BY <1>2, <2>3
  <2> QED BY <1>3, <2>1, <2>2, <2>3, RestOfRequest
<1>4. ASSUME NEW x \in Students, NEW st \in ManualStatuses, Correction(x, st)
      PROVE  record'[s] = record[s]
    BY <1>1, <1>4, CorrectionEffect DEF Undecided
<1>5. ASSUME NEW c \in Closers, CloseCommit(c) PROVE record'[s] = record[s]
    BY <1>5, CommitEffect DEF Undecided
<1>6. ASSUME NEW d \in Devices, ArmStep(d) PROVE record'[s].checkInStatus # "disputed"
  <2>1. CASE ArmStart(d)
    <3>1. SameLegs(record[s], record'[s]) /\ (record'[s] = record[s] \/ ~In(record'[s]))
        BY <1>1, <2>1, SeedEffect
    <3> QED BY <1>1, <1>2, <3>1 DEF SameLegs, LegsAreWhole, In
  <2>2. CASE ~ArmStart(d)
    <3>1. UNCHANGED record
        BY <1>6, <2>2, ArmEffect DEF RegenerateStart, ArmEnd
    <3> QED BY <1>2, <3>1
  <2> QED BY <2>1, <2>2
<1> QED BY <1>2, <1>3, <1>4, <1>5, <1>6, AsideKeeps, CloserEffect, StepCases DEF CloserStep, Closers

\* What it means for the close to list a row.
LEMMA BucketFacts ==
    ASSUME TypeOK, NEW s \in Students, NEW armed \in BOOLEAN
    PROVE  /\ Bucket(record[s], armed) \in Credited \cup {"missedCheckout"} => In(record[s])
           /\ Bucket(record[s], armed) \in Credited => record[s].checkInStatus = Bucket(record[s], armed)
           /\ Bucket(record[s], armed) = "missedCheckin" => Out(record[s])
           /\ Undecided(record[s]) /\ ~In(record[s]) /\ ~Out(record[s])
                 => Bucket(record[s], armed) = "absent"
BY DEF TypeOK, Bucket, Credited, Row, In, Out

LEMMA ListsStep ==
    ASSUME Typed, Accounted, Lifecycle, ListsHold, [Next]_vars
    PROVE  ListsHold'
<1> DEFINE Held(c, s, row) ==
      /\ closer[c].listed[s] \in Credited \cup {"missedCheckout"} => In(row)
      /\ closer[c].listed[s] \in Credited => row.checkInStatus = closer[c].listed[s]
      /\ closer[c].listed[s] = "missedCheckin" => Out(row)
      /\ Undecided(row) /\ ~In(row) /\ ~Out(row) => closer[c].listed[s] = "absent"
<1>1. ASSUME NEW c \in Closers, NEW s \in Students,
             closer'[c] = closer[c], closer[c].phase = "claimed", \A d \in Devices : ~ArmStart(d)
      PROVE  Held(c, s, record'[s])
  <2>1. Held(c, s, record[s])
      BY <1>1 DEF ListsHold
  <2>2. Grows(record[s], record'[s])
      BY <1>1, RowsGrow
  <2> QED BY <2>1, <2>2 DEF Grows
<1>2. ASSUME UNCHANGED closer PROVE ListsHold'
  <2>1. ASSUME NEW d \in Devices, ArmStart(d), NEW c \in Closers PROVE closer[c].phase # "claimed"
      BY <2>1 DEF ArmStart, SessionUnlocked
  <2> QED BY <1>1, <1>2, <2>1 DEF ListsHold, Undecided, In, Out
<1>3. ASSUME NEW c \in Closers, CloserStep(c) PROVE ListsHold'
  <2>1. /\ UNCHANGED record
        /\ \A e \in Closers \ {c} : closer'[e] = closer[e]
        /\ closer'[c].phase = "claimed" =>
              closer'[c].listed = [s \in Students |-> Bucket(record[s], closer[c].endArmed)]
      BY <1>3, CloserEffect
  <2>2. closer[c].endArmed \in BOOLEAN
      BY DEF Typed, TypeOK, Closer
  <2>3. ASSUME NEW s \in Students, closer'[c].phase = "claimed"
        PROVE  /\ closer'[c].listed[s] \in Credited \cup {"missedCheckout"} => In(record[s])
               /\ closer'[c].listed[s] \in Credited => record[s].checkInStatus = closer'[c].listed[s]
               /\ closer'[c].listed[s] = "missedCheckin" => Out(record[s])
               /\ Undecided(record[s]) /\ ~In(record[s]) /\ ~Out(record[s])
                     => closer'[c].listed[s] = "absent"
    <3>1. closer'[c].listed[s] = Bucket(record[s], closer[c].endArmed)
        BY <2>1, <2>3
    <3> QED BY <2>2, <3>1, BucketFacts DEF Typed
  <2> QED BY <2>1, <2>3 DEF ListsHold, Undecided, In, Out
<1>4. ASSUME NEW c \in Closers, CloseCommit(c) PROVE ListsHold'
  <2>1. \A e \in Closers : closer'[e].phase # "claimed"
      BY <1>4 DEF CloseCommit, IdleCloser, Lifecycle, Typed, TypeOK
  <2> QED BY <2>1 DEF ListsHold
<1>5. ASSUME NEW d \in Devices, ArmStep(d) PROVE UNCHANGED closer
    BY <1>5, ArmEffect
<1>6. ASSUME NEW r \in Requests, RequestStep(r) PROVE UNCHANGED closer
    BY <1>6, RestOfRequest
<1>7. ASSUME NEW s \in Students, NEW st \in ManualStatuses, Correction(s, st) PROVE UNCHANGED closer
    BY <1>7, CorrectionKeeps
<1> QED BY <1>2, <1>3, <1>4, <1>5, <1>6, <1>7, AsideKeeps, StepCases DEF CloserStep, Closers

LEMMA MatchesStep ==
    ASSUME Typed, Accounted, ListsHold, ResolutionMatchesLegs, [Next]_vars
    PROVE  ResolutionMatchesLegs'
<1>1. RowlessIsBlank
    BY DEF Accounted
<1> DEFINE Matches(row) ==
      ~row.manuallySet =>
         /\ row.status \in Credited => In(row) /\ row.checkInStatus = row.status
         /\ row.status = "absent" => ~In(row) /\ ~Out(row)
         /\ row.status = "incomplete" => (In(row) # Out(row))
<1>2. \A s \in Students : Matches(record[s])
    BY DEF ResolutionMatchesLegs, In, Out
<1> SUFFICES ASSUME NEW s \in Students PROVE Matches(record'[s])
    BY DEF ResolutionMatchesLegs, In, Out
<1>3. ASSUME record'[s].status \in {"pending", "disputed"} PROVE Matches(record'[s])
    BY <1>3 DEF Credited
<1>4. ASSUME NEW r \in Requests, RequestStep(r) PROVE Matches(record'[s])
  <2>1. CASE WriteAccept(r)
    <3>1. record'[s] = record[s] \/ record'[s].status \in {"pending", "disputed"}
        BY <1>1, <2>1, WriteEffect
    <3> QED BY <1>2, <1>3, <3>1
  <2>2. CASE UNCHANGED record
      BY <1>2, <2>2
  <2> QED BY <1>4, <2>1, <2>2, RestOfRequest
<1>5. ASSUME NEW x \in Students, NEW st \in ManualStatuses, Correction(x, st)
      PROVE  Matches(record'[s])
  <2>1. record'[s] = record[s] \/ record'[s].manuallySet
      BY <1>1, <1>5, CorrectionEffect
  <2> QED BY <1>2, <2>1
<1>6. ASSUME NEW d \in Devices, ArmStep(d) PROVE Matches(record'[s])
  <2>1. CASE ArmStart(d)
    <3>1. record'[s] = record[s] \/ record'[s].status \in {"pending", "disputed"}
        BY <1>1, <2>1, SeedEffect
    <3> QED BY <1>2, <1>3, <3>1
  <2>2. CASE ~ArmStart(d)
    <3>1. UNCHANGED record
        BY <1>6, <2>2, ArmEffect DEF RegenerateStart, ArmEnd
    <3> QED BY <1>2, <3>1
  <2> QED BY <2>1, <2>2
<1>7. ASSUME NEW c \in Closers, CloseCommit(c) PROVE Matches(record'[s])
  <2> DEFINE b == closer[c].listed[s]
  <2>1. SameLegs(record[s], record'[s])
      BY <1>7, CommitEffect
  <2>2. \/ record'[s] = record[s]
        \/ StillMatches(record[s], b, closer[c].endArmed) /\ record'[s].status = Resolved(b)
      BY <1>7, CommitEffect
  <2>3. CASE StillMatches(record[s], b, closer[c].endArmed) /\ record'[s].status = Resolved(b)
    <3>1. /\ b \in Credited \cup {"missedCheckout"} => In(record[s])
          /\ b \in Credited => record[s].checkInStatus = b
          /\ b = "missedCheckin" => Out(record[s])
        BY <1>7 DEF ListsHold, CloseCommit
    <3>2. /\ b \in {"absent", "missedCheckin"} => ~In(record[s])
          /\ b \in {"absent", "missedCheckout"} => ~Out(record[s])
        BY <2>3 DEF StillMatches, In, Out
    <3>3. b \in Buckets /\ b # "no"
        BY <2>3 DEF StillMatches, Typed, TypeOK, Closer
    <3>4. In(record'[s]) = In(record[s]) /\ Out(record'[s]) = Out(record[s])
          /\ record'[s].checkInStatus = record[s].checkInStatus
        BY <2>1 DEF SameLegs, In, Out
    <3>5. In(record[s]) \in BOOLEAN /\ Out(record[s]) \in BOOLEAN
        BY DEF In, Out
    <3> HIDE DEF b
    <3> QED BY <2>3, <3>1, <3>2, <3>3, <3>4, <3>5 DEF Resolved, Buckets, Credited
  <2> QED BY <1>2, <2>2, <2>3
<1> HIDE DEF Matches
<1>8. UNCHANGED record => Matches(record'[s])
    BY <1>2
<1> QED BY <1>4, <1>5, <1>6, <1>7, <1>8, AsideKeeps, CloserEffect, StepCases DEF CloserStep, Closers

LEMMA PendingStep ==
    ASSUME Typed, Accounted, Lifecycle, ListsHold, OnlyScannersStayPending, [Next]_vars
    PROVE  OnlyScannersStayPending'
<1> SUFFICES ASSUME ended', NEW s \in Students, Undecided(record'[s]),
                    ~In(record'[s]), ~Out(record'[s])
             PROVE  FALSE
    BY DEF OnlyScannersStayPending, Undecided, In, Out
<1>1. ASSUME NEW d \in Devices, ArmStart(d) PROVE FALSE
    BY <1>1 DEF ArmStart, ClaimHolds
<1>2. Undecided(record[s]) /\ ~In(record[s]) /\ ~Out(record[s])
    BY <1>1, RowsGrow DEF Grows
<1>3. CASE ended
    BY <1>2, <1>3 DEF OnlyScannersStayPending, In, Out
<1>4. ASSUME NEW c \in Closers, CloseCommit(c) PROVE FALSE
  <2>1. closer[c].listed[s] = "absent"
      BY <1>2, <1>4 DEF ListsHold, CloseCommit
  <2>2. StillMatches(record[s], closer[c].listed[s], closer[c].endArmed)
      BY <1>2, <2>1 DEF StillMatches, In, Out, Credited
  <2>3. record'[s].status # "pending"
      BY <1>4, <2>2, CommitEffect
  <2> QED BY <2>3 DEF Undecided
<1>5. ASSUME NEW d \in Devices, ArmStep(d) PROVE UNCHANGED ended
    BY <1>5, ArmEffect
<1>6. ASSUME NEW r \in Requests, RequestStep(r) PROVE UNCHANGED ended
    BY <1>6, RestOfRequest DEF sessionVars
<1> QED BY <1>3, <1>4, <1>5, <1>6, AsideKeeps, CorrectionKeeps, CloserEffect, StepCases
        DEF CloserStep, Closers

LEMMA ResolutionInit == Init => Resolution
BY DEF Init, Resolution, DisputesAreMarked, ListsHold, ResolutionMatchesLegs,
       OnlyScannersStayPending, Undecided, NoRow, IdleCloser, Credited

LEMMA ResolutionAlways == Spec => []Resolution
<1>1. Typed /\ Accounted /\ Lifecycle /\ Resolution /\ [Next]_vars => Resolution'
    BY DisputesStep, ListsStep, MatchesStep, PendingStep DEF Resolution
<1> QED BY <1>1, ResolutionInit, TypedAlways, AccountedAlways, LifecycleAlways, PTL DEF Spec

\* The resolver has a case for every row it may meet.
THEOREM ResolverMissesNobody == Spec => []ResolverCasesAreExhaustive
<1>1. Typed /\ Accounted /\ Resolution => ResolverCasesAreExhaustive
  <2> SUFFICES ASSUME Typed, Accounted, Resolution, NEW s \in Students, NEW armed \in BOOLEAN,
                      Undecided(record[s])
               PROVE  Bucket(record[s], armed) # "no"
      BY DEF ResolverCasesAreExhaustive
  <2>1. record[s].checkInStatus \in {"none", "present", "late", "disputed"}
      BY DEF Typed, TypeOK, Row
  <2>2. record[s].checkInToken # NoToken => record[s].checkInStatus \in Credited
      BY <2>1 DEF Accounted, LegsAreWhole, In, Resolution, DisputesAreMarked, Credited
  <2> QED BY <2>2 DEF Bucket, Credited
<1> QED BY <1>1, TypedAlways, AccountedAlways, ResolutionAlways, PTL

\* Whatever commits while a session closes, the statuses it gives agree with the legs.
THEOREM StatusesMatchLegs == Spec => []ResolutionMatchesLegs
BY ResolutionAlways, PTL DEF Resolution

\* The close leaves nobody undecided who did not scan.
THEOREM AbsenteesAreDecided == Spec => []OnlyScannersStayPending
BY ResolutionAlways, PTL DEF Resolution

LEMMA CreditStep ==
    ASSUME Typed, Accounted, Lifecycle, [Next]_vars, NEW s \in Students,
           ended, record[s].status \notin Credited, record'[s].status \in Credited
    PROVE  record'[s].manuallySet
<1>1. RowlessIsBlank /\ record'[s] # record[s]
    BY DEF Accounted
<1>2. ASSUME NEW d \in Devices, ArmStep(d) PROVE UNCHANGED record
  <2>1. ~ArmStart(d)
      BY DEF ArmStart, ClaimHolds
  <2> QED BY <1>2, <2>1, ArmEffect DEF RegenerateStart, ArmEnd
<1>3. ASSUME NEW r \in Requests, RequestStep(r) PROVE FALSE
  <2>1. CASE WriteAccept(r)
    <3>1. record'[s] = record[s] \/ record'[s].status \in {"pending", "disputed"}
        BY <1>1, <2>1, WriteEffect
    <3> QED BY <1>1, <3>1 DEF Credited
  <2> QED BY <1>1, <1>3, <2>1, RestOfRequest
<1>4. ASSUME NEW x \in Students, NEW st \in ManualStatuses, Correction(x, st)
      PROVE  record'[s].manuallySet
    BY <1>1, <1>4, CorrectionEffect
<1>5. ASSUME NEW c \in Closers, CloseCommit(c) PROVE FALSE
    BY <1>5 DEF CloseCommit, Lifecycle
<1> QED BY <1>1, <1>2, <1>3, <1>4, <1>5, AsideKeeps, CloserEffect, StepCases DEF CloserStep, Closers

\* After the close nobody but a teacher gives credit.
THEOREM CreditEndsWithSession == Spec => NoCreditAfterClose
<1>1. Typed /\ Accounted /\ Lifecycle /\ [Next]_vars =>
      [\A s \in Students :
         /\ ended /\ record[s].status \notin Credited
         /\ record'[s].status \in Credited
         => record'[s].manuallySet]_vars
    BY CreditStep
<1> QED BY <1>1, TypedAlways, AccountedAlways, LifecycleAlways, PTL DEF Spec, NoCreditAfterClose
=============================================================================
