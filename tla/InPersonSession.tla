--------------------------- MODULE InPersonSession ---------------------------
(***************************************************************************)
(* One in-person class session of the attendance service: its row in the   *)
(* "Session" table, the attendance rows of the section's students, and     *)
(* every request that writes them.                                         *)
(*                                                                         *)
(*   - The teacher's device signs QR tokens, on line or off line, and asks *)
(*     the server to activate the session with one, possibly much later.   *)
(*   - Students submit a scanned token: directly, or later from the        *)
(*     device's off-line queue.  A delayed submission may itself activate  *)
(*     a session whose teacher has not reached the server yet.             *)
(*   - The session is closed by the teacher or by the once-a-minute        *)
(*     auto-end job.                                                       *)
(*   - Meanwhile the roster changes and the teacher corrects statuses.     *)
(*                                                                         *)
(* PostgreSQL runs these transactions at READ COMMITTED.  A conditional    *)
(* UPDATE ("claim") is one step on the committed row, and a transaction's  *)
(* writes become visible together when it commits.  What a request read    *)
(* before its transaction is a local field of the request and may be stale *)
(* when it is used.  A close is two steps (claim and list the pending      *)
(* rows; update them and commit) because scans commit between the two; it  *)
(* holds the lock of the session row in between.                           *)
(***************************************************************************)
EXTENDS Integers

CONSTANTS
    Students,       \* the students who may be enrolled in the section
    Attempts,       \* clientAttemptIds: one per scan a student's device makes
    Owner,          \* Owner[i] is the student who made attempt i
    Tokens,         \* QR tokens the teacher's devices may sign
    Requests,       \* scan submissions the server handles at the same time
    Devices,        \* activation requests the server handles at the same time
    Enders,         \* end() requests the server handles at the same time
    CronWorkers,    \* replicas running the auto-end job
    ManualStatuses, \* the statuses the teacher's corrections may choose
    Validity,       \* validityMinutes of a token
    Grace,          \* gracePeriodMinutes of a token
    LastIssue,      \* bound: no token is signed after this time
    MaxTime,        \* bound: the clock stops here
    MaxFailures,    \* bound: requests and jobs that die half-way
    NoToken,        \* a null token column
    NoAttempt       \* a null acceptedScanAttemptId column

Closers == Enders \cup CronWorkers
NoTime  == -1
Times   == 0..MaxTime
Statuses == {"pending", "present", "late", "absent", "disputed", "incomplete"}

ASSUME OwnerAssumption == Owner \in [Attempts -> Students]
ASSUME NullAssumption  == NoToken \notin Tokens /\ NoAttempt \notin Attempts
ASSUME TimeAssumption  ==
    /\ Validity \in Nat /\ Grace \in Nat /\ LastIssue \in Nat /\ MaxTime \in Nat
    /\ LastIssue + Validity + Grace < MaxTime
ASSUME FailureAssumption == MaxFailures \in Nat
ASSUME StatusAssumption == ManualStatuses \subseteq Statuses
ASSUME CloserAssumption == Enders \cap CronWorkers = {}

VARIABLES
    now,        \* the server's clock
    issuedAt,   \* when each token was signed, NoTime if it was not
    isActive, ended, qrToken, autoEndAt,   \* the Session row; ended: endedAt # null
    enrolled,   \* the section's Enrollment rows
    record,     \* the AttendanceRecord row of each student; status "none": no row
    outcome,    \* the ScanAttempt row of each attempt; "none": no row
    request,    \* scan submissions in progress
    activation, \* activation requests in progress
    closer,     \* closing transactions in progress
    notified,   \* students told that they were marked absent
    failures    \* requests and jobs that have died so far

sessionVars == <<isActive, ended, qrToken, autoEndAt>>
vars == <<now, issuedAt, isActive, ended, qrToken, autoEndAt, enrolled, record,
          outcome, request, activation, closer, notified, failures>>

Row == [status : Statuses \cup {"none"}, manuallySet : BOOLEAN,
        tokenSnapshot : Tokens \cup {NoToken},
        acceptedScanAttemptId : Attempts \cup {NoAttempt}]
NoRow == [status |-> "none", manuallySet |-> FALSE,
          tokenSnapshot |-> NoToken, acceptedScanAttemptId |-> NoAttempt]
SeededRow(st) == [NoRow EXCEPT !.status = st]

Outcomes == {"none", "present", "late", "flagged", "denied"}
Accepted == {"present", "late", "flagged"}
Credited == {"present", "late"}

\* A scan submission: where its handler is, what it carries, when the server
\* received it and what validation made of it before the transaction.
Request ==
    [phase : {"idle", "activating", "validating", "writing"},
     id : Attempts \cup {NoAttempt}, token : Tokens \cup {NoToken},
     offline : BOOLEAN, receivedAt : Times, verdict : {"present", "late", "disputed"}]
Activation == [phase : {"idle", "claiming"}, token : Tokens \cup {NoToken}, receivedAt : Times]
\* A close: the autoEndAt the job read, and the students listed as pending.
Closer == [phase : {"idle", "read", "claimed"}, deadline : Times \cup {NoTime},
           pending : SUBSET Students]

TypeOK ==
    /\ now \in Times
    /\ issuedAt \in [Tokens -> 0..LastIssue \cup {NoTime}]
    /\ isActive \in BOOLEAN /\ ended \in BOOLEAN
    /\ qrToken \in Tokens \cup {NoToken}
    /\ autoEndAt \in Times \cup {NoTime}
    /\ enrolled \subseteq Students
    /\ record \in [Students -> Row]
    /\ outcome \in [Attempts -> Outcomes]
    /\ request \in [Requests -> Request]
    /\ activation \in [Devices -> Activation]
    /\ closer \in [Closers -> Closer]
    /\ notified \subseteq Students
    /\ failures \in 0..MaxFailures

IdleRequest == [phase |-> "idle", id |-> NoAttempt, token |-> NoToken,
                offline |-> FALSE, receivedAt |-> 0, verdict |-> "present"]
IdleActivation == [phase |-> "idle", token |-> NoToken, receivedAt |-> 0]
IdleCloser == [phase |-> "idle", deadline |-> NoTime, pending |-> {}]

Init ==
    /\ now = 0
    /\ issuedAt = [k \in Tokens |-> NoTime]
    /\ isActive = FALSE /\ ended = FALSE /\ qrToken = NoToken /\ autoEndAt = NoTime
    /\ enrolled \in SUBSET Students
    /\ record = [s \in Students |-> NoRow]
    /\ outcome = [i \in Attempts |-> "none"]
    /\ request = [r \in Requests |-> IdleRequest]
    /\ activation = [d \in Devices |-> IdleActivation]
    /\ closer = [c \in Closers |-> IdleCloser]
    /\ notified = {}
    /\ failures = 0

Deadline(k) == issuedAt[k] + Validity + Grace
HasRow(s) == record[s].status # "none"
Pending(s) == record[s].status = "pending"

\* No open transaction holds the lock of the Session row.
SessionUnlocked == \A c \in Closers : closer[c].phase # "claimed"

-----------------------------------------------------------------------------
(* The clock, the teacher's key and the roster *)

Tick ==
    /\ now < MaxTime
    /\ now' = now + 1
    /\ UNCHANGED <<issuedAt, sessionVars, enrolled, record, outcome, request,
                   activation, closer, notified, failures>>

\* A teacher's device signs token k; no server is involved.
SignToken(k) ==
    /\ issuedAt[k] = NoTime /\ now <= LastIssue
    /\ issuedAt' = [issuedAt EXCEPT ![k] = now]
    /\ UNCHANGED <<now, sessionVars, enrolled, record, outcome, request,
                   activation, closer, notified, failures>>

Enroll(s) ==
    /\ s \notin enrolled
    /\ enrolled' = enrolled \cup {s}
    /\ UNCHANGED <<now, issuedAt, sessionVars, record, outcome, request,
                   activation, closer, notified, failures>>

\* Removing a student deletes the enrollment and keeps the attendance rows.
Remove(s) ==
    /\ s \in enrolled
    /\ enrolled' = enrolled \ {s}
    /\ UNCHANGED <<now, issuedAt, sessionVars, record, outcome, request,
                   activation, closer, notified, failures>>

-----------------------------------------------------------------------------
(* Activation by the teacher *)

\* Rows createMany inserts for the roster, leaving existing rows alone.
SeededAlwaysPending(st) ==                  \* faulty: ignores the status asked for
    [s \in Students |->
        IF s \in enrolled /\ ~HasRow(s) THEN SeededRow("pending") ELSE record[s]]
Seeded(st) == [s \in Students |->
                 IF s \in enrolled /\ ~HasRow(s) THEN SeededRow(st) ELSE record[s]]
\* The rows of a closing session: pending becomes absent and manuallySet is
\* reset, for every pending row including those a teacher set to pending.
MarkAbsent(rows) == [s \in Students |->
                       IF rows[s].status = "pending"
                       THEN [rows[s] EXCEPT !.status = "absent", !.manuallySet = FALSE]
                       ELSE rows[s]]

\* What the handler checks on the row it read, and again in its claim.
TeacherMayClaim == ~isActive /\ ~ended /\ qrToken = NoToken

ActivateRead(d, k) ==
    /\ activation[d].phase = "idle"
    /\ issuedAt[k] # NoTime
    /\ TeacherMayClaim
    /\ activation' = [activation EXCEPT ![d] =
                        [phase |-> "claiming", token |-> k, receivedAt |-> now]]
    /\ UNCHANGED <<now, issuedAt, sessionVars, enrolled, record, outcome, request,
                   closer, notified, failures>>

\* The claim succeeds: an expired token closes the session at once, and
\* everyone on the roster is absent.
ActivateWin(d) ==
    /\ activation[d].phase = "claiming"
    /\ SessionUnlocked
    /\ TeacherMayClaim
    /\ LET k == activation[d].token
           receivedAt == activation[d].receivedAt
           expired == receivedAt > Deadline(k)
       IN  /\ isActive' = ~expired
           /\ ended' = expired
           /\ qrToken' = IF expired THEN NoToken ELSE k
           /\ autoEndAt' = IF expired THEN receivedAt ELSE Deadline(k)
           /\ record' = IF expired THEN MarkAbsent(Seeded("absent")) ELSE Seeded("pending")
    /\ activation' = [activation EXCEPT ![d] = IdleActivation]
    /\ UNCHANGED <<now, issuedAt, enrolled, outcome, request, closer, notified, failures>>

ActivateLose(d) ==
    /\ activation[d].phase = "claiming"
    /\ SessionUnlocked
    /\ ~TeacherMayClaim
    /\ activation' = [activation EXCEPT ![d] = IdleActivation]
    /\ UNCHANGED <<now, issuedAt, sessionVars, enrolled, record, outcome, request,
                   closer, notified, failures>>

-----------------------------------------------------------------------------
(* A scan submission: deliver, activate if need be, validate, write *)

\* A submission claims a session that has no token and has not ended; unlike
\* the teacher's claim this does not test isActive.
ScanMayClaimEnded == qrToken = NoToken      \* faulty: endedAt is not tested
ScanMayClaim == qrToken = NoToken /\ ~ended

\* The server receives attempt i with token k.  Reading an attempt that is
\* already stored only returns the stored answer, so it is no step here.  The
\* submission goes on to activate the session if nobody has.
Deliver(r, i, k, off) ==
    /\ request[r].phase = "idle"
    /\ outcome[i] = "none"
    /\ issuedAt[k] # NoTime
    /\ ~(ScanMayClaim /\ now > Deadline(k) /\ ~off)
    /\ request' = [request EXCEPT ![r] =
         [IdleRequest EXCEPT !.phase = IF ScanMayClaim THEN "activating" ELSE "validating",
                             !.id = i, !.token = k, !.offline = off, !.receivedAt = now]]
    /\ UNCHANGED <<now, issuedAt, sessionVars, enrolled, record, outcome,
                   activation, closer, notified, failures>>

\* The server refuses attempt i on reception and stores the refusal: the
\* student is over the rate limit, or the token of a session that nobody has
\* activated is submitted on line after its grace period.
Refuse(i) ==
    /\ outcome[i] = "none"
    /\ outcome' = [outcome EXCEPT ![i] = "denied"]
    /\ UNCHANGED <<now, issuedAt, sessionVars, enrolled, record, request,
                   activation, closer, notified, failures>>

\* The submission claims the session.  Unlike the teacher's activation it does
\* not set autoEndAt, and leaves pending rows alone.
ScanActivateWin(r) ==
    /\ request[r].phase = "activating"
    /\ SessionUnlocked
    /\ ScanMayClaim
    /\ LET k == request[r].token
           expired == request[r].receivedAt > Deadline(k)
       IN  /\ isActive' = ~expired
           /\ ended' = expired
           /\ qrToken' = IF expired THEN NoToken ELSE k
           /\ record' = Seeded(IF expired THEN "absent" ELSE "pending")
    /\ request' = [request EXCEPT ![r].phase = "validating"]
    /\ UNCHANGED <<now, issuedAt, autoEndAt, enrolled, outcome, activation,
                   closer, notified, failures>>

ScanActivateLose(r) ==
    /\ request[r].phase = "activating"
    /\ SessionUnlocked
    /\ ~ScanMayClaim
    /\ request' = [request EXCEPT ![r].phase = "validating"]
    /\ UNCHANGED <<now, issuedAt, sessionVars, enrolled, record, outcome,
                   activation, closer, notified, failures>>

(***************************************************************************)
(* What validateScan, the concurrent-session check and the coordinate      *)
(* heuristic make of a submission, given its location and device evidence  *)
(* e and the time t at which the code was scanned: "present", "late",      *)
(* "disputed" or "denied".  The evidence is abstracted to what decides:    *)
(*   "bad"         a definitive failure (outside the geofence, mocked, ...)*)
(*   "noLocation"  no coordinates: kept for review, even out of the window *)
(*   "flagged"     a device or cross-session signal: kept for review       *)
(*   "good"        none of these                                           *)
(***************************************************************************)
Evidence == {"good", "noLocation", "flagged", "bad"}

AdmissibleAnyToken(q) ==                    \* faulty: the session's token is not compared
    /\ Owner[q.id] \in enrolled
    /\ isActive \/ (q.offline /\ ended)
Admissible(q) ==
    /\ Owner[q.id] \in enrolled
    /\ qrToken # NoToken => q.token = qrToken
    /\ isActive \/ (q.offline /\ ended)

Verdict(q, e, t) ==
    IF \/ ~Admissible(q) \/ t < issuedAt[q.token]
       \/ e = "bad"
       \/ e # "noLocation" /\ t > Deadline(q.token)
    THEN "denied"
    ELSE IF \/ e \in {"noLocation", "flagged"}
            \/ q.offline /\ (q.receivedAt > Deadline(q.token) \/ ended)
         THEN "disputed"
         ELSE IF t > issuedAt[q.token] + Validity THEN "late" ELSE "present"

\* An off-line scan carries the time of the scan by the device's clock; any
\* other is timed when it is received.
ScanTimes(q) == IF q.offline THEN 0..q.receivedAt ELSE {q.receivedAt}

ValidateAccept(r) ==
    /\ request[r].phase = "validating"
    /\ \E e \in Evidence, t \in ScanTimes(request[r]) :
          LET v == Verdict(request[r], e, t)
          IN  /\ v # "denied"
              /\ request' = [request EXCEPT ![r].phase = "writing", ![r].verdict = v]
    /\ UNCHANGED <<now, issuedAt, sessionVars, enrolled, record, outcome,
                   activation, closer, notified, failures>>

\* A refused scan is stored once; storing it again is a swallowed conflict.
ValidateDeny(r) ==
    /\ request[r].phase = "validating"
    /\ \E e \in Evidence, t \in ScanTimes(request[r]) : Verdict(request[r], e, t) = "denied"
    /\ outcome' = [outcome EXCEPT ![request[r].id] = IF @ = "none" THEN "denied" ELSE @]
    /\ request' = [request EXCEPT ![r] = IdleRequest]
    /\ UNCHANGED <<now, issuedAt, sessionVars, enrolled, record,
                   activation, closer, notified, failures>>

\* The conditional update of the attendance row accepts the scan.  A disputed
\* scan may also replace an absence.
AcceptsAgain(row, verdict) ==               \* faulty: the accepted scan is not tested
    /\ row.status \in IF verdict = "disputed" THEN {"pending", "absent"} ELSE {"pending"}
    /\ ~row.manuallySet
AcceptsOverride(row, verdict) ==            \* faulty: manuallySet is not tested
    /\ row.status \in IF verdict = "disputed" THEN {"pending", "absent"} ELSE {"pending"}
    /\ row.tokenSnapshot = NoToken
    /\ row.acceptedScanAttemptId = NoAttempt
AcceptsAbsence(row, verdict) ==             \* faulty: any scan may replace an absence
    /\ row.status \in {"pending", "absent"}
    /\ ~row.manuallySet
    /\ row.tokenSnapshot = NoToken
    /\ row.acceptedScanAttemptId = NoAttempt
Accepts(row, verdict) ==
    /\ row.status \in IF verdict = "disputed" THEN {"pending", "absent"} ELSE {"pending"}
    /\ ~row.manuallySet
    /\ row.tokenSnapshot = NoToken
    /\ row.acceptedScanAttemptId = NoAttempt

\* The row the update works on: a student enrolled since the roster was seeded
\* gets a pending row first.
Target(s) == IF HasRow(s) THEN record[s] ELSE SeededRow("pending")

OutcomeVerbatim(verdict) == verdict         \* faulty: no outcome is called disputed
Outcome(verdict) == IF verdict = "disputed" THEN "flagged" ELSE verdict

\* The transaction accepts the scan: row and attempt are written together.
WriteAccept(r) ==
    LET q == request[r]
        s == Owner[q.id]
    IN  /\ q.phase = "writing"
        /\ s \in enrolled
        /\ outcome[q.id] = "none"
        /\ Accepts(Target(s), q.verdict)
        /\ record' = [record EXCEPT ![s] =
             [status |-> q.verdict, manuallySet |-> FALSE,
              tokenSnapshot |-> q.token, acceptedScanAttemptId |-> q.id]]
        /\ outcome' = [outcome EXCEPT ![q.id] = Outcome(q.verdict)]
        /\ request' = [request EXCEPT ![r] = IdleRequest]
        /\ UNCHANGED <<now, issuedAt, sessionVars, enrolled,
                       activation, closer, notified, failures>>

\* The update matches no row: the attempt is stored as a denied duplicate.
WriteDuplicate(r) ==
    LET q == request[r]
        s == Owner[q.id]
    IN  /\ q.phase = "writing"
        /\ s \in enrolled
        /\ outcome[q.id] = "none"
        /\ ~Accepts(Target(s), q.verdict)
        /\ outcome' = [outcome EXCEPT ![q.id] = "denied"]
        /\ request' = [request EXCEPT ![r] = IdleRequest]
        /\ UNCHANGED <<now, issuedAt, sessionVars, enrolled, record,
                       activation, closer, notified, failures>>

\* The transaction rolls back: the student was removed meanwhile, or the same
\* attempt was stored by another delivery of it (unique studentId and
\* clientAttemptId), whose answer is returned.
WriteAbort(r) ==
    LET q == request[r]
    IN  /\ q.phase = "writing"
        /\ Owner[q.id] \notin enrolled \/ outcome[q.id] # "none"
        /\ request' = [request EXCEPT ![r] = IdleRequest]
        /\ UNCHANGED <<now, issuedAt, sessionVars, enrolled, record, outcome,
                       activation, closer, notified, failures>>

-----------------------------------------------------------------------------
(* Corrections by the teacher *)

UpdateStatus(s, st) ==
    /\ HasRow(s)
    /\ record' = [record EXCEPT ![s].status = st, ![s].manuallySet = TRUE]
    /\ UNCHANGED <<now, issuedAt, sessionVars, enrolled, outcome, request,
                   activation, closer, notified, failures>>

\* The teacher records attendance for a student, who may have no row yet.  That the
\* student is enrolled is tested just before the row is written.
CreateManual(s, st) ==
    /\ s \in enrolled
    /\ record' = [record EXCEPT ![s] = [Target(s) EXCEPT !.status = st, !.manuallySet = TRUE]]
    /\ UNCHANGED <<now, issuedAt, sessionVars, enrolled, outcome, request,
                   activation, closer, notified, failures>>

-----------------------------------------------------------------------------
(* Closing: by the teacher, or by the auto-end job *)

EveryStudent == Students                    \* faulty: lists the whole section
PendingStudents == {s \in Students : Pending(s)}

EndClaim(c) ==
    /\ closer[c].phase = "idle"
    /\ SessionUnlocked
    /\ isActive
    /\ closer' = [closer EXCEPT ![c] = [phase |-> "claimed", deadline |-> NoTime,
                                        pending |-> PendingStudents]]
    /\ UNCHANGED <<now, issuedAt, sessionVars, enrolled, record, outcome, request,
                   activation, notified, failures>>

\* The job picks the session up as an expired candidate.
ExpiredJustNow == isActive /\ now = autoEndAt       \* faulty: misses the instant
Expired == isActive /\ autoEndAt # NoTime /\ now > autoEndAt

CronRead(c) ==
    /\ closer[c].phase = "idle"
    /\ Expired
    /\ closer' = [closer EXCEPT ![c].phase = "read", ![c].deadline = autoEndAt]
    /\ UNCHANGED <<now, issuedAt, sessionVars, enrolled, record, outcome, request,
                   activation, notified, failures>>

\* The job's claim holds only for the deadline it read.
CronClaim(c) ==
    /\ closer[c].phase = "read"
    /\ SessionUnlocked
    /\ closer' = [closer EXCEPT ![c] =
         IF isActive /\ autoEndAt = closer[c].deadline
         THEN [phase |-> "claimed", deadline |-> autoEndAt, pending |-> PendingStudents]
         ELSE IdleCloser]
    /\ UNCHANGED <<now, issuedAt, sessionVars, enrolled, record, outcome, request,
                   activation, notified, failures>>

\* The rows still pending become absent, the transaction commits, and those
\* who were listed as pending are notified; a notification may fail.
CloseCommit(c) ==
    /\ closer[c].phase = "claimed"
    /\ isActive' = FALSE /\ ended' = TRUE /\ qrToken' = NoToken
    /\ record' = MarkAbsent(record)
    /\ \E sent \in SUBSET closer[c].pending : notified' = notified \cup sent
    /\ closer' = [closer EXCEPT ![c] = IdleCloser]
    /\ UNCHANGED <<now, issuedAt, autoEndAt, enrolled, outcome, request, activation, failures>>

-----------------------------------------------------------------------------
(* A server process dies or a statement fails: what is in progress is gone, *)
(* open transactions roll back, and the client may send the request again.  *)

RequestDies(r) ==
    /\ failures < MaxFailures
    /\ request[r].phase # "idle"
    /\ request' = [request EXCEPT ![r] = IdleRequest]
    /\ failures' = failures + 1
    /\ UNCHANGED <<now, issuedAt, sessionVars, enrolled, record, outcome,
                   activation, closer, notified>>

DeviceDies(d) ==
    /\ failures < MaxFailures
    /\ activation[d].phase # "idle"
    /\ activation' = [activation EXCEPT ![d] = IdleActivation]
    /\ failures' = failures + 1
    /\ UNCHANGED <<now, issuedAt, sessionVars, enrolled, record, outcome, request,
                   closer, notified>>

CloserDies(c) ==
    /\ failures < MaxFailures
    /\ closer[c].phase # "idle"
    /\ closer' = [closer EXCEPT ![c] = IdleCloser]
    /\ failures' = failures + 1
    /\ UNCHANGED <<now, issuedAt, sessionVars, enrolled, record, outcome, request,
                   activation, notified>>

-----------------------------------------------------------------------------
ActivateStep(d) ==
    \/ \E k \in Tokens : ActivateRead(d, k)
    \/ ActivateWin(d)
    \/ ActivateLose(d)
    \/ DeviceDies(d)

RequestStep(r) ==
    \/ \E i \in Attempts, k \in Tokens, off \in BOOLEAN : Deliver(r, i, k, off)
    \/ ScanActivateWin(r)
    \/ ScanActivateLose(r)
    \/ ValidateAccept(r)
    \/ ValidateDeny(r)
    \/ WriteAccept(r)
    \/ WriteDuplicate(r)
    \/ WriteAbort(r)
    \/ RequestDies(r)

CronStep(c) == CronRead(c) \/ CronClaim(c) \/ CloseCommit(c)

Next ==
    \/ Tick
    \/ \E k \in Tokens : SignToken(k)
    \/ \E s \in Students : Enroll(s) \/ Remove(s)
    \/ \E d \in Devices : ActivateStep(d)
    \/ \E r \in Requests : RequestStep(r)
    \/ \E i \in Attempts : Refuse(i)
    \/ \E s \in Students, st \in ManualStatuses : UpdateStatus(s, st) \/ CreateManual(s, st)
    \/ \E c \in Enders : EndClaim(c) \/ CloseCommit(c)
    \/ \E c \in CronWorkers : CronStep(c)
    \/ \E c \in Closers : CloserDies(c)

Spec == Init /\ [][Next]_vars

(***************************************************************************)
(* Time passes, the auto-end job is scheduled every minute on each replica *)
(* and runs to its end unless it dies, which it does finitely often.       *)
(* Nothing is assumed of teachers and students.                            *)
(***************************************************************************)
Fairness ==
    /\ WF_vars(Tick)
    /\ \A c \in CronWorkers : WF_vars(CronRead(c)) /\ WF_vars(CronClaim(c))
    /\ \A c \in Closers : WF_vars(CloseCommit(c))
FairSpec == Spec /\ Fairness

-----------------------------------------------------------------------------
(* Properties *)

Ledger == INSTANCE AttendanceLedger WITH
    Slots   <- Students,
    SlotsOf <- [i \in Attempts |-> {Owner[i]}],
    phase   <- IF ended THEN "closed" ELSE IF isActive THEN "open" ELSE "scheduled",
    winner  <- [s \in Students |-> record[s].acceptedScanAttemptId]

\* The session opens once and closes once, and each student's place is taken
\* at most once, by one attempt of that student, after the session was opened:
\* whoever activates it, and whatever is retried or delivered twice.
ImplementsLedger == Ledger!LedgerSpec

\* However many devices, retries and duplicate deliveries a student's scans go
\* through, at most one of the attempts is accepted, and it is the one the
\* student's attendance row names, for good: neither a correction by the
\* teacher nor the close lets a second attempt in (the guards on tokenSnapshot
\* and acceptedScanAttemptId, and the unique clientAttemptId).
OneAcceptedAttempt ==
    \A i \in Attempts :
        outcome[i] \in Accepted <=> record[Owner[i]].acceptedScanAttemptId = i

\* Once a session has ended it is inactive, holds no token that could be
\* scanned, and the only rows left pending are those a teacher set to pending.
EndedSessionIsSettled ==
    ended =>
        /\ ~isActive /\ qrToken = NoToken
        /\ \A s \in Students : Pending(s) => record[s].manuallySet

\* All the scans that earned credit used one and the same token, the one the
\* session was activated with, though the teacher's devices may have signed
\* several and both the teacher and a student's submission may activate it.
OneTokenEarnsCredit ==
    \A i, j \in Attempts : outcome[i] \in Credited /\ outcome[j] \in Credited =>
        /\ record[Owner[i]].tokenSnapshot = record[Owner[j]].tokenSnapshot
        /\ qrToken # NoToken => record[Owner[i]].tokenSnapshot = qrToken

\* A scan that was validated before the session closed and is written after
\* it never turns the absence recorded at closing into credit: it becomes at
\* most a dispute.  Only the teacher can credit that student.
AbsenceIsNeverCreditedByScan ==
    [][\A s \in Students :
         ended /\ record[s].status = "absent" /\ record'[s].status \in Credited
         => record'[s].manuallySet]_vars

\* A scan never lands on a row the teacher has set, even when it was validated
\* before the teacher set it.
ScanRespectsOverride ==
    [][\A s \in Students :
         record[s].manuallySet =>
             record'[s].acceptedScanAttemptId = record[s].acceptedScanAttemptId]_vars

\* Whoever is told of an absence either is absent or, since the close listed
\* the pending rows, was seen by a scan or set by the teacher: a student who
\* has no row, or whose row is still pending, is never told.
OnlyThePendingAreNotified ==
    [][\A s \in notified' \ notified :
         \/ record'[s].status = "absent"
         \/ record'[s].acceptedScanAttemptId # NoAttempt
         \/ record'[s].manuallySet]_vars

\* A session with an auto-end deadline is eventually closed although the
\* teacher never ends it and closing transactions may die.
DeadlineClosesSession == (isActive /\ autoEndAt # NoTime) ~> ended

-----------------------------------------------------------------------------
(* What the documentation promises and the code does not keep *)

\* documentation/PUP_Attendance_System_Plan.md: "Manual end or automatic expiry
\* converts remaining pending rows to absent": an active session expires.
ActiveSessionExpires == isActive ~> ended
=============================================================================
