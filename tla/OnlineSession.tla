---------------------------- MODULE OnlineSession ----------------------------
(***************************************************************************)
(* One online class session: two checkpoints, each with a QR token of its  *)
(* own.  The teacher arms the start checkpoint (which activates the        *)
(* session), may regenerate it while its window is open, arms the end      *)
(* checkpoint, may regenerate that too, and closes the session; or the     *)
(* auto-end job closes it at autoEndAt, a deadline that arming the end     *)
(* checkpoint replaces.  A student's scan fills one leg of the student's   *)
(* row, which stays pending until the close resolves the two legs into a   *)
(* status.                                                                 *)
(*                                                                         *)
(* The conventions are those of InPersonSession.  A close is three steps:  *)
(* read the session (does the end checkpoint count as armed?), claim it    *)
(* and list the pending rows by their legs, and update the rows listed     *)
(* under the guards of each UPDATE and commit.  The notification of absent *)
(* students is the same call as in InPersonSession and is left to it.  The *)
(* meeting PIN is part of the evidence: a scan must carry the armed token, *)
(* and with it the PIN hash that is stored beside it.                      *)
(***************************************************************************)
EXTENDS Integers

CONSTANTS
    Students,       \* the students who may be enrolled in the section
    Attempts,       \* clientAttemptIds: one per scan a student's device makes
    Owner,          \* Owner[i] is the student who made attempt i
    StartTokens,    \* tokens the teacher's devices may sign for the start
    EndTokens,      \* tokens the teacher's devices may sign for the end
    Requests,       \* scan submissions the server handles at the same time
    Devices,        \* activation requests the server handles at the same time
    Enders,         \* end() requests the server handles at the same time
    CronWorkers,    \* replicas running the auto-end job
    ManualStatuses, \* the statuses the teacher's corrections may choose
    Validity,       \* validitySeconds of a token
    Grace,          \* grace of a start token; an end token has none
    ClassLength,    \* scheduled duration plus the auto-end buffer
    LastIssue,      \* bound: no token is signed after this time
    MaxTime,        \* bound: the clock stops here
    MaxFailures,    \* bound: requests and jobs that die half-way
    NoToken,        \* a null token column
    NoAttempt       \* a null attempt column

Tokens  == StartTokens \cup EndTokens
Closers == Enders \cup CronWorkers
NoTime  == -1
Times   == 0..MaxTime
Statuses == {"pending", "present", "late", "absent", "disputed", "incomplete"}

ASSUME OwnerAssumption == Owner \in [Attempts -> Students]
ASSUME TokenAssumption ==
    /\ StartTokens \cap EndTokens = {}
    /\ NoToken \notin Tokens /\ NoAttempt \notin Attempts
ASSUME TimeAssumption ==
    /\ Validity \in Nat /\ Grace \in Nat /\ ClassLength \in Nat
    /\ LastIssue \in Nat /\ MaxTime \in Nat
    /\ LastIssue + Validity + Grace < MaxTime
    /\ LastIssue + ClassLength < MaxTime
ASSUME FailureAssumption == MaxFailures \in Nat
ASSUME StatusAssumption == ManualStatuses \subseteq Statuses
ASSUME CloserAssumption == Enders \cap CronWorkers = {}

VARIABLES
    now,        \* the server's clock
    issuedAt,   \* when each token was signed, NoTime if it was not
    isActive, ended,           \* the Session row; ended: endedAt # null
    startQrToken, endQrToken,  \* the armed tokens
    endGenerated,              \* endQrGeneratedAt # null, kept by the close
    autoEndAt,
    enrolled,   \* the section's Enrollment rows
    record,     \* the AttendanceRecord row of each student; status "none": no row
    outcome,    \* the ScanAttempt row of each attempt; "none": no row
    request,    \* scan submissions in progress
    arming,     \* activation requests in progress
    closer,     \* closing transactions in progress
    failures    \* requests and jobs that have died so far

sessionVars == <<isActive, ended, startQrToken, endQrToken, endGenerated, autoEndAt>>
vars == <<now, issuedAt, isActive, ended, startQrToken, endQrToken, endGenerated,
          autoEndAt, enrolled, record, outcome, request, arming, closer, failures>>

Row == [status : Statuses \cup {"none"}, manuallySet : BOOLEAN,
        checkInToken : StartTokens \cup {NoToken},
        checkInStatus : {"none", "present", "late", "disputed"},
        checkInAttemptId : Attempts \cup {NoAttempt},
        checkOutToken : EndTokens \cup {NoToken},
        checkOutAttemptId : Attempts \cup {NoAttempt}]
NoRow == [status |-> "none", manuallySet |-> FALSE,
          checkInToken |-> NoToken, checkInStatus |-> "none", checkInAttemptId |-> NoAttempt,
          checkOutToken |-> NoToken, checkOutAttemptId |-> NoAttempt]
SeededRow(st) == [NoRow EXCEPT !.status = st]

Outcomes == {"none", "present", "late", "flagged", "denied"}
Accepted == {"present", "late", "flagged"}
Credited == {"present", "late"}

Request ==
    [phase : {"idle", "validating", "writing"},
     id : Attempts \cup {NoAttempt}, token : Tokens \cup {NoToken},
     offline : BOOLEAN, receivedAt : Times, verdict : {"present", "late", "disputed"}]
\* An activation request: what it claims and the armed token it read.
Arming ==
    [op : {"idle", "start", "restart", "end", "reend"},
     token : Tokens \cup {NoToken}, expected : Tokens \cup {NoToken}]
\* Where the close lists a row: the status it is to get, or "no".
Buckets == {"no", "absent", "present", "late", "missedCheckout", "missedCheckin"}
Closer ==
    [phase : {"idle", "read", "claimed"}, deadline : Times \cup {NoTime},
     endArmed : BOOLEAN, listed : [Students -> Buckets]]

TypeOK ==
    /\ now \in Times
    /\ issuedAt \in [Tokens -> 0..LastIssue \cup {NoTime}]
    /\ isActive \in BOOLEAN /\ ended \in BOOLEAN /\ endGenerated \in BOOLEAN
    /\ startQrToken \in StartTokens \cup {NoToken}
    /\ endQrToken \in EndTokens \cup {NoToken}
    /\ autoEndAt \in Times \cup {NoTime}
    /\ enrolled \subseteq Students
    /\ record \in [Students -> Row]
    /\ outcome \in [Attempts -> Outcomes]
    /\ request \in [Requests -> Request]
    /\ arming \in [Devices -> Arming]
    /\ closer \in [Closers -> Closer]
    /\ failures \in 0..MaxFailures

IdleRequest == [phase |-> "idle", id |-> NoAttempt, token |-> NoToken,
                offline |-> FALSE, receivedAt |-> 0, verdict |-> "present"]
IdleArming == [op |-> "idle", token |-> NoToken, expected |-> NoToken]
IdleCloser == [phase |-> "idle", deadline |-> NoTime, endArmed |-> FALSE,
               listed |-> [s \in Students |-> "no"]]

Init ==
    /\ now = 0
    /\ issuedAt = [k \in Tokens |-> NoTime]
    /\ isActive = FALSE /\ ended = FALSE /\ endGenerated = FALSE
    /\ startQrToken = NoToken /\ endQrToken = NoToken /\ autoEndAt = NoTime
    /\ enrolled \in SUBSET Students
    /\ record = [s \in Students |-> NoRow]
    /\ outcome = [i \in Attempts |-> "none"]
    /\ request = [r \in Requests |-> IdleRequest]
    /\ arming = [d \in Devices |-> IdleArming]
    /\ closer = [c \in Closers |-> IdleCloser]
    /\ failures = 0

ExpiresAt(k) == issuedAt[k] + Validity
GraceEnd(k) == IF k \in StartTokens THEN ExpiresAt(k) + Grace ELSE ExpiresAt(k)
HasRow(s) == record[s].status # "none"
Undecided(row) == row.status = "pending" /\ ~row.manuallySet

\* No open transaction holds the lock of the Session row.
SessionUnlocked == \A c \in Closers : closer[c].phase # "claimed"

-----------------------------------------------------------------------------
(* The clock, the teacher's key and the roster *)

Tick ==
    /\ now < MaxTime
    /\ now' = now + 1
    /\ UNCHANGED <<issuedAt, sessionVars, enrolled, record, outcome, request,
                   arming, closer, failures>>

\* A teacher's device signs token k; no server is involved.
SignToken(k) ==
    /\ issuedAt[k] = NoTime /\ now <= LastIssue
    /\ issuedAt' = [issuedAt EXCEPT ![k] = now]
    /\ UNCHANGED <<now, sessionVars, enrolled, record, outcome, request,
                   arming, closer, failures>>

Enroll(s) ==
    /\ s \notin enrolled
    /\ enrolled' = enrolled \cup {s}
    /\ UNCHANGED <<now, issuedAt, sessionVars, record, outcome, request,
                   arming, closer, failures>>

\* Removing a student deletes the enrollment and keeps the attendance rows.
Remove(s) ==
    /\ s \in enrolled
    /\ enrolled' = enrolled \ {s}
    /\ UNCHANGED <<now, issuedAt, sessionVars, record, outcome, request,
                   arming, closer, failures>>

-----------------------------------------------------------------------------
(* Arming a checkpoint: read and check, then claim *)

\* What the handler checks on the Session row it read, for each operation.
MayArm(op, k) ==
    CASE op = "start"   -> k \in StartTokens /\ ~isActive /\ ~ended /\ startQrToken = NoToken
      [] op = "restart" -> k \in StartTokens /\ startQrToken # NoToken /\ now <= GraceEnd(startQrToken)
      [] op = "end"     -> k \in EndTokens /\ isActive /\ ~ended /\ endQrToken = NoToken
      [] op = "reend"   -> k \in EndTokens /\ isActive /\ ~ended /\ endQrToken # NoToken
                           /\ now <= ExpiresAt(endQrToken)

\* A token whose window has already expired is refused and changes nothing.
ArmRead(d, op, k) ==
    /\ arming[d].op = "idle"
    /\ issuedAt[k] # NoTime /\ now <= ExpiresAt(k)
    /\ MayArm(op, k)
    /\ arming' = [arming EXCEPT ![d] =
         [op |-> op, token |-> k,
          expected |-> IF op = "restart" THEN startQrToken
                       ELSE IF op = "reend" THEN endQrToken ELSE NoToken]]
    /\ UNCHANGED <<now, issuedAt, sessionVars, enrolled, record, outcome, request,
                   closer, failures>>

\* The WHERE clause of each claim.
ClaimHoldsAfterEnd(a) ==            \* faulty: arming the end does not test the session
    CASE a.op = "start"   -> ~isActive /\ ~ended /\ startQrToken = NoToken
      [] a.op = "restart" -> isActive /\ ~ended /\ startQrToken = a.expected
      [] a.op = "end"     -> endQrToken = NoToken
      [] a.op = "reend"   -> isActive /\ ~ended /\ endQrToken = a.expected
      [] a.op = "idle"    -> FALSE
ClaimHolds(a) ==
    CASE a.op = "start"   -> ~isActive /\ ~ended /\ startQrToken = NoToken
      [] a.op = "restart" -> isActive /\ ~ended /\ startQrToken = a.expected
      [] a.op = "end"     -> isActive /\ ~ended /\ endQrToken = NoToken
      [] a.op = "reend"   -> isActive /\ ~ended /\ endQrToken = a.expected
      [] a.op = "idle"    -> FALSE

\* The scheduled end of the class.
NoClassDeadline(k) == NoTime        \* faulty: the deadline is left null
ClassDeadline(k) == issuedAt[k] + ClassLength

\* Arming the start activates the session and seeds the roster.
ArmStart(d) ==
    /\ arming[d].op = "start"
    /\ SessionUnlocked
    /\ ClaimHolds(arming[d])
    /\ isActive' = TRUE
    /\ startQrToken' = arming[d].token
    /\ autoEndAt' = ClassDeadline(arming[d].token)
    /\ record' = [s \in Students |->
                    IF s \in enrolled /\ ~HasRow(s) THEN SeededRow("pending") ELSE record[s]]
    /\ arming' = [arming EXCEPT ![d] = IdleArming]
    /\ UNCHANGED <<now, issuedAt, ended, endQrToken, endGenerated, enrolled, outcome,
                   request, closer, failures>>

\* Regenerating the start keeps the deadline.
RegenerateStart(d) ==
    /\ arming[d].op = "restart"
    /\ SessionUnlocked
    /\ ClaimHolds(arming[d])
    /\ startQrToken' = arming[d].token
    /\ arming' = [arming EXCEPT ![d] = IdleArming]
    /\ UNCHANGED <<now, issuedAt, isActive, ended, endQrToken, endGenerated, autoEndAt,
                   enrolled, record, outcome, request, closer, failures>>

\* Arming or regenerating the end moves the deadline to the token's expiry.
ArmEnd(d) ==
    /\ arming[d].op \in {"end", "reend"}
    /\ SessionUnlocked
    /\ ClaimHolds(arming[d])
    /\ endQrToken' = arming[d].token
    /\ endGenerated' = TRUE
    /\ autoEndAt' = ExpiresAt(arming[d].token)
    /\ arming' = [arming EXCEPT ![d] = IdleArming]
    /\ UNCHANGED <<now, issuedAt, isActive, ended, startQrToken, enrolled, record,
                   outcome, request, closer, failures>>

ArmLose(d) ==
    /\ arming[d].op # "idle"
    /\ SessionUnlocked
    /\ ~ClaimHolds(arming[d])
    /\ arming' = [arming EXCEPT ![d] = IdleArming]
    /\ UNCHANGED <<now, issuedAt, sessionVars, enrolled, record, outcome, request,
                   closer, failures>>

-----------------------------------------------------------------------------
(* A scan submission: deliver, validate, write *)

\* The server receives attempt i with token k.  Reading an attempt that is
\* already stored only returns the stored answer, so it is no step here.  A
\* submission never activates an online session.
Deliver(r, i, k, off) ==
    /\ request[r].phase = "idle"
    /\ outcome[i] = "none"
    /\ issuedAt[k] # NoTime
    /\ request' = [request EXCEPT ![r] =
         [IdleRequest EXCEPT !.phase = "validating", !.id = i, !.token = k,
                             !.offline = off, !.receivedAt = now]]
    /\ UNCHANGED <<now, issuedAt, sessionVars, enrolled, record, outcome,
                   arming, closer, failures>>

\* The student is over the rate limit: the refusal is stored.
Refuse(i) ==
    /\ outcome[i] = "none"
    /\ outcome' = [outcome EXCEPT ![i] = "denied"]
    /\ UNCHANGED <<now, issuedAt, sessionVars, enrolled, record, request,
                   arming, closer, failures>>

(***************************************************************************)
(* What validateScan and the concurrent-session check make of a submission *)
(* scanned at time t with evidence e: a device or cross-session signal or  *)
(* missing evidence ("flagged"), a wrong meeting PIN ("badPin"), or none   *)
(* of these ("good").  The PIN is looked at last, after a delayed off-line *)
(* submission has already been kept for review.                            *)
(***************************************************************************)
Evidence == {"good", "flagged", "badPin"}

ArmedToken(k) == IF k \in StartTokens THEN startQrToken ELSE endQrToken

Admissible(q) ==
    /\ Owner[q.id] \in enrolled
    /\ ArmedToken(q.token) = q.token
    /\ isActive \/ (q.offline /\ ended)

Verdict(q, e, t) ==
    IF ~Admissible(q) \/ t < issuedAt[q.token] \/ t > GraceEnd(q.token) THEN "denied"
    ELSE IF \/ e = "flagged"
            \/ q.offline /\ (q.receivedAt > GraceEnd(q.token) \/ ended)
         THEN "disputed"
         ELSE IF e = "badPin" THEN "denied"
              ELSE IF t > ExpiresAt(q.token) THEN "late" ELSE "present"

\* An off-line scan carries the time of the scan by the device's clock; any
\* other is timed when it is received.
ScanTimes(q) == IF q.offline THEN 0..q.receivedAt ELSE {q.receivedAt}

ValidateAccept(r) ==
    /\ request[r].phase = "validating"
    /\ \E e \in Evidence, t \in ScanTimes(request[r]) :
          LET v == Verdict(request[r], e, t)
          IN  /\ v # "denied"
              /\ request' = [request EXCEPT ![r].phase = "writing", ![r].verdict = v]
    /\ UNCHANGED <<now, issuedAt, sessionVars, enrolled, record, outcome,
                   arming, closer, failures>>

\* A refused scan is stored once; storing it again is a swallowed conflict.
ValidateDeny(r) ==
    /\ request[r].phase = "validating"
    /\ \E e \in Evidence, t \in ScanTimes(request[r]) : Verdict(request[r], e, t) = "denied"
    /\ outcome' = [outcome EXCEPT ![request[r].id] = IF @ = "none" THEN "denied" ELSE @]
    /\ request' = [request EXCEPT ![r] = IdleRequest]
    /\ UNCHANGED <<now, issuedAt, sessionVars, enrolled, record,
                   arming, closer, failures>>

\* The conditional update accepts the scan if its leg is still empty.
AcceptsAgain(row, q) ==             \* faulty: the leg may be taken already
    /\ row.status \in IF q.verdict = "disputed" THEN {"pending", "absent"} ELSE {"pending"}
    /\ ~row.manuallySet
Accepts(row, q) ==
    /\ row.status \in IF q.verdict = "disputed" THEN {"pending", "absent"} ELSE {"pending"}
    /\ ~row.manuallySet
    /\ IF q.token \in StartTokens THEN row.checkInToken = NoToken
                                  ELSE row.checkOutToken = NoToken

\* The row the update works on: a student enrolled since the roster was seeded
\* gets a pending row first.
Target(s) == IF HasRow(s) THEN record[s] ELSE SeededRow("pending")

\* The leg is filled; the row stays pending unless the scan is disputed.
FilledUndisputed(row, q) ==         \* faulty: a disputed scan leaves the row pending
    IF q.token \in StartTokens
    THEN [row EXCEPT !.checkInToken = q.token, !.checkInStatus = q.verdict,
                     !.checkInAttemptId = q.id]
    ELSE [row EXCEPT !.checkOutToken = q.token, !.checkOutAttemptId = q.id]
FilledAtOnce(row, q) ==             \* faulty: the check-in decides the row's status
    IF q.token \in StartTokens
    THEN [row EXCEPT !.status = q.verdict, !.checkInToken = q.token,
                     !.checkInStatus = q.verdict, !.checkInAttemptId = q.id]
    ELSE [row EXCEPT !.checkOutToken = q.token, !.checkOutAttemptId = q.id]
Filled(row, q) ==
    LET marked == IF q.verdict = "disputed" THEN [row EXCEPT !.status = "disputed"] ELSE row
    IN  IF q.token \in StartTokens
        THEN [marked EXCEPT !.checkInToken = q.token, !.checkInStatus = q.verdict,
                            !.checkInAttemptId = q.id]
        ELSE [marked EXCEPT !.checkOutToken = q.token, !.checkOutAttemptId = q.id]

Outcome(verdict) == IF verdict = "disputed" THEN "flagged" ELSE verdict

\* The transaction accepts the scan: row and attempt are written together.
WriteAccept(r) ==
    LET q == request[r]
        s == Owner[q.id]
    IN  /\ q.phase = "writing"
        /\ s \in enrolled
        /\ outcome[q.id] = "none"
        /\ Accepts(Target(s), q)
        /\ record' = [record EXCEPT ![s] = Filled(Target(s), q)]
        /\ outcome' = [outcome EXCEPT ![q.id] = Outcome(q.verdict)]
        /\ request' = [request EXCEPT ![r] = IdleRequest]
        /\ UNCHANGED <<now, issuedAt, sessionVars, enrolled, arming, closer, failures>>

\* The update matches no row: the attempt is stored as a denied duplicate.
WriteDuplicate(r) ==
    LET q == request[r]
        s == Owner[q.id]
    IN  /\ q.phase = "writing"
        /\ s \in enrolled
        /\ outcome[q.id] = "none"
        /\ ~Accepts(Target(s), q)
        /\ outcome' = [outcome EXCEPT ![q.id] = "denied"]
        /\ request' = [request EXCEPT ![r] = IdleRequest]
        /\ UNCHANGED <<now, issuedAt, sessionVars, enrolled, record, arming, closer, failures>>

\* The transaction rolls back: the student was removed meanwhile, or the same
\* attempt was stored by another delivery of it, whose answer is returned.
WriteAbort(r) ==
    LET q == request[r]
    IN  /\ q.phase = "writing"
        /\ Owner[q.id] \notin enrolled \/ outcome[q.id] # "none"
        /\ request' = [request EXCEPT ![r] = IdleRequest]
        /\ UNCHANGED <<now, issuedAt, sessionVars, enrolled, record, outcome,
                       arming, closer, failures>>

-----------------------------------------------------------------------------
(* Corrections by the teacher *)

UpdateStatus(s, st) ==
    /\ HasRow(s)
    /\ record' = [record EXCEPT ![s].status = st, ![s].manuallySet = TRUE]
    /\ UNCHANGED <<now, issuedAt, sessionVars, enrolled, outcome, request,
                   arming, closer, failures>>

\* The teacher records attendance for a student, who may have no row yet.
CreateManual(s, st) ==
    /\ s \in enrolled
    /\ record' = [record EXCEPT ![s] = [Target(s) EXCEPT !.status = st, !.manuallySet = TRUE]]
    /\ UNCHANGED <<now, issuedAt, sessionVars, enrolled, outcome, request,
                   arming, closer, failures>>

-----------------------------------------------------------------------------
(* Closing: by the teacher, or by the auto-end job *)

\* The teacher's request reads the session before its transaction: endArmed is
\* what it saw then.
EndRead(c) ==
    /\ closer[c].phase = "idle"
    /\ closer' = [closer EXCEPT ![c] =
         [IdleCloser EXCEPT !.phase = "read", !.endArmed = endQrToken # NoToken \/ endGenerated]]
    /\ UNCHANGED <<now, issuedAt, sessionVars, enrolled, record, outcome, request,
                   arming, failures>>

\* The job picks the session up as an expired candidate.
CronRead(c) ==
    /\ closer[c].phase = "idle"
    /\ isActive /\ autoEndAt # NoTime /\ now > autoEndAt
    /\ closer' = [closer EXCEPT ![c] =
         [IdleCloser EXCEPT !.phase = "read", !.deadline = autoEndAt,
                            !.endArmed = endQrToken # NoToken \/ endGenerated]]
    /\ UNCHANGED <<now, issuedAt, sessionVars, enrolled, record, outcome, request,
                   arming, failures>>

\* How the resolver lists an undecided row.
BucketUnarmed(row, endArmed) ==     \* faulty: nobody is absent unless the end was armed
    LET in  == row.checkInToken # NoToken
        out == row.checkOutToken # NoToken
    IN  CASE ~Undecided(row) \/ (~in /\ ~out /\ ~endArmed) -> "no"
          [] Undecided(row) /\ ~in /\ ~out /\ endArmed -> "absent"
          [] Undecided(row) /\ ~in /\ out -> "missedCheckin"
          [] Undecided(row) /\ in /\ ~out /\ endArmed -> "missedCheckout"
          [] Undecided(row) /\ in /\ (out \/ ~endArmed) ->
               IF row.checkInStatus \in Credited THEN row.checkInStatus ELSE "no"
Bucket(row, endArmed) ==
    LET in  == row.checkInToken # NoToken
        out == row.checkOutToken # NoToken
    IN  CASE ~Undecided(row) -> "no"
          [] Undecided(row) /\ ~in /\ ~out -> "absent"
          [] Undecided(row) /\ ~in /\ out -> "missedCheckin"
          [] Undecided(row) /\ in /\ ~out /\ endArmed -> "missedCheckout"
          [] Undecided(row) /\ in /\ (out \/ ~endArmed) ->
               IF row.checkInStatus \in Credited THEN row.checkInStatus ELSE "no"

\* The WHERE clauses of the resolver's updates, tested on the row as it is then.
MatchesAsListed(row, bucket, endArmed) ==   \* faulty: the legs are not tested again
    bucket # "no" /\ Undecided(row)
StillMatches(row, bucket, endArmed) ==
    /\ bucket # "no"
    /\ Undecided(row)
    /\ bucket \in {"absent", "missedCheckin"} => row.checkInToken = NoToken
    /\ bucket \in {"absent", "missedCheckout"} => row.checkOutToken = NoToken
    /\ bucket \in Credited => /\ row.checkInToken # NoToken
                              /\ endArmed => row.checkOutToken # NoToken

Resolved(bucket) == IF bucket \in {"missedCheckin", "missedCheckout"} THEN "incomplete" ELSE bucket

\* A claim that holds lists the rows; one that does not ends the request.
Claim(c, holds) ==
    /\ closer[c].phase = "read"
    /\ SessionUnlocked
    /\ closer' = [closer EXCEPT ![c] =
         IF holds
         THEN [@ EXCEPT !.phase = "claimed",
                        !.listed = [s \in Students |-> Bucket(record[s], closer[c].endArmed)]]
         ELSE IdleCloser]
    /\ UNCHANGED <<now, issuedAt, sessionVars, enrolled, record, outcome, request,
                   arming, failures>>

EndClaim(c) == Claim(c, isActive)

\* The job's claim holds only for the deadline it read.
CronClaimAny(c) == Claim(c, isActive)       \* faulty: autoEndAt is not compared
CronClaim(c) == Claim(c, isActive /\ autoEndAt = closer[c].deadline)

\* The listed rows that still match are resolved and the transaction commits.
CloseCommit(c) ==
    /\ closer[c].phase = "claimed"
    /\ isActive' = FALSE /\ ended' = TRUE
    /\ startQrToken' = NoToken /\ endQrToken' = NoToken
    /\ record' = [s \in Students |->
         IF StillMatches(record[s], closer[c].listed[s], closer[c].endArmed)
         THEN [record[s] EXCEPT !.status = Resolved(closer[c].listed[s])]
         ELSE record[s]]
    /\ closer' = [closer EXCEPT ![c] = IdleCloser]
    /\ UNCHANGED <<now, issuedAt, endGenerated, autoEndAt, enrolled, outcome, request,
                   arming, failures>>

-----------------------------------------------------------------------------
(* A server process dies or a statement fails: what is in progress is gone, *)
(* open transactions roll back, and the client may send the request again.  *)

RequestDies(r) ==
    /\ failures < MaxFailures
    /\ request[r].phase # "idle"
    /\ request' = [request EXCEPT ![r] = IdleRequest]
    /\ failures' = failures + 1
    /\ UNCHANGED <<now, issuedAt, sessionVars, enrolled, record, outcome, arming, closer>>

DeviceDies(d) ==
    /\ failures < MaxFailures
    /\ arming[d].op # "idle"
    /\ arming' = [arming EXCEPT ![d] = IdleArming]
    /\ failures' = failures + 1
    /\ UNCHANGED <<now, issuedAt, sessionVars, enrolled, record, outcome, request, closer>>

CloserDies(c) ==
    /\ failures < MaxFailures
    /\ closer[c].phase # "idle"
    /\ closer' = [closer EXCEPT ![c] = IdleCloser]
    /\ failures' = failures + 1
    /\ UNCHANGED <<now, issuedAt, sessionVars, enrolled, record, outcome, request, arming>>

-----------------------------------------------------------------------------
ArmStep(d) ==
    \/ \E op \in {"start", "restart", "end", "reend"}, k \in Tokens : ArmRead(d, op, k)
    \/ ArmStart(d)
    \/ RegenerateStart(d)
    \/ ArmEnd(d)
    \/ ArmLose(d)
    \/ DeviceDies(d)

RequestStep(r) ==
    \/ \E i \in Attempts, k \in Tokens, off \in BOOLEAN : Deliver(r, i, k, off)
    \/ ValidateAccept(r)
    \/ ValidateDeny(r)
    \/ WriteAccept(r)
    \/ WriteDuplicate(r)
    \/ WriteAbort(r)
    \/ RequestDies(r)

Next ==
    \/ Tick
    \/ \E k \in Tokens : SignToken(k)
    \/ \E s \in Students : Enroll(s) \/ Remove(s)
    \/ \E d \in Devices : ArmStep(d)
    \/ \E r \in Requests : RequestStep(r)
    \/ \E i \in Attempts : Refuse(i)
    \/ \E s \in Students, st \in ManualStatuses : UpdateStatus(s, st) \/ CreateManual(s, st)
    \/ \E c \in Enders : EndRead(c) \/ EndClaim(c) \/ CloseCommit(c)
    \/ \E c \in CronWorkers : CronRead(c) \/ CronClaim(c) \/ CloseCommit(c)
    \/ \E c \in Closers : CloserDies(c)

Spec == Init /\ [][Next]_vars

(***************************************************************************)
(* Time passes, the auto-end job is scheduled every minute on each replica *)
(* and runs to its end unless it dies, which it does finitely often.       *)
(* Nothing is assumed of teachers and students.                            *)
(***************************************************************************)
Fairness ==
    /\ WF_vars(Tick)
    /\ \A c \in CronWorkers : WF_vars(CronRead(c)) /\ WF_vars(CronClaim(c))
    /\ \A c \in Closers : WF_vars(CloseCommit(c))
FairSpec == Spec /\ Fairness

-----------------------------------------------------------------------------
(* Properties *)

Checkpoints == {"start", "end"}
Ledger == INSTANCE AttendanceLedger WITH
    Slots   <- Students \X Checkpoints,
    SlotsOf <- [i \in Attempts |-> {Owner[i]} \X Checkpoints],
    phase   <- IF ended THEN "closed" ELSE IF isActive THEN "open" ELSE "scheduled",
    winner  <- [leg \in Students \X Checkpoints |->
                  IF leg[2] = "start" THEN record[leg[1]].checkInAttemptId
                                      ELSE record[leg[1]].checkOutAttemptId]

\* The session opens once and closes once, and each leg of each student is
\* taken at most once, by one attempt of that student, after the session was
\* opened: whatever is armed, regenerated, retried or delivered twice.
ImplementsLedger == Ledger!LedgerSpec

\* An attempt is stored as accepted exactly when a leg of its student's row
\* names it: the attempt and the leg are written together or not at all.
AcceptedAttemptsAreLegs ==
    \A i \in Attempts :
        outcome[i] \in Accepted
        <=> i \in {record[Owner[i]].checkInAttemptId, record[Owner[i]].checkOutAttemptId}

\* No arming or regeneration that was read before the close leaves a token
\* armed, or the session active, after it.
EndedSessionIsDisarmed ==
    ended => ~isActive /\ startQrToken = NoToken /\ endQrToken = NoToken

\* Every undecided row falls into one of the resolver's cases, whether the end
\* counts as armed or not: a disputed check-in is never left on a pending row.
ResolverCasesAreExhaustive ==
    \A s \in Students, armed \in BOOLEAN :
        Undecided(record[s]) => Bucket(record[s], armed) # "no"

\* A status the resolver gave agrees with the legs of the row, although scans
\* commit between listing the rows and updating them.
ResolutionMatchesLegs ==
    \A s \in Students : ~record[s].manuallySet =>
        LET in  == record[s].checkInToken # NoToken
            out == record[s].checkOutToken # NoToken
        IN  /\ record[s].status \in Credited => in /\ record[s].checkInStatus = record[s].status
            /\ record[s].status = "absent" => ~in /\ ~out
            /\ record[s].status = "incomplete" => in # out

\* A row the close left pending holds an accepted scan: nobody who stayed away
\* escapes the absence, including students enrolled while the session closed.
OnlyScannersStayPending ==
    ended => \A s \in Students : Undecided(record[s]) =>
        record[s].checkInToken # NoToken \/ record[s].checkOutToken # NoToken

\* After the close only the teacher gives credit: a scan validated before it
\* and written after it never does.
NoCreditAfterClose ==
    [][\A s \in Students :
         /\ ended /\ record[s].status \notin Credited
         /\ record'[s].status \in Credited
         => record'[s].manuallySet]_vars

\* The auto-end job closes the session only past the deadline it then has,
\* though arming the end moves the deadline between the job's read and claim.
NoEarlyAutoEnd ==
    \A c \in CronWorkers : closer[c].phase = "claimed" => now > autoEndAt

\* Every activated session is eventually closed, although the teacher may
\* never close it, may keep moving the deadline, and closes may die.
ActiveSessionEnds == isActive ~> ended

-----------------------------------------------------------------------------
(* What the documentation promises and the code does not keep *)

\* attendance/resolution.ts: "When the session closes we collapse the two legs
\* into the single status column": no undecided row is left.
ClosedSessionIsResolved == ended => \A s \in Students : ~Undecided(record[s])

\* plan/vulnerability-hardening-plan.md: a check-in without check-out, when the
\* end was armed, resolves to incomplete: the close gives no full credit.
ArmedEndNeedsCheckout ==
    [][\A s \in Students :
         /\ ~ended /\ ended' /\ endGenerated
         /\ Undecided(record[s]) /\ record[s].checkOutToken = NoToken
         => record'[s].status \notin Credited]_vars

\* documentation/PUP_Attendance_System_Plan.md: "A valid offline check-in
\* received [...] after session end is retained as disputed": a scan of the very
\* token that is on a classmate's row, taken in its window, is not refused.
LateOfflineScanIsRetained ==
    \A r \in Requests, s \in Students :
        /\ request[r].phase = "validating" /\ request[r].offline /\ ended
        /\ Owner[request[r].id] \in enrolled
        /\ record[s].checkInToken = request[r].token
        => Verdict(request[r], "good", issuedAt[request[r].token]) # "denied"
=============================================================================
