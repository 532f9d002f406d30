---------------------------- MODULE OfflineSync ----------------------------
(***************************************************************************)
(* What becomes of a scan whose submission met a network error: the device *)
(* keeps it in a queue, a drain sends it to the sync endpoint, a durable   *)
(* job answers it through the same code as a direct submission, and the    *)
(* drain polls the receipt until it may forget the scan.                   *)
(*                                                                         *)
(* One account on one device.  On the web several tabs drain the same      *)
(* queue, each from its own snapshot; on Android one drain runs at a time. *)
(* A job handler may stall, lose its lock and go on while the job is given *)
(* to another one.  What the answer is, is the validator's business and    *)
(* modelled elsewhere: here a scan is accepted or denied.                  *)
(***************************************************************************)
EXTENDS Integers, Sequences, FiniteSets

CONSTANTS
    Scans,      \* scans, each with its clientAttemptId
    Tabs,       \* contexts that may drain the queue: tabs, or the one app
    Handlers,   \* slots of the job worker and of the HTTP server
    Batches,    \* lists of scans that requests carry; a drain sends one at a time
    Attempts,   \* how often a job is tried
    MaxFaults,  \* bound: failures, crashes, lost answers, retries by hand
    None

Range(seq) == {seq[i] : i \in 1..Len(seq)}

ASSUME BatchAssumption == /\ \A b \in Batches : b \in Seq(Scans) /\ b # <<>>
                          /\ \A s \in Scans : <<s>> \in Batches
ASSUME AttemptAssumption == Attempts \in Nat \ {0} /\ MaxFaults \in Nat
ASSUME NoneAssumption == None \notin Scans \cup Handlers

VARIABLES
    platform,  \* which client this is
    phase,     \* a scan's direct submission
    inFlight,  \* direct submissions that have not arrived
    created,   \* the scans ever queued, in the order of createdAt
    row,       \* the scan's row in the queue, by the class of its last error
    told,      \* the verdicts the user has been told
    drain,     \* the drains in progress
    retrying,  \* the scan whose retry by hand is in progress
    job,       \* the job of each batch (its id is a hash of the batch)
    exec,      \* what each handler executes
    attempt,   \* the ScanAttempt row of each scan
    faults

deviceVars == <<platform, phase, inFlight, created, row, told, drain, retrying>>
serverVars == <<job, exec, attempt>>
vars == <<platform, phase, inFlight, created, row, told, drain, retrying, job, exec, attempt, faults>>

Verdicts == {"accepted", "denied"}

Job == [state : {"none", "waiting", "active", "completed", "failed"}, made : 0..Attempts,
        stalled : BOOLEAN, owner : Handlers \cup {None}, results : Seq(Verdicts)]
NoJob == [state |-> "none", made |-> 0, stalled |-> FALSE, owner |-> None, results |-> <<>>]

\* results: the answers so far; fresh: the next scan had no attempt when looked up.
Exec == [work : {"idle", "job", "direct"}, batch : Batches \cup {<<>>},
         results : Seq(Verdicts), fresh : BOOLEAN]
IdleExec == [work |-> "idle", batch |-> <<>>, results |-> <<>>, fresh |-> FALSE]

\* How far a drain has come with one scan, and what else its snapshot holds.
Drain == [at : Scans \cup {None}, todo : SUBSET Scans, sawFailed : BOOLEAN,
          step : {"idle", "post", "add", "poll", "reload", "retryable", "terminal"} \cup Verdicts]
IdleDrain == [at |-> None, todo |-> {}, step |-> "idle", sawFailed |-> FALSE]

TypeOK ==
    /\ platform \in {"android", "web"}
    /\ phase \in [Scans -> {"new", "live", "answered", "queued"}]
    /\ inFlight \subseteq Scans
    /\ created \in Seq(Scans)
    /\ row \in [Scans -> {"none", "queued", "retryable", "terminal"}]
    /\ told \in [Scans -> SUBSET Verdicts]
    /\ drain \in [Tabs -> Drain]
    /\ \A t \in Tabs : drain[t].step = "idle" <=> drain[t].at = None
    /\ retrying \in Scans \cup {None}
    /\ job \in [Batches -> Job]
    /\ exec \in [Handlers -> Exec]
    /\ \A h \in Handlers : exec[h].work = "idle" <=> exec[h].batch = <<>>
    /\ attempt \in [Scans -> Verdicts \cup {"none"}]
    /\ faults \in 0..MaxFaults

Init ==
    /\ platform \in {"android", "web"}
    /\ phase = [s \in Scans |-> "new"] /\ inFlight = {} /\ created = <<>>
    /\ row = [s \in Scans |-> "none"] /\ told = [s \in Scans |-> {}]
    /\ drain = [t \in Tabs |-> IdleDrain] /\ retrying = None
    /\ job = [b \in Batches |-> NoJob]
    /\ exec = [h \in Handlers |-> IdleExec]
    /\ attempt = [s \in Scans |-> "none"]
    /\ faults = 0

Fault == faults < MaxFaults /\ faults' = faults + 1

-----------------------------------------------------------------------------
(* A scan at the device *)

\* The app submits a scan directly; the request may arrive at any later time.
Submit(s) ==
    /\ phase[s] = "new"
    /\ phase' = [phase EXCEPT ![s] = "live"]
    /\ inFlight' = inFlight \cup {s}
    /\ UNCHANGED <<platform, created, row, told, drain, retrying, serverVars, faults>>

\* A network error or a 5xx: the scan, with the same attempt id, is queued.
Capture(s) ==
    /\ phase[s] = "live"
    /\ phase' = [phase EXCEPT ![s] = "queued"]
    /\ created' = Append(created, s)
    /\ row' = [row EXCEPT ![s] = "queued"]
    /\ UNCHANGED <<platform, inFlight, told, drain, retrying, serverVars, faults>>

\* A refused request or, off line, a scan that fails the device's own checks.
GiveUp(s) ==
    /\ phase[s] = "live"
    /\ phase' = [phase EXCEPT ![s] = "answered"]
    /\ UNCHANGED <<platform, inFlight, created, row, told, drain, retrying, serverVars, faults>>

-----------------------------------------------------------------------------
(* The drain of the queue *)

Step(t, step) == drain' = [drain EXCEPT ![t].step = step]

Earlier(s, u) == \E i, j \in 1..Len(created) : i < j /\ created[i] = s /\ created[j] = u

\* On to the oldest of the scans that are left.
GoOn(t, scans) ==
    \/ scans = {} /\ drain' = [drain EXCEPT ![t] = IdleDrain]
    \/ \E s \in scans :
          /\ \A u \in scans \ {s} : Earlier(s, u)
          /\ drain' = [drain EXCEPT ![t] =
                 [at |-> s, todo |-> scans \ {s}, step |-> "post", sawFailed |-> FALSE]]
NextScan(t) == GoOn(t, drain[t].todo)

\* At most one drain per context; on Android that is the only one.  It reads the
\* queue once.
DrainStart(t) ==
    LET rows == {s \in Scans : row[s] \in {"queued", "retryable"}}
    IN  /\ drain[t].step = "idle"
        /\ platform = "android" => \A u \in Tabs : drain[u].step = "idle"
        /\ rows # {}
        /\ GoOn(t, rows)
        /\ UNCHANGED <<platform, phase, inFlight, created, row, told, retrying, serverVars, faults>>

Sent(t) == <<drain[t].at>>

\* POST of the scan: the server looks for the job of this batch ...
EnqueueLook(t) ==
    /\ drain[t].step = "post"
    /\ drain' = [drain EXCEPT ![t].step = "add",
                              ![t].sawFailed = job[Sent(t)].state = "failed"]
    /\ UNCHANGED <<platform, phase, inFlight, created, row, told, retrying, serverVars, faults>>

NewJob == [NoJob EXCEPT !.state = "waiting"]
Retried(j) == [j EXCEPT !.state = "waiting", !.owner = None]

AddOnly(t) ==                       \* faulty: a failed job is not retried
    LET b == Sent(t)
    IN  /\ drain[t].step = "add" /\ Step(t, "poll")
        /\ job' = IF job[b].state = "none" THEN [job EXCEPT ![b] = NewJob] ELSE job
        /\ UNCHANGED <<platform, phase, inFlight, created, row, told, retrying, exec, attempt, faults>>

\* ... retries it if it had failed, and adds it unless it is there.  A job that
\* is no longer in the failed state cannot be retried: 503.
EnqueueAdd(t) ==
    LET b == Sent(t)
        j == job[b]
    IN  /\ drain[t].step = "add"
        /\ CASE drain[t].sawFailed /\ j.state # "failed" -> Step(t, "retryable") /\ UNCHANGED job
             [] drain[t].sawFailed /\ j.state = "failed" ->
                  Step(t, "poll") /\ job' = [job EXCEPT ![b] = Retried(j)]
             [] OTHER -> /\ Step(t, "poll")
                         /\ job' = IF j.state = "none" THEN [job EXCEPT ![b] = NewJob] ELSE job
        /\ UNCHANGED <<platform, phase, inFlight, created, row, told, retrying, exec, attempt, faults>>

\* GET of the receipt.  An unknown receipt is 404, which the client takes for
\* final; the web takes a failed job for an error, Android for "not yet".
PollLook(t) ==
    LET state == job[Sent(t)].state
    IN  /\ drain[t].step = "poll"
        /\ CASE state = "none" -> Step(t, "terminal")
             [] state = "completed" -> Step(t, "reload")
             [] state = "failed" /\ platform = "web" -> Step(t, "retryable")
             [] OTHER -> NextScan(t)
        /\ UNCHANGED <<platform, phase, inFlight, created, row, told, retrying, serverVars, faults>>

\* The job is read again, and its results are the answer if it has any.
PollReload(t) ==
    LET j == job[Sent(t)]
    IN  /\ drain[t].step = "reload"
        /\ IF j.state = "completed" THEN Step(t, j.results[1]) ELSE NextScan(t)
        /\ UNCHANGED <<platform, phase, inFlight, created, row, told, retrying, serverVars, faults>>

\* The connection fails, times out or answers 401, 429 or 5xx.
Lost(t) ==
    /\ drain[t].step \in {"post", "add", "poll", "reload"} /\ Fault
    /\ Step(t, "retryable")
    /\ UNCHANGED <<platform, phase, inFlight, created, row, told, retrying, serverVars>>

\* The server refuses the request itself: 400, 403, 410, 422.
Refused(t) ==
    /\ drain[t].step \in {"post", "poll"} /\ Fault
    /\ Step(t, "terminal")
    /\ UNCHANGED <<platform, phase, inFlight, created, row, told, retrying, serverVars>>

\* The web puts the whole row back, Android updates it if it is there.
PutRow(s, state) ==
    row' = IF platform = "web" \/ row[s] # "none" THEN [row EXCEPT ![s] = state] ELSE row

ForgetRowEither(t) ==               \* faulty: a rejection also deletes the row
    LET s == drain[t].at
    IN  /\ drain[t].step \in Verdicts
        /\ row' = [row EXCEPT ![s] = "none"]
        /\ told' = [told EXCEPT ![s] = @ \cup {drain[t].step}]
        /\ NextScan(t)
        /\ UNCHANGED <<platform, phase, inFlight, created, retrying, serverVars, faults>>

\* An accepted scan leaves the queue; a denied one stays, set aside.
WriteVerdict(t) ==
    LET s == drain[t].at
    IN  /\ drain[t].step \in Verdicts
        /\ IF drain[t].step = "accepted" THEN row' = [row EXCEPT ![s] = "none"]
                                         ELSE PutRow(s, "terminal")
        /\ told' = [told EXCEPT ![s] = @ \cup {drain[t].step}]
        /\ NextScan(t)
        /\ UNCHANGED <<platform, phase, inFlight, created, retrying, serverVars, faults>>

\* A scan refused without a verdict is set aside as well; after an error that
\* may pass, the drain stops at this scan.
WriteError(t) ==
    /\ drain[t].step \in {"terminal", "retryable"}
    /\ PutRow(drain[t].at, drain[t].step)
    /\ IF drain[t].step = "terminal" THEN NextScan(t) ELSE drain' = [drain EXCEPT ![t] = IdleDrain]
    /\ UNCHANGED <<platform, phase, inFlight, created, told, retrying, serverVars, faults>>

\* The tab is closed or the app killed.  The queue is on disk.
Kill(t) ==
    /\ drain[t].step # "idle" /\ Fault
    /\ drain' = [drain EXCEPT ![t] = IdleDrain]
    /\ UNCHANGED <<platform, phase, inFlight, created, row, told, retrying, serverVars>>

\* The user retries a scan that was set aside: the row is read, then written.
RetryRead(s) ==
    /\ row[s] = "terminal" /\ retrying = None /\ Fault
    /\ retrying' = s
    /\ UNCHANGED <<platform, phase, inFlight, created, row, told, drain, serverVars>>
RetryWrite ==
    /\ retrying # None
    /\ PutRow(retrying, "queued")
    /\ retrying' = None
    /\ UNCHANGED <<platform, phase, inFlight, created, told, drain, serverVars, faults>>

-----------------------------------------------------------------------------
(* The server: the job queue and processScanSubmission *)

\* Another client of the endpoint sends several scans at once.
PostBatch(b) ==
    /\ Len(b) > 1 /\ \A s \in Range(b) : phase[s] = "queued"
    /\ job[b].state = "none"
    /\ job' = [job EXCEPT ![b] = NewJob]
    /\ UNCHANGED <<deviceVars, exec, attempt, faults>>

Take(h, b) ==
    /\ exec[h].work = "idle" /\ job[b].state = "waiting"
    /\ job' = [job EXCEPT ![b].state = "active", ![b].owner = h]
    /\ exec' = [exec EXCEPT ![h] = [IdleExec EXCEPT !.work = "job", !.batch = b]]
    /\ UNCHANGED <<deviceVars, attempt, faults>>

\* The direct submission arrives, once; the device may have stopped waiting.
TakeDirect(h, s) ==
    /\ exec[h].work = "idle" /\ s \in inFlight
    /\ inFlight' = inFlight \ {s}
    /\ exec' = [exec EXCEPT ![h] = [IdleExec EXCEPT !.work = "direct", !.batch = <<s>>]]
    /\ UNCHANGED <<platform, phase, created, row, told, drain, retrying, job, attempt, faults>>

Pending(h) == exec[h].work # "idle" /\ Len(exec[h].results) < Len(exec[h].batch)
Current(h) == exec[h].batch[Len(exec[h].results) + 1]
Answer(h, v) == exec' = [exec EXCEPT ![h].results = Append(@, v), ![h].fresh = FALSE]

\* findReplay: an attempt that is known is answered as it was.
Replay(h) ==
    /\ Pending(h) /\ ~exec[h].fresh
    /\ IF attempt[Current(h)] = "none" THEN exec' = [exec EXCEPT ![h].fresh = TRUE]
                                       ELSE Answer(h, attempt[Current(h)])
    /\ UNCHANGED <<deviceVars, job, attempt, faults>>

\* The transaction that credits the scan.  If the attempt exists by now its
\* unique key fails (P2002) and an accepted one is replayed.
Accept(h) ==
    /\ Pending(h) /\ exec[h].fresh
    /\ attempt[Current(h)] # "denied"
    /\ attempt' = [attempt EXCEPT ![Current(h)] = "accepted"]
    /\ Answer(h, "accepted")
    /\ UNCHANGED <<deviceVars, job, faults>>

\* A rejection is recorded unless the attempt exists by now, and answered.
Deny(h) ==
    /\ Pending(h) /\ exec[h].fresh
    /\ attempt' = [attempt EXCEPT ![Current(h)] = IF @ = "none" THEN "denied" ELSE @]
    /\ Answer(h, "denied")
    /\ UNCHANGED <<deviceVars, job, faults>>

Owns(h) == exec[h].work = "job" /\ job[exec[h].batch].state = "active" /\ job[exec[h].batch].owner = h

\* A failed execution counts; the job is tried again, later, or has failed.
Failed(j) == [j EXCEPT !.state = IF j.made + 1 < Attempts THEN "waiting" ELSE "failed",
                       !.made = IF j.made < Attempts THEN j.made + 1 ELSE j.made, !.owner = None]

AbortCompletes(h) ==               \* faulty: an exception ends the loop, not the job
    /\ job' = IF Owns(h) THEN [job EXCEPT ![exec[h].batch] = [@ EXCEPT !.state = "completed", !.owner = None,
                                                                        !.results = exec[h].results]]
                         ELSE job
    /\ exec' = [exec EXCEPT ![h] = IdleExec]
Abort(h) ==
    /\ job' = IF Owns(h) THEN [job EXCEPT ![exec[h].batch] = Failed(@)] ELSE job
    /\ exec' = [exec EXCEPT ![h] = IdleExec]

\* processScanSubmission throws: the database fails, the device is cooling
\* down, the student has left; or the attempt turned out to be denied (P2002).
Throw(h) ==
    /\ Pending(h) /\ Fault /\ Abort(h)
    /\ UNCHANGED <<deviceVars, attempt>>
AcceptFails(h) ==
    /\ Pending(h) /\ exec[h].fresh /\ attempt[Current(h)] = "denied" /\ Abort(h)
    /\ UNCHANGED <<deviceVars, attempt, faults>>

Done(h) == exec[h].work # "idle" /\ Len(exec[h].results) = Len(exec[h].batch)

FinishUnlocked(h) ==                \* faulty: a handler completes a job it has lost
    /\ Done(h) /\ exec[h].work = "job"
    /\ job' = [job EXCEPT ![exec[h].batch] = [@ EXCEPT !.state = "completed", !.owner = None,
                                                        !.results = exec[h].results]]
    /\ exec' = [exec EXCEPT ![h] = IdleExec]
    /\ UNCHANGED <<deviceVars, attempt, faults>>

\* Only the handler that holds the job's lock completes it.
FinishJob(h) ==
    /\ Done(h) /\ exec[h].work = "job"
    /\ job' = IF Owns(h)
              THEN [job EXCEPT ![exec[h].batch] = [@ EXCEPT !.state = "completed", !.owner = None,
                                                            !.results = exec[h].results]]
              ELSE job
    /\ exec' = [exec EXCEPT ![h] = IdleExec]
    /\ UNCHANGED <<deviceVars, attempt, faults>>

\* The answer to a direct submission counts if the device still waits for it.
FinishDirect(h) ==
    LET s == exec[h].batch[1]
    IN  /\ Done(h) /\ exec[h].work = "direct"
        /\ exec' = [exec EXCEPT ![h] = IdleExec]
        /\ IF phase[s] = "live"
           THEN /\ phase' = [phase EXCEPT ![s] = "answered"]
                /\ told' = [told EXCEPT ![s] = @ \cup {exec[h].results[1]}]
           ELSE UNCHANGED <<phase, told>>
        /\ UNCHANGED <<platform, inFlight, created, row, drain, retrying, job, attempt, faults>>

Crash(h) ==
    /\ exec[h].work # "idle" /\ Fault
    /\ exec' = [exec EXCEPT ![h] = IdleExec]
    /\ UNCHANGED <<deviceVars, job, attempt>>

\* The lock of an active job has expired: once it is given back, twice it fails.
Lapsed(j) == [j EXCEPT !.state = IF j.stalled THEN "failed" ELSE "waiting",
                       !.stalled = TRUE, !.owner = None]
Executing(b) == exec[job[b].owner].work = "job" /\ exec[job[b].owner].batch = b

\* Its handler is gone, or has stalled and does not know.
StalledCheck(b) ==
    /\ job[b].state = "active" /\ ~Executing(b)
    /\ job' = [job EXCEPT ![b] = Lapsed(@)]
    /\ UNCHANGED <<deviceVars, exec, attempt, faults>>
LoseLock(b) ==
    /\ job[b].state = "active" /\ Executing(b) /\ Fault
    /\ job' = [job EXCEPT ![b] = Lapsed(@)]
    /\ UNCHANGED <<deviceVars, exec, attempt>>

\* Finished jobs are removed when they are old or many.
Remove(b) ==
    /\ job[b].state \in {"completed", "failed"} /\ Fault
    /\ job' = [job EXCEPT ![b] = NoJob]
    /\ UNCHANGED <<deviceVars, exec, attempt>>

-----------------------------------------------------------------------------

DeviceStep(s) == Submit(s) \/ Capture(s) \/ GiveUp(s) \/ RetryRead(s)
DrainStep(t) == \/ EnqueueLook(t) \/ EnqueueAdd(t) \/ PollLook(t) \/ PollReload(t)
                \/ WriteVerdict(t) \/ WriteError(t)
HandlerStep(h) == \/ Replay(h) \/ Accept(h) \/ Deny(h) \/ AcceptFails(h)
                  \/ FinishJob(h) \/ FinishDirect(h)

Next ==
    \/ \E s \in Scans : DeviceStep(s)
    \/ RetryWrite
    \/ \E t \in Tabs : DrainStart(t) \/ DrainStep(t) \/ Lost(t) \/ Refused(t) \/ Kill(t)
    \/ \E h \in Handlers, b \in Batches : Take(h, b)
    \/ \E h \in Handlers, s \in Scans : TakeDirect(h, s)
    \/ \E h \in Handlers : HandlerStep(h) \/ Throw(h) \/ Crash(h)
    \/ \E b \in Batches : PostBatch(b) \/ StalledCheck(b) \/ LoseLock(b) \/ Remove(b)

\* Drains are started by a timer, jobs by the worker's loop, stalled jobs by its
\* check; a handler that runs comes to an end.  The user need not do anything.
Fairness ==
    /\ \A t \in Tabs : WF_vars(DrainStart(t) \/ DrainStep(t))
    /\ \A b \in Batches : WF_vars(\E h \in Handlers : Take(h, b)) /\ WF_vars(StalledCheck(b))
    /\ \A h \in Handlers : WF_vars(HandlerStep(h))

Spec == Init /\ [][Next]_vars
FairSpec == Spec /\ Fairness

-----------------------------------------------------------------------------
(* Properties *)

\* A scan leaves the queue only when the server holds an accepted attempt for it
\* and the user has been told so: whatever is lost, killed or removed, evidence
\* is kept until then ("Clients retain evidence until status() returns completed").
NothingIsLost ==
    \A s \in Scans : phase[s] = "queued" /\ row[s] = "none" =>
        attempt[s] = "accepted" /\ "accepted" \in told[s]

\* A completed job answers each scan of its batch, in order, and an accepted
\* answer is backed by the attempt, whichever of several executions gave it.
CompletedJobsAnswer ==
    \A b \in Batches : job[b].state = "completed" =>
        /\ Len(job[b].results) = Len(b)
        /\ \A i \in 1..Len(b) : /\ attempt[b[i]] # "none"
                                /\ job[b].results[i] = "accepted" => attempt[b[i]] = "accepted"

\* The answer of a completed job does not change, though several handlers may
\* have executed it and answered differently: the device may have acted on it.
AnswersAreFinal ==
    [][\A b \in Batches : job[b].state = "completed" =>
          job'[b] = NoJob \/ (job'[b].state = "completed" /\ job'[b].results = job[b].results)]_vars

\* "Terminal evidence will never sync": a scan whose rejection the user has been
\* told is not credited.  It may be: a rejection that is late to be recorded is
\* answered though another execution of the same attempt was accepted.
RejectedIsNotCredited == \A s \in Scans : "denied" \in told[s] => attempt[s] # "accepted"

\* Once failures cease, every queued scan is confirmed or set aside.
QueueDrains == \A s \in Scans : phase[s] = "queued" ~> row[s] \in {"none", "terminal"}
=============================================================================
