--------------------------- MODULE EvidenceProofs ---------------------------
(***************************************************************************)
(* Proofs about what becomes of a student's evidence, for every set of     *)
(* scans, tabs, handlers and batches, and every number of tries and        *)
(* faults: about OfflineSync, which brings a scan from the device to an    *)
(* attempt on the server, and, in its last part, about RecordReview, where *)
(* the record it left meets the people who may decide about it, with every *)
(* number of requests, reviewers and submissions that overlap.             *)
(***************************************************************************)
EXTENDS OfflineSync, RecordReview, TLAPS

\* What an accepted answer or a verdict rests on.
Backed(s, verdict) == attempt[s] # "none" /\ (verdict = "accepted" => attempt[s] = "accepted")

\* A drain that was answered "accepted" holds a scan with an accepted attempt.
DrainsAreBacked ==
    \A t \in Tabs : drain[t].step = "accepted" => attempt[drain[t].at] = "accepted"

\* Every answer an execution has collected is backed, whoever holds its job by now.
BackedExecution(h) ==
    /\ Len(exec[h].results) <= Len(exec[h].batch)
    /\ \A i \in 1..Len(exec[h].results) : Backed(exec[h].batch[i], exec[h].results[i])
ExecutionsAreBacked == \A h \in Handlers : BackedExecution(h)

IInv == TypeOK /\ ExecutionsAreBacked /\ CompletedJobsAnswer /\ DrainsAreBacked /\ NothingIsLost

-----------------------------------------------------------------------------
(* Types *)

LEMMA Constants ==
    /\ None \notin Scans /\ None \notin Handlers /\ Attempts \in Nat /\ 1 <= Attempts
    /\ MaxFaults \in Nat
    /\ \A b \in Batches : b \in Seq(Scans) /\ b # <<>> /\ Len(b) \in Nat \ {0}
    /\ \A s \in Scans : <<s>> \in Batches
<1>1. \A b \in Batches : b \in Seq(Scans) /\ b # <<>>
    BY BatchAssumption
<1>2. \A b \in Batches : Len(b) \in Nat \ {0}
    BY <1>1
<1> QED BY <1>1, <1>2, BatchAssumption, AttemptAssumption, NoneAssumption

LEMMA IdleTypes ==
    /\ NoJob \in Job /\ NoJob.state = "none" /\ NewJob \in Job /\ NewJob.state = "waiting"
    /\ IdleExec \in Exec /\ IdleExec.work = "idle" /\ IdleExec.batch = <<>> /\ IdleExec.results = <<>>
    /\ IdleDrain \in Drain /\ IdleDrain.step = "idle" /\ IdleDrain.at = None
<1>1. <<>> \in Seq(Verdicts)
    OBVIOUS
<1>2. NoJob \in Job /\ NoJob.state = "none"
    BY <1>1, Constants DEF NoJob, Job
<1>3. NewJob \in Job /\ NewJob.state = "waiting"
    BY <1>2 DEF NewJob, Job
<1>4. IdleExec \in Exec /\ IdleExec.work = "idle" /\ IdleExec.batch = <<>> /\ IdleExec.results = <<>>
    BY <1>1 DEF IdleExec, Exec
<1>5. IdleDrain \in Drain /\ IdleDrain.step = "idle" /\ IdleDrain.at = None
    BY DEF IdleDrain, Drain
<1> QED BY <1>2, <1>3, <1>4, <1>5

LEMMA InitInvariant == Init => IInv
<1> SUFFICES ASSUME Init PROVE IInv
    OBVIOUS
<1>1. TypeOK
    BY IdleTypes, Constants DEF Init, TypeOK
<1>2. ExecutionsAreBacked /\ CompletedJobsAnswer
    BY IdleTypes DEF Init, ExecutionsAreBacked, BackedExecution, CompletedJobsAnswer
<1>3. DrainsAreBacked /\ NothingIsLost
    BY IdleTypes DEF Init, DrainsAreBacked, NothingIsLost
<1> QED BY <1>1, <1>2, <1>3 DEF IInv

\* The scan a drain is at, and those an execution has answered, are scans.
LEMMA DrainingScan ==
    ASSUME TypeOK, NEW t \in Tabs, drain[t].step # "idle"
    PROVE  drain[t].at \in Scans /\ Sent(t) \in Batches
BY Constants DEF TypeOK, Drain, Sent

LEMMA ExecutedScan ==
    ASSUME IInv, NEW h \in Handlers, NEW i \in 1..Len(exec[h].batch)
    PROVE  exec[h].batch \in Batches /\ exec[h].batch[i] \in Scans
<1>1. exec[h] \in Exec
    BY DEF IInv, TypeOK
<1>2. exec[h].batch \in Batches
    BY <1>1 DEF Exec
<1> QED BY <1>2, Constants

LEMMA ExecLengths ==
    ASSUME TypeOK, NEW h \in Handlers
    PROVE  /\ exec[h] \in Exec
           /\ exec[h].results \in Seq(Verdicts) /\ Len(exec[h].results) \in Nat
           /\ exec[h].batch \in Seq(Scans) /\ Len(exec[h].batch) \in Nat
<1>1. exec[h] \in Exec
    BY DEF TypeOK
<1>2. exec[h].results \in Seq(Verdicts) /\ exec[h].batch \in Seq(Scans)
  <2>1. <<>> \in Seq(Scans)
      OBVIOUS
  <2> QED BY <1>1, <2>1, Constants DEF Exec
<1> QED BY <1>1, <1>2

LEMMA FaultType == ASSUME TypeOK, Fault PROVE faults' \in 0..MaxFaults
BY Constants DEF TypeOK, Fault

-----------------------------------------------------------------------------
(* What keeps each part of the invariant *)

\* An attempt that exists stays, and an accepted one stays accepted.
AttemptsGrow ==
    \A s \in Scans : /\ attempt[s] # "none" => attempt'[s] # "none"
                     /\ attempt[s] = "accepted" => attempt'[s] = "accepted"

LEMMA ExecutionsStay ==
    ASSUME IInv, AttemptsGrow, UNCHANGED exec
    PROVE  ExecutionsAreBacked'
<1> SUFFICES ASSUME NEW h \in Handlers, NEW i \in 1..Len(exec[h].results)
             PROVE  Backed(exec[h].batch[i], exec[h].results[i])'
    BY DEF IInv, ExecutionsAreBacked, BackedExecution, Backed
<1>1. Len(exec[h].results) \in Nat /\ Len(exec[h].batch) \in Nat
    BY ExecLengths
<1>2. exec[h].batch[i] \in Scans
    BY <1>1, ExecutedScan DEF IInv, ExecutionsAreBacked, BackedExecution
<1> QED BY <1>2 DEF IInv, ExecutionsAreBacked, BackedExecution, Backed, AttemptsGrow

\* A job that is completed was so already, with the same answer.
LEMMA CompletedStay ==
    ASSUME IInv, AttemptsGrow,
           \A b \in Batches : job'[b].state = "completed" =>
               job[b].state = "completed" /\ job'[b].results = job[b].results
    PROVE  CompletedJobsAnswer'
<1> SUFFICES ASSUME NEW b \in Batches, job'[b].state = "completed"
             PROVE  /\ Len(job'[b].results) = Len(b)
                    /\ \A i \in 1..Len(b) : /\ attempt'[b[i]] # "none"
                                            /\ job'[b].results[i] = "accepted" => attempt'[b[i]] = "accepted"
    BY DEF CompletedJobsAnswer
<1>1. \A i \in 1..Len(b) : b[i] \in Scans
    BY Constants
<1> QED BY <1>1 DEF IInv, CompletedJobsAnswer, AttemptsGrow

\* Nothing leaves the queue.
LEMMA QueueStays ==
    ASSUME IInv, AttemptsGrow, \A s \in Scans : told[s] \subseteq told'[s],
           \A s \in Scans : phase'[s] = "queued" /\ row'[s] = "none" =>
                            phase[s] = "queued" /\ row[s] = "none"
    PROVE  NothingIsLost'
BY DEF IInv, NothingIsLost, AttemptsGrow

\* No drain is given the answer "accepted".
LEMMA DrainsStay ==
    ASSUME IInv, AttemptsGrow,
           \A t \in Tabs : drain'[t].step = "accepted" =>
               drain[t].step = "accepted" /\ drain'[t].at = drain[t].at
    PROVE  DrainsAreBacked'
<1> SUFFICES ASSUME NEW t \in Tabs, drain'[t].step = "accepted"
             PROVE  attempt'[drain'[t].at] = "accepted"
    BY DEF DrainsAreBacked
<1>1. drain[t].at \in Scans
    BY DrainingScan DEF IInv
<1> QED BY <1>1 DEF IInv, DrainsAreBacked, AttemptsGrow

LEMMA SameAttempts == attempt' = attempt => AttemptsGrow
BY DEF AttemptsGrow

-----------------------------------------------------------------------------
(* The device *)

LEMMA DeviceStepKeeps ==
    ASSUME IInv, (\E s \in Scans : DeviceStep(s)) \/ RetryWrite
    PROVE  IInv'
<1>1. UNCHANGED <<platform, told, drain, job, exec, attempt>>
    BY DEF DeviceStep, Submit, Capture, GiveUp, RetryRead, RetryWrite, serverVars
<1>2. TypeOK'
  <2>1. ASSUME NEW s \in Scans, Submit(s) \/ GiveUp(s) PROVE TypeOK'
      BY <2>1, <1>1 DEF Submit, GiveUp, IInv, TypeOK
  <2>2. ASSUME NEW s \in Scans, Capture(s) PROVE TypeOK'
    <3>1. created' \in Seq(Scans)
        BY <2>2 DEF Capture, IInv, TypeOK
    <3> QED BY <2>2, <1>1, <3>1 DEF Capture, IInv, TypeOK
  <2>3. ASSUME NEW s \in Scans, RetryRead(s) PROVE TypeOK'
      BY <2>3, <1>1, FaultType DEF RetryRead, IInv, TypeOK
  <2>4. CASE RetryWrite
      BY <2>4, <1>1 DEF RetryWrite, PutRow, IInv, TypeOK
  <2> QED BY <2>1, <2>2, <2>3, <2>4 DEF DeviceStep
<1>3. \A s \in Scans : phase'[s] = "queued" /\ row'[s] = "none" =>
                       phase[s] = "queued" /\ row[s] = "none"
  <2>1. ASSUME NEW s \in Scans, DeviceStep(s)
        PROVE  \A u \in Scans : phase'[u] = "queued" /\ row'[u] = "none" =>
                                phase[u] = "queued" /\ row[u] = "none"
      BY <2>1 DEF DeviceStep, Submit, Capture, GiveUp, RetryRead, IInv, TypeOK
  <2>2. RetryWrite => \A u \in Scans : row'[u] = "none" => row[u] = "none"
      BY DEF RetryWrite, PutRow, IInv, TypeOK
  <2>3. RetryWrite => phase' = phase
      BY DEF RetryWrite
  <2> QED BY <2>1, <2>2, <2>3
<1> QED BY <1>1, <1>2, <1>3, SameAttempts, ExecutionsStay, CompletedStay, QueueStays, DrainsStay DEF IInv

-----------------------------------------------------------------------------
(* The drains *)

DrainOK == drain \in [Tabs -> Drain] /\ \A t \in Tabs : drain[t].step = "idle" <=> drain[t].at = None

\* A drain that takes another step with its scan.
LEMMA StepType ==
    ASSUME TypeOK, NEW t \in Tabs, drain[t].step # "idle",
           NEW step \in {"add", "poll", "reload", "retryable", "terminal"} \cup Verdicts, Step(t, step)
    PROVE  /\ DrainOK'
           /\ drain'[t].step = step /\ drain'[t].at = drain[t].at
           /\ \A u \in Tabs \ {t} : drain'[u] = drain[u]
<1>1. drain \in [Tabs -> Drain] /\ DrainOK
    BY DEF TypeOK, DrainOK
<1>2. [drain[t] EXCEPT !.step = step] \in Drain
    BY <1>1 DEF Drain
<1>3. step # "idle"
    BY DEF Verdicts
<1> QED BY <1>1, <1>2, <1>3 DEF Step, DrainOK, Drain

\* A drain that goes on has no answer yet.
LEMMA GoOnType ==
    ASSUME TypeOK, NEW t \in Tabs, NEW scans \in SUBSET Scans, GoOn(t, scans)
    PROVE  /\ DrainOK'
           /\ \A u \in Tabs : drain'[u].step = "accepted" => drain'[u] = drain[u]
<1>1. drain \in [Tabs -> Drain] /\ DrainOK
    BY DEF TypeOK, DrainOK
<1>2. PICK d \in Drain : /\ drain' = [drain EXCEPT ![t] = d]
                         /\ d.step \in {"idle", "post"} /\ (d.step = "idle" <=> d.at = None)
  <2>1. CASE drain' = [drain EXCEPT ![t] = IdleDrain]
      BY <2>1, IdleTypes
  <2>2. CASE \E s \in scans : drain' = [drain EXCEPT ![t] =
                 [at |-> s, todo |-> scans \ {s}, step |-> "post", sawFailed |-> FALSE]]
    <3>1. PICK s \in scans : drain' = [drain EXCEPT ![t] =
                 [at |-> s, todo |-> scans \ {s}, step |-> "post", sawFailed |-> FALSE]]
        BY <2>2
    <3>2. [at |-> s, todo |-> scans \ {s}, step |-> "post", sawFailed |-> FALSE] \in Drain
        BY DEF Drain
    <3> QED BY <3>1, <3>2, Constants
  <2> QED BY <2>1, <2>2 DEF GoOn
<1> QED BY <1>1, <1>2 DEF DrainOK

LEMMA NextScanType ==
    ASSUME TypeOK, NEW t \in Tabs, NextScan(t)
    PROVE  /\ DrainOK'
           /\ \A u \in Tabs : drain'[u].step = "accepted" => drain'[u] = drain[u]
<1>1. drain[t].todo \in SUBSET Scans
    BY DEF TypeOK, Drain
<1> QED BY <1>1, GoOnType DEF NextScan

LEMMA DrainEndsType ==
    ASSUME TypeOK, NEW t \in Tabs, drain' = [drain EXCEPT ![t] = IdleDrain]
    PROVE  /\ DrainOK'
           /\ \A u \in Tabs : drain'[u].step = "accepted" => drain'[u] = drain[u]
<1>1. GoOn(t, {})
    BY DEF GoOn
<1> QED BY <1>1, GoOnType

\* The steps of a drain that only ask: they end with a verdict only at a completed job.
LEMMA AskingKeeps ==
    ASSUME IInv, NEW t \in Tabs,
           UNCHANGED <<platform, phase, inFlight, created, row, told, retrying, serverVars>>,
           faults' \in 0..MaxFaults, DrainOK',
           \A u \in Tabs : drain'[u].step = "accepted" =>
               drain'[u].at = drain[u].at /\ (drain[u].step = "accepted" \/ attempt[drain[u].at] = "accepted")
    PROVE  IInv'
<1>1. TypeOK'
    BY DEF IInv, TypeOK, DrainOK, serverVars
<1>2. DrainsAreBacked'
    BY DEF IInv, DrainsAreBacked, serverVars
<1> QED BY <1>1, <1>2, SameAttempts, ExecutionsStay, CompletedStay, QueueStays DEF IInv, serverVars

\* The answer of a completed job about one scan.
LEMMA ReloadedAnswer ==
    ASSUME IInv, NEW t \in Tabs, drain[t].step # "idle", job[Sent(t)].state = "completed"
    PROVE  /\ job[Sent(t)].results[1] \in Verdicts
           /\ job[Sent(t)].results[1] = "accepted" => attempt[drain[t].at] = "accepted"
<1>1. Sent(t) \in Batches
    BY DrainingScan DEF IInv
<1>2. job[Sent(t)].results \in Seq(Verdicts)
    BY <1>1 DEF IInv, TypeOK, Job
<1>3. Len(Sent(t)) = 1 /\ Sent(t)[1] = drain[t].at
    BY DEF Sent
<1>4. Len(job[Sent(t)].results) = 1
    BY <1>1, <1>3 DEF IInv, CompletedJobsAnswer
<1>5. job[Sent(t)].results[1] = "accepted" => attempt[drain[t].at] = "accepted"
    BY <1>1, <1>3 DEF IInv, CompletedJobsAnswer
<1> QED BY <1>2, <1>4, <1>5

LEMMA AskingActions ==
    ASSUME IInv, NEW t \in Tabs,
           DrainStart(t) \/ EnqueueLook(t) \/ PollLook(t) \/ PollReload(t) \/ Lost(t) \/ Refused(t) \/ Kill(t)
    PROVE  IInv'
<1>0. TypeOK /\ faults \in 0..MaxFaults
    BY DEF IInv, TypeOK
<1> USE DEF serverVars
<1>1. CASE DrainStart(t)
    BY <1>0, <1>1, GoOnType, AskingKeeps DEF DrainStart
<1>2. CASE EnqueueLook(t)
  <2> DEFINE d == [drain[t] EXCEPT !.step = "add", !.sawFailed = job[Sent(t)].state = "failed"]
  <2>1. drain' = [drain EXCEPT ![t] = d]
      BY <1>2 DEF EnqueueLook
  <2>2. d \in Drain /\ d.step = "add" /\ d.at = drain[t].at
      BY <1>0 DEF TypeOK, Drain
  <2>3. drain[t].step # "idle"
      BY <1>2 DEF EnqueueLook
  <2>4. DrainOK' /\ \A u \in Tabs : drain'[u].step = "accepted" => drain'[u] = drain[u]
      BY <1>0, <2>1, <2>2, <2>3 DEF TypeOK, DrainOK
  <2> QED BY <1>0, <1>2, <2>4, AskingKeeps DEF EnqueueLook
<1>3. CASE PollLook(t)
  <2>1. CASE NextScan(t)
      BY <1>0, <1>3, <2>1, NextScanType, AskingKeeps DEF PollLook
  <2>2. ASSUME NEW step \in {"terminal", "reload", "retryable"}, Step(t, step) PROVE IInv'
      BY <1>0, <1>3, <2>2, StepType, AskingKeeps DEF PollLook
  <2> QED BY <1>3, <2>1, <2>2 DEF PollLook
<1>4. CASE PollReload(t)
  <2>1. CASE NextScan(t)
      BY <1>0, <1>4, <2>1, NextScanType, AskingKeeps DEF PollReload
  <2>2. CASE job[Sent(t)].state = "completed" /\ Step(t, job[Sent(t)].results[1])
    <3>1. drain[t].step # "idle"
        BY <1>4 DEF PollReload
    <3> DEFINE step == job[Sent(t)].results[1]
    <3>2. step \in Verdicts /\ (step = "accepted" => attempt[drain[t].at] = "accepted")
        BY <2>2, <3>1, ReloadedAnswer
    <3>3. /\ DrainOK' /\ drain'[t].step = step /\ drain'[t].at = drain[t].at
          /\ \A u \in Tabs \ {t} : drain'[u] = drain[u]
        BY <1>0, <2>2, <3>1, <3>2, StepType
    <3> HIDE DEF step
    <3> QED BY <1>0, <1>4, <3>2, <3>3, AskingKeeps DEF PollReload
  <2> QED BY <1>4, <2>1, <2>2 DEF PollReload
<1>5. CASE Lost(t)
    BY <1>0, <1>5, StepType, FaultType, AskingKeeps DEF Lost
<1>6. CASE Refused(t)
    BY <1>0, <1>6, StepType, FaultType, AskingKeeps DEF Refused
<1>7. CASE Kill(t)
    BY <1>0, <1>7, DrainEndsType, FaultType, AskingKeeps DEF Kill
<1> QED BY <1>1, <1>2, <1>3, <1>4, <1>5, <1>6, <1>7

\* A job that is added or retried was not completed.
LEMMA EnqueueAddKeeps == ASSUME IInv, NEW t \in Tabs, EnqueueAdd(t) PROVE IInv'
<1>0. TypeOK /\ drain[t].step # "idle"
    BY DEF IInv, EnqueueAdd
<1>1. Sent(t) \in Batches /\ job \in [Batches -> Job]
    BY <1>0, DrainingScan DEF TypeOK
<1>2. UNCHANGED <<platform, phase, inFlight, created, row, told, retrying, exec, attempt, faults>>
    BY DEF EnqueueAdd
<1>3. Step(t, "retryable") \/ Step(t, "poll")
    BY DEF EnqueueAdd
<1>4. /\ DrainOK'
      /\ \A u \in Tabs : drain'[u].step = "accepted" => drain'[u] = drain[u]
    BY <1>0, <1>3, StepType
<1>5. PICK j \in Job : /\ job' = [job EXCEPT ![Sent(t)] = j]
                       /\ j = job[Sent(t)] \/ j.state # "completed"
  <2>1. Retried(job[Sent(t)]) \in Job /\ Retried(job[Sent(t)]).state = "waiting"
      BY <1>1 DEF Retried, Job
  <2>2. job' = [job EXCEPT ![Sent(t)] = @] \/ job' = [job EXCEPT ![Sent(t)] = NewJob]
          \/ job' = [job EXCEPT ![Sent(t)] = Retried(@)]
      BY <1>1 DEF EnqueueAdd
  <2> QED BY <1>1, <2>1, <2>2, IdleTypes
<1>6. job' \in [Batches -> Job]
    BY <1>1, <1>5
<1>7. TypeOK'
    BY <1>0, <1>2, <1>4, <1>6 DEF TypeOK, DrainOK
<1>8. CompletedJobsAnswer'
    BY <1>1, <1>2, <1>5, SameAttempts, CompletedStay
<1> QED BY <1>2, <1>4, <1>7, <1>8, SameAttempts, ExecutionsStay, QueueStays, DrainsStay DEF IInv

\* Only an accepted verdict, which is backed and told, takes a row out of the queue.
LEMMA WriteVerdictKeeps == ASSUME IInv, NEW t \in Tabs, WriteVerdict(t) PROVE IInv'
<1> DEFINE s == drain[t].at
<1>0. TypeOK /\ drain[t].step # "idle" /\ drain[t].step \in Verdicts
    BY DEF IInv, WriteVerdict, Verdicts
<1>1. s \in Scans
    BY <1>0, DrainingScan
<1> HIDE DEF s
<1>2. /\ UNCHANGED <<platform, phase, inFlight, created, retrying, job, exec, attempt, faults>>
      /\ told' = [told EXCEPT ![s] = @ \cup {drain[t].step}]
      /\ NextScan(t)
    BY DEF WriteVerdict, serverVars, s
<1>3. \/ drain[t].step = "accepted" /\ row' = [row EXCEPT ![s] = "none"]
      \/ row' = [row EXCEPT ![s] = "terminal"] \/ row' = row
    BY DEF WriteVerdict, PutRow, s
<1>4. DrainOK' /\ \A u \in Tabs : drain'[u].step = "accepted" => drain'[u] = drain[u]
    BY <1>0, <1>2, NextScanType
<1>5. told' \in [Scans -> SUBSET Verdicts] /\ \A u \in Scans : told[u] \subseteq told'[u]
    BY <1>0, <1>1, <1>2 DEF TypeOK
<1>6. TypeOK'
    BY <1>0, <1>1, <1>2, <1>3, <1>4, <1>5 DEF TypeOK, DrainOK
<1>7. NothingIsLost'
  <2> SUFFICES ASSUME NEW u \in Scans, phase'[u] = "queued", row'[u] = "none"
               PROVE  attempt'[u] = "accepted" /\ "accepted" \in told'[u]
      BY DEF NothingIsLost
  <2>1. CASE u = s /\ drain[t].step = "accepted"
    <3>1. attempt[s] = "accepted"
        BY <2>1 DEF IInv, DrainsAreBacked, s
    <3> QED BY <1>0, <1>1, <1>2, <2>1, <3>1 DEF TypeOK
  <2>2. CASE ~(u = s /\ drain[t].step = "accepted")
    <3>1. phase[u] = "queued" /\ row[u] = "none"
        BY <1>0, <1>1, <1>2, <1>3, <2>2 DEF TypeOK
    <3> QED BY <1>2, <1>5, <3>1 DEF IInv, NothingIsLost
  <2> QED BY <2>1, <2>2
<1> QED BY <1>2, <1>4, <1>6, <1>7, SameAttempts, ExecutionsStay, CompletedStay, DrainsStay DEF IInv

LEMMA WriteErrorKeeps == ASSUME IInv, NEW t \in Tabs, WriteError(t) PROVE IInv'
<1>0. TypeOK /\ drain[t].step # "idle" /\ drain[t].step \in {"terminal", "retryable"}
    BY DEF IInv, WriteError
<1>1. drain[t].at \in Scans
    BY <1>0, DrainingScan
<1>2. /\ UNCHANGED <<platform, phase, inFlight, created, told, retrying, job, exec, attempt, faults>>
      /\ NextScan(t) \/ drain' = [drain EXCEPT ![t] = IdleDrain]
    BY DEF WriteError, serverVars
<1>3. /\ row' \in [Scans -> {"none", "queued", "retryable", "terminal"}]
      /\ \A s \in Scans : row'[s] = "none" => row[s] = "none"
    BY <1>0, <1>1 DEF WriteError, PutRow, TypeOK
<1>4. DrainOK' /\ \A u \in Tabs : drain'[u].step = "accepted" => drain'[u] = drain[u]
    BY <1>0, <1>2, NextScanType, DrainEndsType
<1>5. TypeOK'
    BY <1>0, <1>2, <1>3, <1>4 DEF TypeOK, DrainOK
<1> QED BY <1>2, <1>3, <1>4, <1>5, SameAttempts, ExecutionsStay, CompletedStay, QueueStays, DrainsStay DEF IInv

-----------------------------------------------------------------------------
(* The server *)

ExecOK ==
    /\ exec \in [Handlers -> Exec]
    /\ \A h \in Handlers : exec[h].work = "idle" <=> exec[h].batch = <<>>

JobsOnly == UNCHANGED <<platform, phase, created, row, told, drain, retrying, attempt>>

\* What only starts, stops or loses executions and jobs gives no answer.
LEMMA JobsOnlyKeeps ==
    ASSUME IInv, JobsOnly, inFlight' \subseteq Scans, faults' \in 0..MaxFaults,
           job' \in [Batches -> Job], ExecOK', ExecutionsAreBacked',
           \A b \in Batches : job'[b].state = "completed" =>
               job[b].state = "completed" /\ job'[b].results = job[b].results
    PROVE  IInv'
<1>1. TypeOK'
    BY DEF IInv, TypeOK, JobsOnly, ExecOK
<1> QED BY <1>1, SameAttempts, CompletedStay, QueueStays, DrainsStay DEF IInv, JobsOnly

\* A handler that begins, or is done with what it did, has collected nothing.
LEMMA EmptyExecution ==
    ASSUME IInv, NEW h \in Handlers, NEW e \in Exec, e.results = <<>>, e.work = "idle" <=> e.batch = <<>>,
           exec' = [exec EXCEPT ![h] = e], UNCHANGED attempt
    PROVE  ExecOK' /\ ExecutionsAreBacked'
<1>1. exec \in [Handlers -> Exec] /\ ExecOK
    BY DEF IInv, TypeOK, ExecOK
<1>2. ExecOK'
    BY <1>1 DEF ExecOK
<1>3. Len(e.batch) \in Nat /\ Len(e.results) = 0
  <2>1. e.batch \in Seq(Scans)
    <3>1. <<>> \in Seq(Scans)
        OBVIOUS
    <3> QED BY <3>1, Constants DEF Exec
  <2> QED BY <2>1
<1>4. ASSUME NEW g \in Handlers PROVE BackedExecution(g)'
  <2>1. CASE g = h
      BY <1>1, <1>3, <2>1 DEF BackedExecution
  <2>2. CASE g # h
      BY <1>1, <2>2 DEF IInv, ExecutionsAreBacked, BackedExecution, Backed
  <2> QED BY <2>1, <2>2
<1> QED BY <1>2, <1>4 DEF ExecutionsAreBacked

\* Changing one job, to one that is not completed.
LEMMA OneJob ==
    ASSUME TypeOK, NEW b \in Batches, NEW j \in Job, j.state # "completed",
           job' = [job EXCEPT ![b] = j]
    PROVE  /\ job' \in [Batches -> Job]
           /\ \A c \in Batches : job'[c].state = "completed" =>
                  job[c].state = "completed" /\ job'[c].results = job[c].results
BY DEF TypeOK

LEMMA JobTypes ==
    ASSUME TypeOK, NEW b \in Batches
    PROVE  /\ Failed(job[b]) \in Job /\ Failed(job[b]).state # "completed"
           /\ Lapsed(job[b]) \in Job /\ Lapsed(job[b]).state # "completed"
<1>1. job[b] \in Job /\ job[b].made \in Nat /\ job[b].made <= Attempts
    BY Constants DEF TypeOK, Job
<1>2. Failed(job[b]) \in Job /\ Failed(job[b]).state # "completed"
  <2> DEFINE made == IF job[b].made < Attempts THEN job[b].made + 1 ELSE job[b].made
  <2>1. made \in 0..Attempts
      BY <1>1, Constants
  <2> HIDE DEF made
  <2>2. [job[b] EXCEPT !.state = "waiting", !.made = made, !.owner = None] \in Job
      BY <1>1, <2>1 DEF Job
  <2>3. [job[b] EXCEPT !.state = "failed", !.made = made, !.owner = None] \in Job
      BY <1>1, <2>1 DEF Job
  <2>4. \/ Failed(job[b]) = [job[b] EXCEPT !.state = "waiting", !.made = made, !.owner = None]
        \/ Failed(job[b]) = [job[b] EXCEPT !.state = "failed", !.made = made, !.owner = None]
      BY DEF Failed, made
  <2> QED BY <1>1, <2>2, <2>3, <2>4 DEF Job
<1>3. Lapsed(job[b]) \in Job /\ Lapsed(job[b]).state # "completed"
    BY <1>1 DEF Lapsed, Job
<1> QED BY <1>2, <1>3

LEMMA JobActions ==
    ASSUME IInv, NEW b \in Batches, PostBatch(b) \/ StalledCheck(b) \/ LoseLock(b) \/ Remove(b)
    PROVE  IInv'
<1>0. TypeOK /\ inFlight \subseteq Scans /\ faults \in 0..MaxFaults /\ ExecOK
    BY DEF IInv, TypeOK, ExecOK
<1>1. JobsOnly /\ inFlight' = inFlight /\ exec' = exec /\ faults' \in 0..MaxFaults
    BY <1>0, FaultType DEF PostBatch, StalledCheck, LoseLock, Remove, JobsOnly, deviceVars
<1>2. PICK j \in Job : j.state # "completed" /\ job' = [job EXCEPT ![b] = j]
    BY <1>0, JobTypes, IdleTypes DEF PostBatch, StalledCheck, LoseLock, Remove
<1>3. ExecOK' /\ ExecutionsAreBacked'
    BY <1>0, <1>1, SameAttempts, ExecutionsStay DEF ExecOK, JobsOnly
<1> QED BY <1>0, <1>1, <1>2, <1>3, OneJob, JobsOnlyKeeps

\* A handler takes a job or a submission.
LEMMA TakeActions ==
    ASSUME IInv, NEW h \in Handlers,
           (\E b \in Batches : Take(h, b)) \/ (\E s \in Scans : TakeDirect(h, s))
    PROVE  IInv'
<1>0. TypeOK /\ inFlight \subseteq Scans /\ faults \in 0..MaxFaults /\ job \in [Batches -> Job]
    BY DEF IInv, TypeOK
<1>1. ASSUME NEW b \in Batches, Take(h, b) PROVE IInv'
  <2> DEFINE e == [IdleExec EXCEPT !.work = "job", !.batch = b]
             j == [job[b] EXCEPT !.state = "active", !.owner = h]
  <2>1. e \in Exec /\ e.results = <<>> /\ e.work = "job" /\ e.batch # <<>>
      BY IdleTypes, Constants DEF Exec
  <2>2. j \in Job /\ j.state = "active"
      BY <1>0 DEF Job
  <2>3. job' = [job EXCEPT ![b] = j] /\ exec' = [exec EXCEPT ![h] = e]
      BY <1>1 DEF Take
  <2>4. JobsOnly /\ inFlight' = inFlight /\ faults' = faults
      BY <1>1 DEF Take, JobsOnly, deviceVars
  <2> HIDE DEF e, j
  <2>5. ExecOK' /\ ExecutionsAreBacked'
      BY <2>1, <2>3, <2>4, EmptyExecution DEF JobsOnly
  <2> QED BY <1>0, <2>2, <2>3, <2>4, <2>5, OneJob, JobsOnlyKeeps
<1>2. ASSUME NEW s \in Scans, TakeDirect(h, s) PROVE IInv'
  <2> DEFINE e == [IdleExec EXCEPT !.work = "direct", !.batch = <<s>>]
  <2>1. e \in Exec /\ e.results = <<>> /\ e.work = "direct" /\ e.batch # <<>>
      BY IdleTypes, Constants DEF Exec
  <2>2. exec' = [exec EXCEPT ![h] = e] /\ job' = job /\ inFlight' \subseteq inFlight /\ faults' = faults
      BY <1>2 DEF TakeDirect
  <2>3. JobsOnly
      BY <1>2 DEF TakeDirect, JobsOnly
  <2> HIDE DEF e
  <2>4. ExecOK' /\ ExecutionsAreBacked'
      BY <2>1, <2>2, <2>3, EmptyExecution DEF JobsOnly
  <2> QED BY <1>0, <2>2, <2>3, <2>4, JobsOnlyKeeps
<1> QED BY <1>1, <1>2

\* An execution that ends without an answer: it throws, or its process stops.
LEMMA StopActions ==
    ASSUME IInv, NEW h \in Handlers, Throw(h) \/ AcceptFails(h) \/ Crash(h)
    PROVE  IInv'
<1>0. TypeOK /\ inFlight \subseteq Scans /\ faults \in 0..MaxFaults /\ job \in [Batches -> Job]
    BY DEF IInv, TypeOK
<1>1. JobsOnly /\ inFlight' = inFlight /\ faults' \in 0..MaxFaults /\ exec' = [exec EXCEPT ![h] = IdleExec]
    BY <1>0, FaultType DEF Throw, AcceptFails, Crash, Abort, JobsOnly, deviceVars
<1>2. ExecOK' /\ ExecutionsAreBacked'
    BY <1>1, IdleTypes, EmptyExecution DEF JobsOnly
<1>3. /\ job' \in [Batches -> Job]
      /\ \A b \in Batches : job'[b].state = "completed" =>
             job[b].state = "completed" /\ job'[b].results = job[b].results
  <2>1. CASE job' = job
      BY <1>0, <2>1
  <2>2. CASE Owns(h) /\ job' = [job EXCEPT ![exec[h].batch] = Failed(@)]
    <3>1. exec[h].batch \in Batches
        BY <1>0, <2>2, ExecLengths DEF Owns, TypeOK, Exec
    <3> QED BY <1>0, <2>2, <3>1, JobTypes, OneJob
  <2> QED BY <2>1, <2>2 DEF Throw, AcceptFails, Crash, Abort
<1> QED BY <1>0, <1>1, <1>2, <1>3, JobsOnlyKeeps

\* One more answer, which is backed, for the next scan of the batch.
LEMMA AnswerKeeps ==
    ASSUME IInv, NEW h \in Handlers, NEW v \in Verdicts, Pending(h), Answer(h, v), AttemptsGrow,
           attempt' \in [Scans -> Verdicts \cup {"none"}],
           attempt'[Current(h)] # "none", v = "accepted" => attempt'[Current(h)] = "accepted",
           UNCHANGED <<deviceVars, job, faults>>
    PROVE  IInv'
<1> DEFINE e == [exec[h] EXCEPT !.results = Append(exec[h].results, v), !.fresh = FALSE]
           n == Len(exec[h].results)
<1>0. TypeOK /\ exec \in [Handlers -> Exec]
    BY DEF IInv, TypeOK
<1>1. exec' = [exec EXCEPT ![h] = e]
    BY DEF Answer
<1>2. /\ exec[h] \in Exec /\ exec[h].results \in Seq(Verdicts) /\ n \in Nat
      /\ exec[h].batch \in Seq(Scans) /\ Len(exec[h].batch) \in Nat
    BY <1>0, ExecLengths
<1>3. n + 1 \in 1..Len(exec[h].batch) /\ Current(h) = exec[h].batch[n + 1]
    BY <1>2 DEF Pending, Current
<1>4. /\ Append(exec[h].results, v) \in Seq(Verdicts) /\ Len(Append(exec[h].results, v)) = n + 1
      /\ Append(exec[h].results, v)[n + 1] = v
      /\ \A i \in 1..n : Append(exec[h].results, v)[i] = exec[h].results[i]
    BY <1>2
<1>5. e \in Exec /\ e.work = exec[h].work /\ e.batch = exec[h].batch /\ e.results = Append(exec[h].results, v)
    BY <1>2, <1>4 DEF Exec
<1> HIDE DEF e
<1>6. TypeOK'
    BY <1>0, <1>1, <1>5 DEF TypeOK, deviceVars
<1>7. ASSUME NEW g \in Handlers PROVE BackedExecution(g)'
  <2>2. ASSUME NEW i \in 1..Len(exec[g].results)
        PROVE  /\ attempt'[exec[g].batch[i]] # "none"
               /\ exec[g].results[i] = "accepted" => attempt'[exec[g].batch[i]] = "accepted"
    <3>1. Len(exec[g].results) \in Nat /\ Len(exec[g].batch) \in Nat
        BY <1>0, ExecLengths
    <3>2. exec[g].batch[i] \in Scans
        BY <3>1, ExecutedScan DEF IInv, ExecutionsAreBacked, BackedExecution
    <3> QED BY <3>2 DEF IInv, ExecutionsAreBacked, BackedExecution, Backed, AttemptsGrow
  <2>3. CASE g # h
    <3>1. exec'[g] = exec[g]
        BY <1>0, <1>1, <2>3
    <3> QED BY <2>2, <3>1 DEF BackedExecution, Backed, IInv, ExecutionsAreBacked
  <2>4. CASE g = h
    <3>1. exec'[g] = e
        BY <1>0, <1>1, <2>4
    <3>2. Len(e.results) = n + 1 /\ n + 1 <= Len(e.batch)
        BY <1>2, <1>3, <1>4, <1>5
    <3>3. ASSUME NEW i \in 1..n + 1 
          PROVE  /\ attempt'[e.batch[i]] # "none"
                 /\ e.results[i] = "accepted" => attempt'[e.batch[i]] = "accepted"
      <4>1. CASE i = n + 1
          BY <1>3, <1>4, <1>5, <4>1
      <4>2. CASE i \in 1..n
          BY <1>4, <1>5, <2>2, <2>4, <4>2
      <4>3. i = n + 1 \/ i \in 1..n
          BY <1>2
      <4> QED BY <4>1, <4>2, <4>3
    <3> QED BY <3>1, <3>2, <3>3 DEF BackedExecution, Backed
  <2> QED BY <2>3, <2>4
<1> QED BY <1>6, <1>7, CompletedStay, QueueStays, DrainsStay DEF IInv, ExecutionsAreBacked, deviceVars

LEMMA AnsweringActions ==
    ASSUME IInv, NEW h \in Handlers, Replay(h) \/ Accept(h) \/ Deny(h)
    PROVE  IInv'
<1>0. TypeOK /\ exec \in [Handlers -> Exec] /\ attempt \in [Scans -> Verdicts \cup {"none"}] /\ Pending(h)
    BY DEF IInv, TypeOK, Replay, Accept, Deny
<1>1. Current(h) \in Scans
  <2>1. Len(exec[h].results) + 1 \in 1..Len(exec[h].batch)
      BY <1>0, ExecLengths DEF Pending
  <2> QED BY <2>1, ExecutedScan DEF Current
<1>2. CASE Replay(h)
  <2>1. CASE attempt[Current(h)] = "none"
    <3> DEFINE e == [exec[h] EXCEPT !.fresh = TRUE]
    <3>1. e \in Exec /\ e.work = exec[h].work /\ e.batch = exec[h].batch /\ e.results = exec[h].results
        BY <1>0 DEF Exec
    <3>2. exec' = [exec EXCEPT ![h] = e] /\ UNCHANGED <<deviceVars, job, attempt, faults>>
        BY <1>2, <2>1 DEF Replay
    <3> HIDE DEF e
    <3>3. TypeOK'
        BY <1>0, <3>1, <3>2 DEF TypeOK, deviceVars
    <3>4. ASSUME NEW g \in Handlers PROVE BackedExecution(g)'
      <4>1. exec'[g].batch = exec[g].batch /\ exec'[g].results = exec[g].results
          BY <1>0, <3>1, <3>2
      <4> QED BY <3>2, <4>1 DEF IInv, ExecutionsAreBacked, BackedExecution, Backed
    <3> QED BY <3>2, <3>3, <3>4, SameAttempts, CompletedStay, QueueStays, DrainsStay
            DEF IInv, ExecutionsAreBacked, deviceVars
  <2>2. CASE attempt[Current(h)] # "none"
    <3>1. attempt[Current(h)] \in Verdicts /\ Answer(h, attempt[Current(h)])
        BY <1>0, <1>1, <1>2, <2>2 DEF Replay
    <3>2. UNCHANGED <<deviceVars, job, attempt, faults>>
        BY <1>2 DEF Replay
    <3> DEFINE v == attempt[Current(h)]
    <3>3. v \in Verdicts /\ Answer(h, v) /\ attempt'[Current(h)] # "none"
          /\ (v = "accepted" => attempt'[Current(h)] = "accepted")
        BY <2>2, <3>1, <3>2
    <3> HIDE DEF v
    <3> QED BY <1>0, <3>2, <3>3, SameAttempts, AnswerKeeps
  <2> QED BY <2>1, <2>2
<1>3. CASE Accept(h)
  <2>1. attempt' = [attempt EXCEPT ![Current(h)] = "accepted"] /\ Answer(h, "accepted")
        /\ UNCHANGED <<deviceVars, job, faults>>
      BY <1>3 DEF Accept
  <2>2. AttemptsGrow /\ attempt' \in [Scans -> Verdicts \cup {"none"}] /\ attempt'[Current(h)] = "accepted"
      BY <1>0, <1>1, <2>1 DEF AttemptsGrow, Verdicts
  <2> QED BY <1>0, <2>1, <2>2, AnswerKeeps DEF Verdicts
<1>4. CASE Deny(h)
  <2>1. attempt' = [attempt EXCEPT ![Current(h)] = IF @ = "none" THEN "denied" ELSE @] /\ Answer(h, "denied")
        /\ UNCHANGED <<deviceVars, job, faults>>
      BY <1>4 DEF Deny
  <2>2. AttemptsGrow /\ attempt' \in [Scans -> Verdicts \cup {"none"}] /\ attempt'[Current(h)] # "none"
      BY <1>0, <1>1, <2>1 DEF AttemptsGrow, Verdicts
  <2> QED BY <1>0, <2>1, <2>2, AnswerKeeps DEF Verdicts
<1> QED BY <1>2, <1>3, <1>4

\* The handler that holds a job completes it with an answer to every scan.
LEMMA FinishJobKeeps == ASSUME IInv, NEW h \in Handlers, FinishJob(h) PROVE IInv'
<1>0. TypeOK /\ job \in [Batches -> Job]
    BY DEF IInv, TypeOK
<1>1. UNCHANGED <<deviceVars, attempt, faults>> /\ exec' = [exec EXCEPT ![h] = IdleExec]
    BY DEF FinishJob
<1>2. ExecOK' /\ ExecutionsAreBacked'
    BY <1>1, IdleTypes, EmptyExecution
<1>3. CASE ~Owns(h)
  <2>1. job' = job
      BY <1>3 DEF FinishJob
  <2>2. TypeOK'
      BY <1>0, <1>1, <1>2, <2>1 DEF TypeOK, ExecOK, deviceVars
  <2> QED BY <1>1, <1>2, <2>1, <2>2, SameAttempts, CompletedStay, QueueStays, DrainsStay DEF IInv, deviceVars
<1>4. CASE Owns(h)
  <2> DEFINE b == exec[h].batch
             j == [job[b] EXCEPT !.state = "completed", !.owner = None, !.results = exec[h].results]
  <2>1. job' = [job EXCEPT ![b] = j]
      BY <1>4 DEF FinishJob
  <2>2. /\ b \in Batches /\ exec[h].results \in Seq(Verdicts) /\ Len(exec[h].results) = Len(b)
        /\ \A i \in 1..Len(b) : Backed(b[i], exec[h].results[i])
    <3>1. exec[h].batch \in Batches
        BY <1>0, <1>4, ExecLengths DEF Owns, TypeOK, Exec
    <3> QED BY <1>0, <3>1, ExecLengths DEF FinishJob, Done, IInv, ExecutionsAreBacked, BackedExecution
  <2>3. j \in Job /\ j.results = exec[h].results
      BY <1>0, <2>2 DEF Job
  <2> HIDE DEF b, j
  <2>4. TypeOK'
      BY <1>0, <1>1, <1>2, <2>1, <2>2, <2>3 DEF TypeOK, ExecOK, deviceVars
  <2>5. CompletedJobsAnswer'
    <3> SUFFICES ASSUME NEW c \in Batches, job'[c].state = "completed"
                 PROVE  /\ Len(job'[c].results) = Len(c)
                        /\ \A i \in 1..Len(c) : /\ attempt'[c[i]] # "none"
                                                /\ job'[c].results[i] = "accepted" => attempt'[c[i]] = "accepted"
        BY DEF CompletedJobsAnswer
    <3>1. CASE c = b
        BY <1>0, <1>1, <2>1, <2>2, <2>3, <3>1 DEF Backed
    <3>2. CASE c # b
      <4>1. job'[c] = job[c]
          BY <1>0, <2>1, <3>2
      <4> QED BY <1>1, <4>1 DEF IInv, CompletedJobsAnswer
    <3> QED BY <3>1, <3>2
  <2> QED BY <1>1, <1>2, <2>4, <2>5, SameAttempts, QueueStays, DrainsStay DEF IInv, deviceVars
<1> QED BY <1>3, <1>4

\* A direct answer is told; the scan was not in the queue.
LEMMA FinishDirectKeeps == ASSUME IInv, NEW h \in Handlers, FinishDirect(h) PROVE IInv'
<1> DEFINE s == exec[h].batch[1]
<1>0. TypeOK
    BY DEF IInv
<1>1. /\ UNCHANGED <<platform, inFlight, created, row, drain, retrying, job, attempt, faults>>
      /\ exec' = [exec EXCEPT ![h] = IdleExec]
    BY DEF FinishDirect
<1>2. ExecOK' /\ ExecutionsAreBacked'
    BY <1>1, IdleTypes, EmptyExecution
<1>3. s \in Scans /\ exec[h].results[1] \in Verdicts
  <2>1. exec[h].batch # <<>> /\ exec[h].batch \in Seq(Scans) /\ exec[h].results \in Seq(Verdicts)
        /\ Len(exec[h].results) = Len(exec[h].batch)
      BY <1>0, ExecLengths DEF FinishDirect, Done, TypeOK
  <2> QED BY <2>1
<1>4. \/ /\ phase[s] = "live" /\ phase' = [phase EXCEPT ![s] = "answered"]
         /\ told' = [told EXCEPT ![s] = @ \cup {exec[h].results[1]}]
      \/ phase' = phase /\ told' = told
  <2>1. CASE phase[s] = "live"
      BY <2>1 DEF FinishDirect
  <2>2. CASE phase[s] # "live"
      BY <2>2 DEF FinishDirect
  <2> QED BY <2>1, <2>2
<1> HIDE DEF s
<1>5. told' \in [Scans -> SUBSET Verdicts] /\ \A u \in Scans : told[u] \subseteq told'[u]
  <2>1. told \in [Scans -> SUBSET Verdicts]
      BY <1>0 DEF TypeOK
  <2>2. CASE told' = [told EXCEPT ![s] = @ \cup {exec[h].results[1]}]
    <3>1. told[s] \cup {exec[h].results[1]} \in SUBSET Verdicts
        BY <1>3, <2>1
    <3>2. \A u \in Scans : told'[u] = IF u = s THEN told[s] \cup {exec[h].results[1]} ELSE told[u]
        BY <2>1, <2>2
    <3>3. told' \in [Scans -> SUBSET Verdicts]
        BY <2>1, <2>2, <3>1
    <3> QED BY <3>2, <3>3
  <2> QED BY <1>4, <2>1, <2>2
<1>6. /\ phase' \in [Scans -> {"new", "live", "answered", "queued"}]
      /\ \A u \in Scans : phase'[u] = "queued" => phase[u] = "queued"
    BY <1>0, <1>3, <1>4 DEF TypeOK
<1>7. TypeOK'
    BY <1>0, <1>1, <1>2, <1>5, <1>6 DEF TypeOK, ExecOK
<1> QED BY <1>1, <1>2, <1>5, <1>6, <1>7, SameAttempts, CompletedStay, QueueStays, DrainsStay DEF IInv

-----------------------------------------------------------------------------
(* The invariant and its theorems *)

LEMMA NextInvariant == IInv /\ [Next]_vars => IInv'
<1> SUFFICES ASSUME IInv, [Next]_vars PROVE IInv'
    OBVIOUS
<1>1. CASE UNCHANGED vars
  <2>1. /\ UNCHANGED <<platform, phase, inFlight, created, row, told, drain, retrying>>
        /\ UNCHANGED <<job, exec, attempt, faults>>
      BY <1>1 DEF vars
  <2>2. TypeOK'
      BY <2>1 DEF IInv, TypeOK
  <2> QED BY <2>1, <2>2, SameAttempts, ExecutionsStay, CompletedStay, QueueStays, DrainsStay DEF IInv
<1>2. CASE (\E s \in Scans : DeviceStep(s)) \/ RetryWrite
    BY <1>2, DeviceStepKeeps
<1>3. ASSUME NEW t \in Tabs, DrainStart(t) \/ DrainStep(t) \/ Lost(t) \/ Refused(t) \/ Kill(t) PROVE IInv'
    BY <1>3, AskingActions, EnqueueAddKeeps, WriteVerdictKeeps, WriteErrorKeeps DEF DrainStep
<1>4. ASSUME NEW h \in Handlers,
             \/ \E b \in Batches : Take(h, b)
             \/ \E s \in Scans : TakeDirect(h, s)
             \/ HandlerStep(h) \/ Throw(h) \/ Crash(h)
      PROVE  IInv'
    BY <1>4, TakeActions, AnsweringActions, StopActions, FinishJobKeeps, FinishDirectKeeps DEF HandlerStep
<1>5. ASSUME NEW b \in Batches, PostBatch(b) \/ StalledCheck(b) \/ LoseLock(b) \/ Remove(b) PROVE IInv'
    BY <1>5, JobActions
<1> QED BY <1>1, <1>2, <1>3, <1>4, <1>5 DEF Next

\* The parts of the invariant hold together in every reachable state.
THEOREM Invariance == Spec => []IInv
<1> QED BY InitInvariant, NextInvariant, PTL DEF Spec

\* Every variable keeps to its type.
THEOREM DeliveryTypeCorrect == Spec => []TypeOK
<1>1. IInv => TypeOK
    BY DEF IInv
<1> QED BY <1>1, Invariance, PTL

\* A scan leaves the queue only for an accepted attempt that its user was told of.
THEOREM EvidenceIsKept == Spec => []NothingIsLost
<1>1. IInv => NothingIsLost
    BY DEF IInv
<1> QED BY <1>1, Invariance, PTL

\* A completed job answers every scan of its batch, and its accepted answers are backed.
THEOREM JobsAnswerForAll == Spec => []CompletedJobsAnswer
<1>1. IInv => CompletedJobsAnswer
    BY DEF IInv
<1> QED BY <1>1, Invariance, PTL

\* Whatever handlers do that lost a job, its answer stands until it is removed.
THEOREM AnswersStand == Spec => AnswersAreFinal
<1> DEFINE Final == \A b \in Batches : job[b].state = "completed" =>
               job'[b] = NoJob \/ (job'[b].state = "completed" /\ job'[b].results = job[b].results)
<1>1. IInv /\ [Next]_vars => Final
  <2> SUFFICES ASSUME IInv, [Next]_vars, NEW b \in Batches, job[b].state = "completed"
               PROVE  job'[b] = NoJob \/ job'[b] = job[b]
      OBVIOUS
  <2>0. job \in [Batches -> Job]
      BY DEF IInv, TypeOK
  <2>1. ASSUME NEW t \in Tabs, EnqueueAdd(t) PROVE job'[b] = job[b]
      BY <2>0, <2>1 DEF EnqueueAdd
  <2>2. ASSUME NEW t \in Tabs, DrainStart(t) \/ DrainStep(t) \/ Lost(t) \/ Refused(t) \/ Kill(t)
        PROVE  job'[b] = job[b]
      BY <2>1, <2>2 DEF DrainStart, DrainStep, Lost, Refused, Kill, EnqueueLook, PollLook, PollReload,
                        WriteVerdict, WriteError, serverVars
  <2>3. (\E s \in Scans : DeviceStep(s)) \/ RetryWrite \/ UNCHANGED vars => job' = job
      BY DEF DeviceStep, Submit, Capture, GiveUp, RetryRead, RetryWrite, serverVars, vars
  <2>4. ASSUME NEW h \in Handlers,
               \/ \E c \in Batches : Take(h, c)
               \/ \E s \in Scans : TakeDirect(h, s)
               \/ Replay(h) \/ Accept(h) \/ Deny(h) \/ FinishDirect(h) \/ Crash(h)
        PROVE  job'[b] = job[b]
      BY <2>0, <2>4 DEF Take, TakeDirect, Replay, Accept, Deny, FinishDirect, Crash
  <2>5. ASSUME NEW h \in Handlers, Throw(h) \/ AcceptFails(h) \/ FinishJob(h) PROVE job'[b] = job[b]
      BY <2>0, <2>5 DEF Throw, AcceptFails, Abort, FinishJob, Owns
  <2>6. ASSUME NEW c \in Batches, PostBatch(c) \/ StalledCheck(c) \/ LoseLock(c) \/ Remove(c)
        PROVE  job'[b] = NoJob \/ job'[b] = job[b]
      BY <2>0, <2>6 DEF PostBatch, StalledCheck, LoseLock, Remove
  <2> QED BY <2>2, <2>3, <2>4, <2>5, <2>6 DEF Next, HandlerStep
<1>2. IInv /\ [Next]_vars => [Final]_vars
    BY <1>1
<1> QED BY <1>2, Invariance, PTL DEF Spec, AnswersAreFinal

-----------------------------------------------------------------------------
(* RecordReview *)

\* The places a validated scan names are those of the session's mode.
ScansAreInPlace == \A s \in Submissions : scan[s].state = "valid" => scan[s].place \in Places(mode)

ReviewSafe == ReviewTypeOK /\ ScansAreInPlace

-----------------------------------------------------------------------------
LEMMA InitSafe == ReviewInit => ReviewSafe
<1> SUFFICES ASSUME ReviewInit PROVE ReviewSafe
    OBVIOUS
<1>1. NewScan \in [state : {"new", "valid", "done"}, place : {"room", "start", "end"},
                   verdict : {"present", "late", "disputed"}] /\ NewScan.state = "new"
    BY DEF NewScan
<1>2. record \in Record /\ record.taken \subseteq Places(mode)
    BY DEF ReviewInit, Record, Statuses
<1> QED BY <1>1, <1>2 DEF ReviewInit, ReviewSafe, ReviewTypeOK, ScansAreInPlace

\* The row after each kind of write is a record with the places it had.
LEMMA WrittenRecord ==
    ASSUME ReviewSafe
    PROVE  /\ record \in Record /\ record.taken \subseteq Places(mode)
           /\ \A rec \in Record, decision \in {"approve", "reject"} :
                 Decided(rec, decision) \in Record /\ Decided(rec, decision).taken = rec.taken
BY DEF ReviewSafe, ReviewTypeOK, Decided, Record, Statuses

LEMMA StudentStep == ASSUME ReviewSafe, Student PROVE ReviewSafe'
<1>1. PICK c \in Clients : RequestExcuseRead(c) \/ RequestExcuseWrite(c) \/ DisputeRead(c) \/ DisputeWrite(c)
    BY DEF Student
<1>2. record' \in Record /\ record'.taken = record.taken
    BY <1>1, WrittenRecord
    DEF RequestExcuseRead, RequestExcuseWrite, DisputeRead, DisputeWrite, Record, Statuses
<1>3. asking' \in [Clients -> {"none", "excuse", "dispute"}]
    BY <1>1 DEF RequestExcuseRead, RequestExcuseWrite, DisputeRead, DisputeWrite, ReviewSafe, ReviewTypeOK
<1>4. UNCHANGED <<mode, ended, listed, deciding, scan, word>>
    BY <1>1 DEF RequestExcuseRead, RequestExcuseWrite, DisputeRead, DisputeWrite
<1> QED BY <1>2, <1>3, <1>4 DEF ReviewSafe, ReviewTypeOK, ScansAreInPlace

LEMMA TeacherStep == ASSUME ReviewSafe, Teacher PROVE ReviewSafe'
<1>1. ASSUME NEW r \in Reviewers,
             LoadQueues(r) \/ \E decision \in {"approve", "reject"} : DecideExcuseRead(r, decision)
      PROVE  ReviewSafe'
    BY <1>1 DEF LoadQueues, DecideExcuseRead, ReviewSafe, ReviewTypeOK, ScansAreInPlace
<1>2. ASSUME NEW r \in Reviewers, DecideExcuseWrite(r) PROVE ReviewSafe'
  <2>1. deciding[r] \in {"approve", "reject"}
      BY <1>2 DEF DecideExcuseWrite, ReviewSafe, ReviewTypeOK
  <2>2. record' \in Record /\ record'.taken = record.taken
      BY <1>2, <2>1, WrittenRecord DEF DecideExcuseWrite
  <2>3. word' \in Statuses \cup {"none", "rejected"}
      BY <1>2 DEF DecideExcuseWrite, ReviewSafe, ReviewTypeOK, Statuses
  <2> QED BY <1>2, <2>2, <2>3 DEF DecideExcuseWrite, ReviewSafe, ReviewTypeOK, ScansAreInPlace
<1>3. ASSUME NEW r \in Reviewers, NEW resolution \in Resolutions, ResolveDispute(r, resolution)
      PROVE  ReviewSafe'
  <2>1. resolution[2] \in Statuses
      BY DEF Resolutions, Statuses
  <2>2. record' \in Record /\ record'.taken = record.taken
      BY <1>3, <2>1, WrittenRecord DEF ResolveDispute, Record
  <2>3. word' \in Statuses \cup {"none", "rejected"}
      BY <1>3, <2>1 DEF ResolveDispute
  <2> QED BY <1>3, <2>2, <2>3 DEF ResolveDispute, ReviewSafe, ReviewTypeOK, ScansAreInPlace
<1>4. ASSUME NEW status \in Statuses \ {"excused"}, SetManually(status) PROVE ReviewSafe'
    BY <1>4 DEF SetManually, ReviewSafe, ReviewTypeOK, ScansAreInPlace, Record
<1> QED BY <1>1, <1>2, <1>3, <1>4 DEF Teacher

LEMMA MachineStep == ASSUME ReviewSafe, Machine PROVE ReviewSafe'
<1>1. ASSUME NEW s \in Submissions, NEW place \in {"room", "start", "end"},
             NEW verdict \in {"present", "late", "disputed"}, ScanValidated(s, place, verdict)
      PROVE  ReviewSafe'
    BY <1>1 DEF ScanValidated, ReviewSafe, ReviewTypeOK, ScansAreInPlace
<1>2. ASSUME NEW s \in Submissions, ScanWrite(s) PROVE ReviewSafe'
  <2> DEFINE status == IF mode = "online" /\ scan[s].verdict # "disputed"
                       THEN record.status ELSE scan[s].verdict
  <2>1. status \in Statuses /\ scan[s].place \in Places(mode)
      BY <1>2 DEF ScanWrite, ReviewSafe, ReviewTypeOK, ScansAreInPlace, Record, Statuses
  <2>2. /\ record' \in {record, [record EXCEPT !.status = status, !.taken = @ \cup {scan[s].place}]}
        /\ scan' = [scan EXCEPT ![s] = [NewScan EXCEPT !.state = "done"]]
        /\ UNCHANGED <<mode, ended, asking, listed, deciding, word>>
      BY <1>2 DEF ScanWrite
  <2>3. record' \in Record /\ record'.taken \subseteq Places(mode)
    <3>1. scan[s].place \in {"room", "start", "end"}
        BY DEF ReviewSafe, ReviewTypeOK
    <3>2. record.taken \cup {scan[s].place} \in SUBSET {"room", "start", "end"}
        BY <3>1, WrittenRecord DEF Record
    <3>3. [record EXCEPT !.status = status, !.taken = @ \cup {scan[s].place}] \in Record
        BY <2>1, <3>2, WrittenRecord DEF Record
    <3>4. [record EXCEPT !.status = status, !.taken = @ \cup {scan[s].place}].taken
             = record.taken \cup {scan[s].place}
        BY WrittenRecord DEF Record
    <3> QED BY <2>1, <2>2, <3>3, <3>4, WrittenRecord
  <2> QED BY <2>2, <2>3 DEF NewScan, ReviewSafe, ReviewTypeOK, ScansAreInPlace
<1>3. CASE CloseSession
  <2>1. \A status \in ClosedStatuses : status \in Statuses
      BY DEF ClosedStatuses, Statuses
  <2>2. record' \in Record /\ record'.taken = record.taken
      BY <1>3, <2>1, WrittenRecord DEF CloseSession, Record
  <2> QED BY <1>3, <2>2 DEF CloseSession, ReviewSafe, ReviewTypeOK, ScansAreInPlace
<1> QED BY <1>1, <1>2, <1>3 DEF Machine

LEMMA NextSafe == ReviewSafe /\ [ReviewNext]_reviewVars => ReviewSafe'
<1>1. ReviewSafe /\ UNCHANGED reviewVars => ReviewSafe'
    BY DEF reviewVars, ReviewSafe, ReviewTypeOK, ScansAreInPlace
<1> QED BY <1>1, StudentStep, TeacherStep, MachineStep DEF ReviewNext

-----------------------------------------------------------------------------
\* An absence or a pending row that a teacher gave, and that still stands, is
\* marked as set by hand; this is what keeps scans, and on line the close, away.
WordIsMarked == word \in {"pending", "absent"} /\ record.status = word => record.manuallySet

WordSafe == TeachersWordStands /\ WordIsMarked

\* A student may only turn the record into an open dispute.
LEMMA StudentKeepsWord == ASSUME ReviewSafe, WordSafe, Student PROVE WordSafe'
<1>1. PICK c \in Clients : RequestExcuseRead(c) \/ RequestExcuseWrite(c) \/ DisputeRead(c) \/ DisputeWrite(c)
    BY DEF Student
<1>2. UNCHANGED <<mode, ended, word>>
    BY <1>1 DEF RequestExcuseRead, RequestExcuseWrite, DisputeRead, DisputeWrite
<1>3. CASE DisputeWrite(c)
  <2>1. Open(record') /\ record'.status = "disputed"
      BY <1>3, WrittenRecord DEF DisputeWrite, Open, Record
  <2> QED BY <1>2, <2>1 DEF WordSafe, TeachersWordStands, WordIsMarked
<1>4. CASE RequestExcuseRead(c) \/ RequestExcuseWrite(c) \/ DisputeRead(c)
  <2>1. /\ record'.status = record.status /\ record'.manuallySet = record.manuallySet
        /\ record'.disputeResolved = record.disputeResolved
      BY <1>4, WrittenRecord DEF RequestExcuseRead, RequestExcuseWrite, DisputeRead, Record
  <2> QED BY <1>2, <2>1 DEF WordSafe, TeachersWordStands, WordIsMarked, MayReadAs, Open
<1> QED BY <1>1, <1>3, <1>4

\* A teacher's write is the new word.
LEMMA TeacherKeepsWord == ASSUME ReviewSafe, WordSafe, Teacher PROVE WordSafe'
<1>1. ASSUME NEW r \in Reviewers,
             LoadQueues(r) \/ \E decision \in {"approve", "reject"} : DecideExcuseRead(r, decision)
      PROVE  WordSafe'
  <2>1. UNCHANGED <<mode, ended, record, word>>
      BY <1>1 DEF LoadQueues, DecideExcuseRead
  <2> QED BY <2>1 DEF WordSafe, TeachersWordStands, WordIsMarked, MayReadAs, Open
<1>2. ASSUME NEW r \in Reviewers, DecideExcuseWrite(r) PROVE WordSafe'
  <2>1. CASE deciding[r] = "approve"
    <3>1. record'.status = "excused" /\ word' = "excused"
        BY <1>2, <2>1, WrittenRecord DEF DecideExcuseWrite, Decided, Record
    <3> QED BY <3>1 DEF WordSafe, TeachersWordStands, WordIsMarked, MayReadAs
  <2>2. CASE deciding[r] # "approve"
    <3>1. /\ record'.status = record.status /\ record'.manuallySet = record.manuallySet
          /\ record'.disputeResolved = record.disputeResolved
          /\ UNCHANGED <<mode, ended, word>>
        BY <1>2, <2>2, WrittenRecord DEF DecideExcuseWrite, Decided, Record
    <3> QED BY <3>1 DEF WordSafe, TeachersWordStands, WordIsMarked, MayReadAs, Open
  <2> QED BY <2>1, <2>2
<1>3. ASSUME NEW r \in Reviewers, NEW resolution \in Resolutions, ResolveDispute(r, resolution)
      PROVE  WordSafe'
  <2>1. /\ record'.status = resolution[2]
        /\ record'.manuallySet = (resolution[1] = "override")
        /\ word' = IF resolution[1] = "reject" THEN "rejected" ELSE resolution[2]
      BY <1>3, WrittenRecord DEF ResolveDispute, Record
  <2>2. \/ resolution[1] = "accept" /\ resolution[2] = "present"
        \/ resolution[1] = "reject" /\ resolution[2] = "absent"
        \/ resolution[1] = "override" /\ resolution[2] \in {"present", "late", "absent"}
      BY DEF Resolutions
  <2> QED BY <2>1, <2>2 DEF WordSafe, TeachersWordStands, WordIsMarked, MayReadAs
<1>4. ASSUME NEW status \in Statuses \ {"excused"}, SetManually(status) PROVE WordSafe'
  <2>1. record'.status = status /\ record'.manuallySet /\ word' = status
      BY <1>4, WrittenRecord DEF SetManually, Record
  <2>2. status # "rejected"
      BY DEF Statuses
  <2> QED BY <2>1, <2>2 DEF WordSafe, TeachersWordStands, WordIsMarked, MayReadAs
<1> QED BY <1>1, <1>2, <1>3, <1>4 DEF Teacher

\* A scan takes only a row that no word marks: the absence of a rejection, or of
\* the close over a row the teacher had left pending; and it can only flag it.
LEMMA ScanKeepsWord == ASSUME ReviewSafe, WordSafe, NEW s \in Submissions, ScanWrite(s) PROVE WordSafe'
<1>1. UNCHANGED <<mode, ended, word>>
    BY DEF ScanWrite
<1>2. CASE ~Takes(record, s)
  <2>1. record' = record
      BY <1>2 DEF ScanWrite
  <2> QED BY <1>1, <2>1 DEF WordSafe, TeachersWordStands, WordIsMarked, MayReadAs, Open
<1>3. CASE Takes(record, s)
  <2>1. /\ record.status \in {"pending", "absent"} /\ ~record.manuallySet
        /\ record.status = "absent" => scan[s].verdict = "disputed"
      BY <1>3 DEF Takes
  <2>2. scan[s].verdict = "disputed" => record'.status = "disputed"
      BY <1>3, WrittenRecord DEF ScanWrite, Record
  <2>3. CASE word = "none"
      BY <1>1, <2>3 DEF WordSafe, TeachersWordStands, WordIsMarked
  <2>4. CASE word # "none"
    <3>1. record.status \in MayReadAs(word)
        BY <2>1, <2>4 DEF WordSafe, TeachersWordStands, Open
    <3>2. record.status # word
        BY <2>1 DEF WordSafe, WordIsMarked
    <3>3. /\ word = "rejected" \/ (word = "pending" /\ mode = "in_person" /\ ended)
          /\ record.status = "absent"
        BY <2>1, <3>1, <3>2 DEF MayReadAs
    <3> QED BY <1>1, <2>1, <2>2, <3>3 DEF WordSafe, TeachersWordStands, WordIsMarked, MayReadAs
  <2> QED BY <2>3, <2>4
<1> QED BY <1>2, <1>3

\* The close settles only pending rows: one a teacher put back to pending is left
\* alone on line, and becomes an absence in person.
LEMMA CloseKeepsWord == ASSUME ReviewSafe, WordSafe, CloseSession PROVE WordSafe'
<1>1. UNCHANGED <<mode, word>> /\ ended' = TRUE
    BY DEF CloseSession
<1>2. CASE ~Closes(record)
  <2>1. record' = record
      BY <1>2 DEF CloseSession
  <2> QED BY <1>1, <2>1 DEF WordSafe, TeachersWordStands, WordIsMarked, MayReadAs, Open
<1>3. CASE Closes(record)
  <2>1. record.status = "pending" /\ (mode = "online" => ~record.manuallySet)
      BY <1>3 DEF Closes
  <2>2. mode = "in_person" => record'.status = "absent"
      BY <1>3, WrittenRecord DEF CloseSession, ClosedStatuses, Record
  <2>3. word # "none" => word = "pending" /\ mode = "in_person"
    <3>1. word # "none" => record.status \in MayReadAs(word)
        BY <2>1 DEF WordSafe, TeachersWordStands, Open
    <3> QED BY <2>1, <3>1 DEF WordSafe, WordIsMarked, MayReadAs, ReviewSafe, ReviewTypeOK
  <2> QED BY <1>1, <2>2, <2>3 DEF WordSafe, TeachersWordStands, WordIsMarked, MayReadAs
<1> QED BY <1>2, <1>3

\* A teacher has the last word: whatever was read before it is written after it,
\* the record keeps the status, is openly disputed, or is one of the two exceptions.
THEOREM TeachersHaveLastWord == ReviewSpec => []TeachersWordStands
<1>1. ReviewInit => WordSafe
    BY DEF ReviewInit, WordSafe, TeachersWordStands, WordIsMarked
<1>2. ReviewSafe /\ WordSafe /\ [ReviewNext]_reviewVars => WordSafe'
  <2> SUFFICES ASSUME ReviewSafe, WordSafe, [ReviewNext]_reviewVars PROVE WordSafe'
      OBVIOUS
  <2>1. ASSUME NEW s \in Submissions, NEW place \in {"room", "start", "end"},
               NEW verdict \in {"present", "late", "disputed"}, ScanValidated(s, place, verdict)
        PROVE  WordSafe'
    <3>1. UNCHANGED <<mode, ended, record, word>>
        BY <2>1 DEF ScanValidated
    <3> QED BY <3>1 DEF WordSafe, TeachersWordStands, WordIsMarked, MayReadAs, Open
  <2>2. CASE UNCHANGED reviewVars
      BY <2>2 DEF reviewVars, WordSafe, TeachersWordStands, WordIsMarked, MayReadAs, Open
  <2> QED BY <2>1, <2>2, StudentKeepsWord, TeacherKeepsWord, ScanKeepsWord, CloseKeepsWord DEF ReviewNext, Machine
<1> QED BY <1>1, <1>2, InitSafe, NextSafe, PTL DEF ReviewSpec, WordSafe

\* A dispute, once open, is closed by a teacher and nothing else.
THEOREM DisputesAwaitTeacher == ReviewSpec => OpenDisputeStays
<1> DEFINE Stays == Open(record) /\ ~Open(record') => Teacher
<1>1. ReviewSafe /\ [ReviewNext]_reviewVars => Stays
  <2> SUFFICES ASSUME ReviewSafe, [ReviewNext]_reviewVars, Open(record), ~Open(record') PROVE Teacher
      OBVIOUS
  <2>1. ASSUME NEW c \in Clients,
               RequestExcuseRead(c) \/ RequestExcuseWrite(c) \/ DisputeRead(c) \/ DisputeWrite(c)
        PROVE  Open(record')
      BY <2>1, WrittenRecord
      DEF RequestExcuseRead, RequestExcuseWrite, DisputeRead, DisputeWrite, Open, Record
  <2>2. ASSUME NEW s \in Submissions, ScanWrite(s) PROVE record' = record
    <3>1. ~Takes(record, s)
        BY DEF Takes, Open
    <3> QED BY <2>2, <3>1 DEF ScanWrite
  <2>3. CASE CloseSession
      BY <2>3 DEF CloseSession, Closes, Open
  <2>4. ASSUME NEW s \in Submissions, NEW place \in {"room", "start", "end"},
               NEW verdict \in {"present", "late", "disputed"}, ScanValidated(s, place, verdict)
        PROVE  record' = record
      BY <2>4 DEF ScanValidated
  <2>5. UNCHANGED reviewVars => record' = record
      BY DEF reviewVars
  <2> QED BY <2>1, <2>2, <2>3, <2>4, <2>5 DEF ReviewNext, Student, Machine
<1>2. ReviewSafe /\ [ReviewNext]_reviewVars => [Stays]_reviewVars
    BY <1>1
<1> QED BY <1>2, InitSafe, NextSafe, PTL DEF ReviewSpec, OpenDisputeStays
=============================================================================
