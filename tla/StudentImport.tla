--------------------------- MODULE StudentImport ---------------------------
(***************************************************************************)
(* Bulk registration of students.  An administrator's dialog validates the *)
(* chunks of a list and then executes them one after another, each under   *)
(* an idempotency key of its run; an execution plans and creates the       *)
(* missing accounts of its chunk in one transaction, and the passwords it  *)
(* made up travel in its answer only.  Another administrator's list is     *)
(* imported by a background job, whose passwords are staged in Redis, or   *)
(* in the memory of its process, until the first poll of its state.        *)
(*                                                                         *)
(* Rows are students, and a row whose account exists already is skipped or *)
(* updates its profile.  Blocked rows, scopes, checksums and the parsing   *)
(* and mapping of columns are left out, and so are batches and metrics.    *)
(* The administrator starts nothing new while something the dialog started *)
(* before it was closed still goes on.                                     *)
(***************************************************************************)
EXTENDS Integers

CONSTANTS
    Students, Chunks,   \* a list has the chunks 1..Chunks
    Rows,               \* the students of each chunk
    Registered,         \* students who have an account from the start
    JobRows, JobMode,   \* the students of the background job and the rule of its request
    Runs,               \* run identifiers of the dialog
    Polls,              \* requests for the state of the job
    JobAttempts,        \* how often the queue tries the job
    MaxFailures,        \* bound: lost answers, failures, crashes and expired keys
    NoOne, Before, Job  \* who created an account, besides runs

Modes == {"skip_existing", "update_existing"}

ASSUME ImportAssumption ==
    /\ Chunks \in Nat \ {0} /\ JobAttempts \in Nat \ {0} /\ MaxFailures \in Nat
    /\ Rows \in [1..Chunks -> SUBSET Students] /\ JobRows \cup Registered \subseteq Students
    /\ JobMode \in Modes
    /\ {NoOne, Before, Job} \cap Runs = {} /\ NoOne # Before /\ NoOne # Job /\ Before # Job

VARIABLES
    creator,       \* who created the account of each student
    overwritten,   \* history: the runs, or the job, that have changed a profile
    dialog,        \* what the administrator sees
    flow,          \* the asynchronous function of the dialog that runs
    key,           \* the execution under each idempotency key, and its stored answer
    job,           \* the background job
    staged, local, \* its passwords in Redis, and in the memory of its process
    poll,          \* requests for its state
    handed,        \* history: has a poll handed the staged passwords out?
    previewed,     \* history: the runs that have shown what an update of profiles would do
    forgotten,     \* history: runs of which the server lost an answer
    failures

jobVars == <<job, staged, local, poll, handed>>
history == <<previewed, forgotten>>
vars == <<creator, overwritten, dialog, flow, key, jobVars, history, failures>>

Dialog == [step : {"closed", "map", "validate", "confirm", "report"}, run : Runs,
           mode : Modes, validated : Modes, progress : 0..Chunks, failed : BOOLEAN,
           executing : BOOLEAN, validating : BOOLEAN, stop : BOOLEAN,
           credentials : SUBSET Students, from : 1..Chunks]
Flow == [kind : {"none", "validate", "retry", "commit"}, mode : Modes, from : 1..Chunks,
         at : 1..Chunks, collected : SUBSET Students, awaits : BOOLEAN,
         run : Runs \cup {NoOne},  \* under whose key the request it awaits was sent
         of : Runs \cup {NoOne}]   \* history: whose dialog started it
Key == [state : {"fresh", "running", "committed", "stored", "orphan"},
        mode : Modes, made : SUBSET Students,
        of : Runs \cup {NoOne}]    \* history: whose dialog started it, until it commits

TypeOK ==
    /\ creator \in [Students -> {NoOne, Before, Job} \cup Runs]
    /\ overwritten \subseteq Runs \cup {Job}
    /\ dialog \in Dialog /\ flow \in Flow
    /\ key \in [Runs \X (1..Chunks) -> Key]
    /\ job \in [state : {"none", "waiting", "committed", "staged", "completed", "failed"},
                tries : 0..JobAttempts, made : SUBSET Students]
    /\ staged \subseteq Students /\ local \subseteq Students
    /\ poll \in [Polls -> {"idle", "holding"}] /\ handed \in BOOLEAN
    /\ previewed \subseteq Runs /\ forgotten \subseteq Runs
    /\ failures \in 0..MaxFailures

FreshKey == [state |-> "fresh", mode |-> "skip_existing", made |-> {}, of |-> NoOne]
Idle == [kind |-> "none", mode |-> "skip_existing", from |-> 1, at |-> 1,
         collected |-> {}, awaits |-> FALSE, run |-> NoOne, of |-> NoOne]
Reset(run, step) ==
    [step |-> step, run |-> run, mode |-> "skip_existing", validated |-> "skip_existing",
     progress |-> 0, failed |-> FALSE, executing |-> FALSE, validating |-> FALSE, stop |-> FALSE,
     credentials |-> {}, from |-> 1]
NoJob == [state |-> "none", tries |-> 0, made |-> {}]

Init ==
    /\ creator = [s \in Students |-> IF s \in Registered THEN Before ELSE NoOne]
    /\ overwritten = {}
    /\ \E run \in Runs : dialog = Reset(run, "closed")
    /\ flow = Idle
    /\ key = [k \in Runs \X (1..Chunks) |-> FreshKey]
    /\ job = NoJob /\ staged = {} /\ local = {}
    /\ poll = [p \in Polls |-> "idle"] /\ handed = FALSE
    /\ previewed = {} /\ forgotten = {} /\ failures = 0

Failure == failures < MaxFailures /\ failures' = failures + 1

-----------------------------------------------------------------------------
(* execute(): in one transaction, missing accounts are created and, if the *)
(* rule says so, the others updated.                                       *)

Missing(rows) == {s \in rows : creator[s] = NoOne}

Imports(rows, mode, by, of) ==
    /\ creator' = [s \in Students |-> IF s \in Missing(rows) THEN by ELSE creator[s]]
    /\ overwritten' = overwritten \cup
                         {b \in {of} : mode = "update_existing" /\ rows # Missing(rows)}

-----------------------------------------------------------------------------
(* Executions under a key of the dialog *)

Commit(k) ==
    /\ key[k].state = "running"
    /\ Imports(Rows[k[2]], key[k].mode, k[1], key[k].of)
    /\ key' = [key EXCEPT ![k].state = "committed", ![k].of = NoOne,
                           ![k].made = Missing(Rows[k[2]])]
    /\ UNCHANGED <<dialog, flow, jobVars, history, failures>>

\* The transaction fails, or finds that the roster has changed under it.
Abort(k) ==
    /\ key[k].state = "running" /\ Failure
    /\ key' = [key EXCEPT ![k] = FreshKey]
    /\ UNCHANGED <<creator, overwritten, dialog, flow, jobVars, history>>

Store(k) ==
    /\ key[k].state = "committed"
    /\ key' = [key EXCEPT ![k].state = "stored"]
    /\ UNCHANGED <<creator, overwritten, dialog, flow, jobVars, history, failures>>

\* A process stops with the lock in its hand, and what it had committed is not
\* answered.
Crash(k) ==
    /\ key[k].state \in {"running", "committed"} /\ Failure
    /\ key' = [key EXCEPT ![k] = [FreshKey EXCEPT !.state = "orphan"]]
    /\ forgotten' = IF key[k].state = "committed" THEN forgotten \cup {k[1]} ELSE forgotten
    /\ UNCHANGED <<creator, overwritten, dialog, flow, jobVars, previewed>>

KeyExpires(k) ==
    /\ key[k].state \in {"stored", "orphan"} /\ Failure
    /\ key' = [key EXCEPT ![k] = FreshKey]
    /\ forgotten' = IF key[k].state = "stored" THEN forgotten \cup {k[1]} ELSE forgotten
    /\ UNCHANGED <<creator, overwritten, dialog, flow, jobVars, previewed>>

ServerStep ==
    \E k \in Runs \X (1..Chunks) : Commit(k) \/ Abort(k) \/ Store(k) \/ Crash(k) \/ KeyExpires(k)

-----------------------------------------------------------------------------
(* The dialog *)

Quiet == flow.kind = "none"

UserStep == UNCHANGED <<creator, overwritten, key, jobVars, history, failures>>

Used(run) ==
    \/ \E c \in 1..Chunks : key[<<run, c>>] # FreshKey
    \/ \E k \in Runs \X (1..Chunks) : key[k].of = run
    \/ \E s \in Students : creator[s] = run
    \/ run \in overwritten
    \/ ~Quiet /\ run \in {flow.of, flow.run}

\* reset() draws a run identifier; one that was never used is as good as another.
NewRun == IF Used(dialog.run) THEN {run \in Runs : ~Used(run)} ELSE {dialog.run}

Resets(step) ==
    /\ \E run \in NewRun : /\ dialog' = Reset(run, step)
                           /\ previewed' = previewed \ {run}
    /\ UNCHANGED <<creator, overwritten, flow, key, jobVars, forgotten, failures>>

Open == dialog.step = "closed" /\ Resets("map")

\* A flow that validates is not stopped by it, and imports under the new run if it
\* was to import.
Close == dialog.step # "closed" /\ ~dialog.executing /\ Resets("closed")

Begins(kind, mode, from, of) ==
    [Idle EXCEPT !.kind = kind, !.mode = mode, !.from = from, !.at = from, !.of = of]

Validate ==
    /\ Quiet /\ dialog.step \in {"map", "validate"}
    /\ flow' = Begins("validate", dialog.mode, 1, dialog.run)
    /\ dialog' = [dialog EXCEPT !.validating = TRUE, !.failed = FALSE, !.credentials = {}]
    /\ UserStep

Choose(mode) ==
    /\ dialog.step = "validate"
    /\ dialog' = [dialog EXCEPT !.mode = mode]
    /\ UNCHANGED flow /\ UserStep

AnyRule == TRUE                                            \* faulty: the rule need not be validated
RuleIsValidated == dialog.mode = dialog.validated

Continue ==
    /\ dialog.step = "validate" /\ RuleIsValidated
    /\ dialog' = [dialog EXCEPT !.step = "confirm"]
    /\ UNCHANGED flow /\ UserStep

Back ==
    /\ ~dialog.executing
    /\ \/ dialog.step = "confirm" /\ dialog' = [dialog EXCEPT !.step = "validate"]
       \/ dialog.step = "validate" /\ dialog' = [dialog EXCEPT !.step = "map"]
    /\ UNCHANGED flow /\ UserStep

\* runCommit(from)
Commits(mode, from, of) ==
    /\ flow' = Begins("commit", mode, from, of)
    /\ dialog' = [dialog EXCEPT !.executing = TRUE, !.validating = FALSE, !.stop = FALSE,
                                !.failed = FALSE, !.progress = from - 1]

Import ==
    /\ Quiet /\ dialog.step = "confirm"
    /\ Commits(dialog.mode, 1, dialog.run)
    /\ UserStep

RetryRemaining ==
    /\ Quiet /\ dialog.step = "confirm"
    /\ dialog.failed /\ dialog.progress \in 1..Chunks - 1
    /\ flow' = Begins("retry", dialog.mode, dialog.progress + 1, dialog.run)
    /\ dialog' = [dialog EXCEPT !.validating = TRUE, !.failed = FALSE]
    /\ UserStep

Stop ==
    /\ dialog.step = "confirm" /\ dialog.executing
    /\ dialog' = [dialog EXCEPT !.stop = TRUE]
    /\ UNCHANGED flow /\ UserStep

UserActs ==
    \/ Open \/ Close \/ Validate \/ Continue \/ Back \/ Import \/ RetryRemaining \/ Stop
    \/ \E mode \in Modes : Choose(mode)

-----------------------------------------------------------------------------
(* What the flows do *)

FlowStep == UNCHANGED <<creator, overwritten, jobVars, forgotten>>

\* The chunks are validated, one after another and without effect, and the result
\* is shown if the dialog is still, or again, open ...
Validated ==
    /\ flow.kind = "validate"
    /\ flow' = Idle
    /\ dialog' = [dialog EXCEPT !.step = IF @ = "closed" THEN @ ELSE "validate",
                      !.validated = flow.mode, !.validating = FALSE]
    /\ previewed' = previewed \cup
           {run \in {dialog.run} : dialog.step # "closed" /\ flow.mode = "update_existing"}
    /\ UNCHANGED <<key, failures>> /\ FlowStep

\* ... unless they are the remaining ones, which are then imported ...
Revalidated ==
    /\ flow.kind = "retry"
    /\ Commits(flow.mode, flow.from, flow.of)
    /\ UNCHANGED <<key, previewed, failures>> /\ FlowStep

\* ... or one of them is refused: by a failure, or because its key has been used
\* with another rule.
ValidationFails ==
    /\ flow.kind \in {"validate", "retry"}
    /\ flow' = Idle
    /\ dialog' = [dialog EXCEPT !.validating = FALSE, !.failed = TRUE]
    /\ UNCHANGED <<key, previewed, failures>> /\ FlowStep

\* runCommit ends: what it collected is what the dialog shows.
Ends(done, collected) ==
    /\ flow' = Idle
    /\ dialog' = [dialog EXCEPT !.executing = FALSE, !.credentials = collected, !.from = flow.from,
                      !.failed = ~done, !.progress = IF done THEN Chunks ELSE @,
                      !.step = IF done /\ @ # "closed" THEN "report" ELSE @]

IsLast(at) == at = Chunks

Gives(made) ==
    IF IsLast(flow.at)
    THEN Ends(TRUE, flow.collected \cup made)
    ELSE IF dialog.stop
         THEN /\ flow' = Idle
              /\ dialog' = [dialog EXCEPT !.executing = FALSE, !.failed = TRUE, !.from = flow.from,
                                !.credentials = flow.collected \cup made, !.progress = flow.at]
         ELSE /\ flow' = [flow EXCEPT !.at = @ + 1, !.awaits = FALSE, !.collected = @ \cup made]
              /\ dialog' = [dialog EXCEPT !.progress = flow.at]

Refused == Ends(FALSE, flow.collected)

Redacted(made) == {}                                       \* faulty: passwords are struck from what is stored
Replayed(made) == made

\* A chunk is executed, unless its key is held or was used with another rule, or
\* its answer is there already.
Send ==
    /\ flow.kind = "commit" /\ ~flow.awaits
    /\ LET k == <<dialog.run, flow.at>> IN
       CASE key[k].state = "fresh" ->
                /\ key' = [key EXCEPT ![k] = [FreshKey EXCEPT !.state = "running", !.mode = flow.mode,
                                                         !.of = flow.of]]
                /\ flow' = [flow EXCEPT !.awaits = TRUE, !.run = dialog.run]
                /\ UNCHANGED dialog
         [] key[k].state = "stored" /\ key[k].mode = flow.mode ->
                Gives(Replayed(key[k].made)) /\ UNCHANGED key
         [] OTHER -> Refused /\ UNCHANGED key
    /\ UNCHANGED <<previewed, failures>> /\ FlowStep

Answer ==
    /\ flow.awaits
    /\ LET answer == key[<<flow.run, flow.at>>] IN
           \/ answer.state = "stored" /\ Gives(answer.made)
           \/ answer.state \in {"fresh", "orphan"} /\ Refused
    /\ UNCHANGED <<key, previewed, failures>> /\ FlowStep

\* The answer is lost, or takes too long.
TimesOut ==
    /\ flow.awaits /\ Failure
    /\ Refused
    /\ UNCHANGED <<key, previewed>> /\ FlowStep

FlowSteps == Validated \/ Revalidated \/ ValidationFails \/ Send \/ Answer \/ TimesOut

-----------------------------------------------------------------------------
(* The background job *)

JobStep == UNCHANGED <<dialog, flow, key, history>>
WithoutAccounts == UNCHANGED <<creator, overwritten>>

\* The same request has the same identifier: a job that is there is left alone,
\* and one that failed is tried again.
Enqueue ==
    /\ job' = CASE job.state = "none" -> [NoJob EXCEPT !.state = "waiting"]
                [] job.state = "failed" -> [job EXCEPT !.state = "waiting"]
                [] OTHER -> job
    /\ UNCHANGED <<staged, local, poll, handed, failures>> /\ WithoutAccounts /\ JobStep

JobCommits ==
    /\ job.state = "waiting"
    /\ Imports(JobRows, JobMode, Job, Job)
    /\ job' = [job EXCEPT !.state = "committed", !.made = Missing(JobRows)]
    /\ UNCHANGED <<staged, local, poll, handed, failures>> /\ JobStep

\* Staging that fails is logged, and the job goes on: its process keeps a copy.
JobStages ==
    /\ job.state = "committed"
    /\ job' = [job EXCEPT !.state = "staged", !.made = {}]
    /\ \/ job.made = {} /\ UNCHANGED <<staged, local, failures>>
       \/ job.made # {} /\ staged' = job.made /\ local' = {} /\ UNCHANGED failures
       \/ job.made # {} /\ Failure /\ local' = job.made /\ UNCHANGED staged
    /\ UNCHANGED <<poll, handed>> /\ WithoutAccounts /\ JobStep

JobCompletes ==
    /\ job.state = "staged"
    /\ job' = [job EXCEPT !.state = "completed"]
    /\ UNCHANGED <<staged, local, poll, handed, failures>> /\ WithoutAccounts /\ JobStep

\* It throws or its worker stops; the queue starts it over, or gives it up.
JobFails ==
    /\ job.state \in {"waiting", "committed", "staged"} /\ Failure
    /\ job' = IF job.tries + 1 < JobAttempts
              THEN [NoJob EXCEPT !.state = "waiting", !.tries = job.tries + 1]
              ELSE [NoJob EXCEPT !.state = "failed", !.tries = job.tries]
    /\ UNCHANGED <<staged, local, poll, handed>> /\ WithoutAccounts /\ JobStep

\* After an hour, when nothing is staged any more.
JobIsRemoved ==
    /\ job.state \in {"completed", "failed"} /\ staged = {} /\ local = {}
    /\ job' = NoJob
    /\ UNCHANGED <<staged, local, poll, handed, failures>> /\ WithoutAccounts /\ JobStep

\* Or the process of the job stops, and its copy with it.
StagedExpires ==
    /\ staged # {} \/ local # {}
    /\ staged' = {} /\ local' = {}
    /\ UNCHANGED <<job, poll, handed, failures>> /\ WithoutAccounts /\ JobStep

\* Every process reads what is in Redis, and that of the job its copy.
Poll(p) ==
    /\ poll[p] = "idle" /\ job.state = "completed" /\ (staged # {} \/ local # {})
    /\ poll' = [poll EXCEPT ![p] = "holding"]
    /\ UNCHANGED <<job, staged, local, handed, failures>> /\ WithoutAccounts /\ JobStep

Kept == staged                                             \* faulty: read and not deleted
Removed == {}

\* Only a poll that could delete what it read from Redis hands it out; a copy there is,
\* in its own process, goes first.
HandOut(p) ==
    /\ poll[p] = "holding"
    /\ poll' = [poll EXCEPT ![p] = "idle"]
    /\ local' = {}
    /\ \/ staged' = Removed /\ handed' = TRUE /\ UNCHANGED failures
       \/ Failure /\ UNCHANGED <<staged, handed>>
    /\ UNCHANGED job /\ WithoutAccounts /\ JobStep

JobSteps ==
    \/ Enqueue \/ JobCommits \/ JobStages \/ JobCompletes
    \/ JobFails \/ JobIsRemoved \/ StagedExpires
    \/ \E p \in Polls : Poll(p) \/ HandOut(p)

-----------------------------------------------------------------------------
Next == UserActs \/ FlowSteps \/ ServerStep \/ JobSteps

Spec == Init /\ [][Next]_vars

-----------------------------------------------------------------------------
(* Properties *)

\* A report of a whole run shows the password of every account the run created,
\* however often its chunks were sent, answers were lost and the dialog went back,
\* unless the server itself has forgotten an answer.
FullReportIsComplete ==
    dialog.step = "report" /\ dialog.from = 1 /\ dialog.run \notin forgotten =>
        {s \in Students : creator[s] = dialog.run} \subseteq dialog.credentials

\* An import that overwrites a profile does so under a rule whose validation was
\* shown in the dialog it was started from, before; whatever else was validated since,
\* in vain or unseen, and whichever run the import goes on under.
NothingOverwrittenUnseen == overwritten \cap Runs \subseteq previewed

\* Once a poll has handed the passwords of the job out they are not staged again, in
\* Redis or beside it, whether or not the job is started over, given up or submitted
\* again.
HandedOutIsGone == handed => staged = {} /\ local = {}

\* "Temporary passwords are generated server-side and shown once in the report."
\* (src/frontend/src/components/import/BulkImportDialog.tsx:630)
ReportIsComplete ==
    dialog.step = "report" /\ dialog.run \notin forgotten =>
        {s \in Students : creator[s] = dialog.run} \subseteq dialog.credentials
=============================================================================
