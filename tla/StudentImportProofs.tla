------------------------ MODULE StudentImportProofs ------------------------
(***************************************************************************)
(* Proofs about StudentImport, for every list, division into chunks, set   *)
(* of runs and number of tries and failures.                               *)
(***************************************************************************)
EXTENDS StudentImport, TLAPS

Keys == Runs \X (1..Chunks)
Jobs == [state : {"none", "waiting", "committed", "staged", "completed", "failed"},
         tries : 0..JobAttempts, made : SUBSET Students]

\* The rule that updates profiles goes nowhere without the run that has shown its
\* validation: not into the dialog that offers to import with it, nor into a flow
\* that imports, nor into an execution.
UpdateIsPreviewed ==
    /\ dialog.step = "confirm" => dialog.mode = dialog.validated
    /\ dialog.step # "closed" /\ dialog.validated = "update_existing" => dialog.run \in previewed
    /\ flow.kind \in {"retry", "commit"} /\ flow.mode = "update_existing" => flow.of \in previewed
    /\ \A k \in Keys : key[k].state = "running" /\ key[k].mode = "update_existing" =>
          key[k].of \in previewed
    /\ NothingOverwrittenUnseen

AwaitsUnderRun == flow.awaits => flow.kind = "commit" /\ flow.run \in Runs

\* The passwords of the job exist from its commit to their staging, and once any
\* were staged there is no account left for it to create.
JobPasswords ==
    /\ job.made # {} => job.state = "committed"
    /\ \/ job.state \in {"committed", "staged", "completed"} \/ handed
       \/ staged # {} \/ local # {} \/ \E p \in Polls : poll[p] = "holding"
       => Missing(JobRows) = {}
    /\ handed \/ (\E p \in Polls : poll[p] = "holding") => job.made = {}
    /\ HandedOutIsGone

IInv == TypeOK /\ UpdateIsPreviewed /\ AwaitsUnderRun /\ JobPasswords

USE DEF Keys, Jobs

-----------------------------------------------------------------------------
(* Types *)

LEMMA FreshTypes ==
    /\ FreshKey \in Key /\ FreshKey.state = "fresh"
    /\ NoJob \in Jobs /\ NoJob.state = "none" /\ NoJob.made = {}
    /\ Idle \in Flow /\ Idle.kind = "none" /\ ~Idle.awaits
    /\ \A run \in Runs, step \in {"closed", "map"} :
          /\ Reset(run, step) \in Dialog /\ Reset(run, step).step = step
          /\ Reset(run, step).validated = "skip_existing"
<1>1. FreshKey \in Key /\ FreshKey.state = "fresh"
    BY DEF FreshKey, Key, Modes
<1>2. NoJob \in Jobs /\ NoJob.state = "none" /\ NoJob.made = {}
    BY ImportAssumption DEF NoJob
<1>3. Idle \in Flow /\ Idle.kind = "none" /\ ~Idle.awaits
    BY ImportAssumption DEF Idle, Flow, Modes
<1>4. \A run \in Runs, step \in {"closed", "map"} :
          /\ Reset(run, step) \in Dialog /\ Reset(run, step).step = step
          /\ Reset(run, step).validated = "skip_existing"
    BY ImportAssumption DEF Reset, Dialog, Modes
<1> QED BY <1>1, <1>2, <1>3, <1>4

LEMMA InitInvariant == Init => IInv
<1> SUFFICES ASSUME Init PROVE IInv
    OBVIOUS
<1>1. creator \in [Students -> {NoOne, Before, Job} \cup Runs]
    BY DEF Init
<1>2. TypeOK
  <2>1. dialog \in Dialog /\ flow \in Flow
      BY FreshTypes DEF Init
  <2>2. key \in [Keys -> Key] /\ job \in Jobs
      BY FreshTypes DEF Init
  <2>3. failures \in 0..MaxFailures /\ poll \in [Polls -> {"idle", "holding"}]
      BY ImportAssumption DEF Init
  <2> QED BY <1>1, <2>1, <2>2, <2>3 DEF Init, TypeOK
<1>3. UpdateIsPreviewed /\ AwaitsUnderRun
    BY FreshTypes DEF Init, UpdateIsPreviewed, AwaitsUnderRun, NothingOverwrittenUnseen
<1>4. JobPasswords
    BY FreshTypes DEF Init, JobPasswords, HandedOutIsGone
<1> QED BY <1>2, <1>3, <1>4 DEF IInv

LEMMA TypeFacts ==
    ASSUME IInv
    PROVE  /\ dialog \in Dialog /\ flow \in Flow /\ dialog.run \in Runs
           /\ key \in [Keys -> Key] /\ job \in Jobs
           /\ previewed \subseteq Runs /\ failures \in Nat
           /\ flow.awaits => flow.kind = "commit" /\ flow.run \in Runs
           /\ Chunks \in Nat /\ MaxFailures \in Nat /\ JobAttempts \in Nat \ {0}
BY ImportAssumption DEF IInv, TypeOK, AwaitsUnderRun, Dialog

\* One more failure is within the bound.
LEMMA FailureType == ASSUME IInv, Failure PROVE failures' \in 0..MaxFailures
BY ImportAssumption DEF Failure, IInv, TypeOK

\* An import leaves every account with a creator.
LEMMA ImportsCreates ==
    ASSUME IInv, NEW rows \in SUBSET Students, NEW mode, NEW by \in {Job} \cup Runs, NEW of,
           Imports(rows, mode, by, of), mode = "update_existing" => of \in Runs \cup {Job}
    PROVE  /\ creator' \in [Students -> {NoOne, Before, Job} \cup Runs]
           /\ overwritten' \subseteq Runs \cup {Job}
           /\ \A s \in Students : creator'[s] = NoOne => creator[s] = NoOne /\ s \notin rows
<1>1. by # NoOne
    BY ImportAssumption
<1> QED BY <1>1 DEF Imports, Missing, IInv, TypeOK

-----------------------------------------------------------------------------
(* The server *)

\* What leaves the job alone and creates no account on its behalf keeps its part.
LEMMA JobUntouched ==
    ASSUME IInv, UNCHANGED jobVars,
           \A s \in Students : creator'[s] = NoOne => creator[s] = NoOne
    PROVE  JobPasswords'
<1>1. Missing(JobRows)' \subseteq Missing(JobRows)
    BY ImportAssumption DEF Missing
<1> QED BY <1>1 DEF IInv, JobPasswords, HandedOutIsGone, jobVars

LEMMA ServerKeeps == ASSUME IInv, ServerStep PROVE IInv'
<1>1. PICK k \in Keys : Commit(k) \/ Abort(k) \/ Store(k) \/ Crash(k) \/ KeyExpires(k)
    BY DEF ServerStep
<1>2. /\ key[k] \in Key /\ k[1] \in Runs /\ k[2] \in 1..Chunks
      /\ Rows[k[2]] \in SUBSET Students
    BY TypeFacts, ImportAssumption
<1>3. PICK row \in Key : key' = [key EXCEPT ![k] = row] /\ row.state # "running"
  <2>1. CASE Commit(k)
    <3>1. [key[k] EXCEPT !.state = "committed", !.of = NoOne, !.made = Missing(Rows[k[2]])] \in Key
        BY <1>2 DEF Key, Missing
    <3> QED BY <2>1, <3>1, TypeFacts DEF Commit, Key
  <2>2. CASE Abort(k)
      BY <2>2, FreshTypes DEF Abort
  <2>3. CASE Store(k)
    <3>1. [key[k] EXCEPT !.state = "stored"] \in Key
        BY <1>2 DEF Key
    <3> QED BY <2>3, <3>1, TypeFacts DEF Store, Key
  <2>4. CASE Crash(k)
    <3>1. [FreshKey EXCEPT !.state = "orphan"] \in Key
        BY FreshTypes DEF Key
    <3> QED BY <2>4, <3>1, FreshTypes DEF Crash, Key
  <2>5. CASE KeyExpires(k)
      BY <2>5, FreshTypes DEF KeyExpires
  <2> QED BY <1>1, <2>1, <2>2, <2>3, <2>4, <2>5
<1>4. key' \in [Keys -> Key]
    BY <1>3, TypeFacts
<1>5. UNCHANGED <<dialog, flow, jobVars, previewed>>
    BY <1>1 DEF Commit, Abort, Store, Crash, KeyExpires, history
<1>6. key[k].state = "running" /\ key[k].mode = "update_existing" =>
          key[k].of \in previewed /\ key[k].of \in Runs
    BY TypeFacts DEF IInv, UpdateIsPreviewed
<1>7. /\ creator' \in [Students -> {NoOne, Before, Job} \cup Runs]
      /\ overwritten' \subseteq Runs \cup {Job} /\ overwritten' \cap Runs \subseteq previewed
      /\ \A s \in Students : creator'[s] = NoOne => creator[s] = NoOne
  <2>1. overwritten \cap Runs \subseteq previewed
      BY DEF IInv, UpdateIsPreviewed, NothingOverwrittenUnseen
  <2>2. CASE Commit(k)
    <3>1. Imports(Rows[k[2]], key[k].mode, k[1], key[k].of) /\ key[k].state = "running"
        BY <2>2 DEF Commit
    <3>2. \A run \in overwritten' : run \in overwritten \/ run \in previewed
        BY <3>1, <1>6 DEF Imports
    <3> QED BY <2>1, <3>1, <3>2, <1>2, <1>6, ImportsCreates
  <2>3. CASE ~Commit(k)
    <3>1. UNCHANGED <<creator, overwritten>>
        BY <1>1, <2>3 DEF Abort, Store, Crash, KeyExpires
    <3> QED BY <2>1, <3>1 DEF IInv, TypeOK
  <2> QED BY <2>2, <2>3
<1>8. failures' \in 0..MaxFailures /\ forgotten' \subseteq Runs
  <2>1. failures' \in 0..MaxFailures
      BY <1>1, FailureType DEF Commit, Abort, Store, Crash, KeyExpires, IInv, TypeOK
  <2>2. forgotten' \subseteq forgotten \cup {k[1]}
      BY <1>1 DEF Commit, Abort, Store, Crash, KeyExpires, history
  <2> QED BY <2>1, <2>2, <1>2 DEF IInv, TypeOK
<1>9. TypeOK'
    BY <1>4, <1>5, <1>7, <1>8 DEF IInv, TypeOK, jobVars
<1>10. UpdateIsPreviewed' /\ AwaitsUnderRun'
  <2>1. \A i \in Keys : key'[i].state = "running" => key'[i] = key[i]
      BY <1>3, TypeFacts
  <2> QED BY <1>5, <1>7, <2>1
          DEF IInv, UpdateIsPreviewed, AwaitsUnderRun, NothingOverwrittenUnseen
<1>11. JobPasswords'
    BY <1>5, <1>7, JobUntouched
<1> QED BY <1>9, <1>10, <1>11 DEF IInv

-----------------------------------------------------------------------------
(* The dialog *)

\* What the dialog keeps as it is: the rules it may import with, and for which run.
SameRule ==
    /\ dialog' \in Dialog /\ dialog'.step \in {dialog.step, "report"}
    /\ dialog'.step # "closed" => dialog.step # "closed"
    /\ dialog'.mode = dialog.mode /\ dialog'.validated = dialog.validated /\ dialog'.run = dialog.run

\* A flow that commits goes on as it is, or ends.
FlowGoesOn ==
    /\ flow' \in Flow /\ flow'.kind \in {"none", "commit"}
    /\ flow'.kind = "commit" =>
          flow.kind = "commit" /\ flow'.mode = flow.mode /\ flow'.of = flow.of
    /\ flow'.awaits => flow'.kind = "commit" /\ flow'.run \in Runs

\* A step of the dialog that leaves a dialog and a flow behind, and imports
\* nothing, keeps the invariant if the rule it may import with was previewed.
LEMMA DialogKeeps ==
    ASSUME IInv, UNCHANGED <<creator, overwritten, jobVars, forgotten>>,
           dialog' \in Dialog, flow' \in Flow, key' \in [Keys -> Key],
           previewed \subseteq previewed', previewed' \subseteq Runs,
           failures' \in 0..MaxFailures,
           dialog'.step = "confirm" => dialog'.mode = dialog'.validated,
           dialog'.step # "closed" /\ dialog'.validated = "update_existing" =>
              dialog'.run \in previewed',
           flow'.kind \in {"retry", "commit"} /\ flow'.mode = "update_existing" =>
              flow'.of \in previewed',
           flow'.awaits => flow'.kind = "commit" /\ flow'.run \in Runs,
           \A k \in Keys : key'[k].state = "running" /\ key'[k].mode = "update_existing" =>
              key'[k] = key[k] \/ key'[k].of \in previewed'
    PROVE  IInv'
<1>1. TypeOK'
    BY DEF IInv, TypeOK, jobVars
<1>2. UpdateIsPreviewed' /\ AwaitsUnderRun'
  <2>1. \A k \in Keys : key[k].state = "running" /\ key[k].mode = "update_existing" =>
           key[k].of \in previewed
      BY DEF IInv, UpdateIsPreviewed
  <2>2. NothingOverwrittenUnseen'
      BY DEF IInv, UpdateIsPreviewed, NothingOverwrittenUnseen
  <2> QED BY <2>1, <2>2 DEF UpdateIsPreviewed, AwaitsUnderRun
<1>3. JobPasswords'
    BY JobUntouched
<1> QED BY <1>1, <1>2, <1>3 DEF IInv

LEMMA RuleFacts ==
    ASSUME IInv
    PROVE  /\ dialog.step = "confirm" => dialog.mode = dialog.validated
           /\ dialog.step # "closed" /\ dialog.validated = "update_existing" =>
                 dialog.run \in previewed
           /\ flow.kind \in {"retry", "commit"} /\ flow.mode = "update_existing" =>
                 flow.of \in previewed
BY DEF IInv, UpdateIsPreviewed

LEMMA BeginsType ==
    ASSUME NEW kind \in {"validate", "retry", "commit"}, NEW mode \in Modes,
           NEW from \in 1..Chunks, NEW of \in Runs \cup {NoOne}
    PROVE  /\ Begins(kind, mode, from, of) \in Flow
           /\ Begins(kind, mode, from, of).kind = kind /\ Begins(kind, mode, from, of).mode = mode
           /\ Begins(kind, mode, from, of).of = of /\ ~Begins(kind, mode, from, of).awaits
BY FreshTypes DEF Begins, Flow

\* runCommit goes on with the rule and for the run it is given.
LEMMA CommitsType ==
    ASSUME IInv, NEW mode \in Modes, NEW from \in 1..Chunks, NEW of \in Runs \cup {NoOne},
           Commits(mode, from, of)
    PROVE  /\ flow' \in Flow /\ flow'.mode = mode /\ flow'.of = of /\ ~flow'.awaits
           /\ SameRule
<1>1. flow' \in Flow /\ flow'.mode = mode /\ flow'.of = of /\ ~flow'.awaits
    BY BeginsType DEF Commits
<1>2. from - 1 \in 0..Chunks
    BY TypeFacts
<1>3. SameRule
    BY <1>2, TypeFacts DEF Commits, Dialog, SameRule
<1> QED BY <1>1, <1>3

\* The run that is drawn is no longer in use, so that nothing that goes on depends on
\* what it has shown.
LEMMA ResetKeeps == ASSUME IInv, NEW step \in {"closed", "map"}, Resets(step) PROVE IInv'
<1>1. PICK run \in NewRun : /\ dialog' = Reset(run, step) /\ previewed' = previewed \ {run}
                           /\ UNCHANGED <<creator, overwritten, flow, key, jobVars, forgotten,
                                          failures>>
    BY DEF Resets
<1>2. run \in Runs /\ ~Used(run)
    BY TypeFacts DEF NewRun
<1>3. TypeOK'
    BY <1>1, <1>2, FreshTypes DEF IInv, TypeOK, jobVars
<1>4. UpdateIsPreviewed'
  <2>1. dialog'.step # "confirm" /\ dialog'.validated # "update_existing"
      BY <1>1, <1>2, FreshTypes
  <2>2. flow.kind # "none" => flow.of # run
      BY <1>2 DEF Used, Quiet
  <2>3. run \notin overwritten /\ \A k \in Keys : key[k].of # run
      BY <1>2 DEF Used
  <2> QED BY <1>1, <2>1, <2>2, <2>3 DEF IInv, UpdateIsPreviewed, NothingOverwrittenUnseen
<1>5. AwaitsUnderRun' /\ JobPasswords'
    BY <1>1, JobUntouched DEF IInv, AwaitsUnderRun
<1> QED BY <1>3, <1>4, <1>5 DEF IInv

\* Whatever else the administrator clicks.
LEMMA UserKeeps == ASSUME IInv, UserActs PROVE IInv'
<1>1. CASE Open \/ Close
    BY <1>1, ResetKeeps DEF Open, Close
<1>2. CASE ~(Open \/ Close)
  <2>1. /\ UNCHANGED <<creator, overwritten, jobVars, forgotten, key, previewed>>
        /\ key \in [Keys -> Key] /\ previewed \subseteq Runs /\ failures' \in 0..MaxFailures
    <3>1. UserStep
        BY <1>2 DEF UserActs, Validate, Continue, Back, Import, RetryRemaining, Stop, Choose
    <3> QED BY <3>1, TypeFacts DEF UserStep, history, IInv, TypeOK
  <2> DEFINE Preserved ==
        /\ dialog' \in Dialog /\ flow' \in Flow
        /\ dialog'.step = "confirm" => dialog'.mode = dialog'.validated
        /\ dialog'.step # "closed" /\ dialog'.validated = "update_existing" =>
              dialog'.run \in previewed
        /\ flow'.kind \in {"retry", "commit"} /\ flow'.mode = "update_existing" =>
              flow'.of \in previewed
        /\ flow'.awaits => flow'.kind = "commit" /\ flow'.run \in Runs
  <2> SUFFICES Preserved
      BY <2>1, DialogKeeps
  <2>2. dialog.mode \in Modes /\ dialog.run \in Runs
      BY TypeFacts DEF Dialog
  <2>3. CASE Validate
    <3>1. 1 \in 1..Chunks
        BY ImportAssumption
    <3>2. flow' \in Flow /\ flow'.kind = "validate" /\ ~flow'.awaits
        BY <2>2, <2>3, <3>1, BeginsType DEF Validate
    <3>3. SameRule
        BY <2>3, TypeFacts DEF Validate, Dialog, SameRule
    <3> QED BY <2>3, <3>2, <3>3, RuleFacts DEF Validate, SameRule
  <2>4. ASSUME NEW mode \in Modes, Choose(mode) PROVE Preserved
      BY <2>4, TypeFacts, RuleFacts DEF Choose, Dialog
  <2>5. CASE Continue
      BY <2>5, TypeFacts, RuleFacts DEF Continue, RuleIsValidated, Dialog
  <2>6. CASE Back
    <3>1. PICK step \in {"validate", "map"} :
             dialog' = [dialog EXCEPT !.step = step] /\ dialog.step # "closed"
        BY <2>6 DEF Back
    <3>2. UNCHANGED flow
        BY <2>6 DEF Back
    <3> QED BY <3>1, <3>2, TypeFacts, RuleFacts DEF Dialog
  <2>7. CASE Import
    <3>1. Commits(dialog.mode, 1, dialog.run) /\ dialog.step = "confirm" /\ 1 \in 1..Chunks
        BY <2>7, ImportAssumption DEF Import
    <3>2. /\ flow' \in Flow /\ flow'.mode = dialog.mode /\ flow'.of = dialog.run /\ ~flow'.awaits
          /\ SameRule
        BY <2>2, <3>1, CommitsType
    <3> QED BY <3>1, <3>2, RuleFacts DEF SameRule
  <2>8. CASE RetryRemaining
    <3>1. dialog.progress + 1 \in 1..Chunks
        BY <2>8, TypeFacts DEF RetryRemaining
    <3>2. /\ flow' \in Flow /\ flow'.mode = dialog.mode /\ flow'.of = dialog.run /\ ~flow'.awaits
          /\ dialog.step = "confirm"
        BY <2>2, <2>8, <3>1, BeginsType DEF RetryRemaining
    <3>3. SameRule
        BY <2>8, TypeFacts DEF RetryRemaining, Dialog, SameRule
    <3> QED BY <3>2, <3>3, RuleFacts DEF SameRule
  <2>9. CASE Stop
    <3>1. SameRule /\ UNCHANGED flow
        BY <2>9, TypeFacts DEF Stop, Dialog, SameRule
    <3> QED BY <3>1, RuleFacts, TypeFacts, <2>9 DEF SameRule, Stop
  <2> QED BY <1>2, <2>3, <2>4, <2>5, <2>6, <2>7, <2>8, <2>9 DEF UserActs
<1> QED BY <1>1, <1>2

-----------------------------------------------------------------------------
(* The flows *)

\* What a flow may do to the dialog while it commits.
LEMMA CommitFlowKeeps ==
    ASSUME IInv, UNCHANGED <<creator, overwritten, jobVars, forgotten, previewed>>,
           key' \in [Keys -> Key], failures' \in 0..MaxFailures, SameRule, FlowGoesOn,
           \A k \in Keys : key'[k].state = "running" /\ key'[k].mode = "update_existing" =>
              key'[k] = key[k] \/ key'[k].of \in previewed
    PROVE  IInv'
<1>1. previewed \subseteq Runs
    BY TypeFacts
<1>2. /\ dialog'.step = "confirm" => dialog'.mode = dialog'.validated
      /\ dialog'.step # "closed" /\ dialog'.validated = "update_existing" =>
            dialog'.run \in previewed
      /\ flow'.kind \in {"retry", "commit"} /\ flow'.mode = "update_existing" =>
            flow'.of \in previewed
    BY RuleFacts DEF SameRule, FlowGoesOn
<1> QED BY <1>1, <1>2, DialogKeeps DEF SameRule, FlowGoesOn

LEMMA EndsType ==
    ASSUME IInv, NEW done \in BOOLEAN, NEW collected \in SUBSET Students, Ends(done, collected)
    PROVE  SameRule /\ FlowGoesOn
<1>1. flow.from \in 1..Chunks /\ Chunks \in 0..Chunks
    BY TypeFacts DEF Flow
<1>2. SameRule
    BY <1>1, TypeFacts DEF Ends, Dialog, SameRule
<1> QED BY <1>2, FreshTypes DEF Ends, FlowGoesOn

LEMMA GivesType ==
    ASSUME IInv, flow.kind = "commit", NEW made \in SUBSET Students, Gives(made)
    PROVE  SameRule /\ FlowGoesOn
<1>1. flow.at \in 1..Chunks /\ flow.from \in 1..Chunks /\ flow.collected \cup made \in SUBSET Students
      /\ flow.at \in 0..Chunks
    BY TypeFacts DEF Flow
<1>2. CASE IsLast(flow.at)
    BY <1>1, <1>2, EndsType DEF Gives
<1>3. CASE ~IsLast(flow.at) /\ dialog.stop
  <2>1. dialog' = [dialog EXCEPT !.executing = FALSE, !.failed = TRUE, !.from = flow.from,
                                 !.credentials = flow.collected \cup made, !.progress = flow.at]
      BY <1>3 DEF Gives
  <2>2. flow' = Idle
      BY <1>3 DEF Gives
  <2>3. SameRule
      BY <1>1, <2>1, TypeFacts DEF Dialog, SameRule
  <2> QED BY <2>2, <2>3, FreshTypes DEF FlowGoesOn
<1>4. CASE ~IsLast(flow.at) /\ ~dialog.stop
  <2>1. flow.at + 1 \in 1..Chunks
      BY <1>1, <1>4, TypeFacts DEF IsLast
  <2>2. flow' = [flow EXCEPT !.at = @ + 1, !.awaits = FALSE, !.collected = @ \cup made]
      BY <1>4 DEF Gives
  <2>3. FlowGoesOn
      BY <1>1, <2>1, <2>2, TypeFacts DEF Flow, FlowGoesOn
  <2> QED BY <1>1, <1>4, <2>3, TypeFacts DEF Gives, Dialog, SameRule
<1> QED BY <1>2, <1>3, <1>4

LEMMA RefusedType == ASSUME IInv, Refused PROVE SameRule /\ FlowGoesOn
<1>1. flow.collected \in SUBSET Students
    BY TypeFacts DEF Flow
<1> QED BY <1>1, EndsType DEF Refused

\* What is shown is the run's that shows it; a retry goes on to commit for the run it
\* was started from.
LEMMA ValidationKeeps ==
    ASSUME IInv, Validated \/ Revalidated \/ ValidationFails PROVE IInv'
<1>1. /\ UNCHANGED <<creator, overwritten, jobVars, forgotten, key, failures>>
      /\ key \in [Keys -> Key] /\ failures \in 0..MaxFailures
      /\ flow.mode \in Modes /\ flow.from \in 1..Chunks /\ flow.of \in Runs \cup {NoOne}
    BY TypeFacts DEF Validated, Revalidated, ValidationFails, FlowStep, Flow, IInv, TypeOK
<1>2. CASE Revalidated
  <2>1. /\ Commits(flow.mode, flow.from, flow.of) /\ UNCHANGED previewed /\ flow.kind = "retry"
        /\ previewed \subseteq Runs
      BY <1>2, TypeFacts DEF Revalidated
  <2>2. /\ flow' \in Flow /\ flow'.mode = flow.mode /\ flow'.of = flow.of /\ ~flow'.awaits
        /\ SameRule
      BY <1>1, <2>1, CommitsType
  <2> QED BY <1>1, <2>1, <2>2, RuleFacts, DialogKeeps DEF SameRule
<1>3. CASE Validated
  <2>1. /\ flow' = Idle
        /\ previewed' = previewed \cup
              {run \in {dialog.run} : dialog.step # "closed" /\ flow.mode = "update_existing"}
        /\ dialog' = [dialog EXCEPT !.step = IF @ = "closed" THEN @ ELSE "validate",
                          !.validated = flow.mode, !.validating = FALSE]
      BY <1>3 DEF Validated
  <2>2. /\ dialog' \in Dialog /\ dialog'.step # "confirm" /\ dialog'.validated = flow.mode
        /\ dialog'.run = dialog.run /\ (dialog'.step # "closed" => dialog.step # "closed")
      BY <1>1, <2>1, TypeFacts DEF Dialog
  <2>3. /\ previewed' \subseteq Runs /\ previewed \subseteq previewed'
        /\ dialog'.step # "closed" /\ dialog'.validated = "update_existing" =>
              dialog'.run \in previewed'
      BY <2>1, <2>2, TypeFacts
  <2>4. flow' \in Flow /\ flow'.kind = "none" /\ ~flow'.awaits
      BY <2>1, FreshTypes
  <2> QED BY <1>1, <2>2, <2>3, <2>4, DialogKeeps
<1>4. CASE ValidationFails
  <2>1. SameRule
      BY <1>4, TypeFacts DEF ValidationFails, Dialog, SameRule
  <2>2. FlowGoesOn /\ UNCHANGED previewed
      BY <1>4, FreshTypes DEF ValidationFails, FlowGoesOn
  <2> QED BY <1>1, <2>1, <2>2, CommitFlowKeeps
<1> QED BY <1>2, <1>3, <1>4

\* An execution carries the rule of its flow, and the run it was started from.
LEMMA SendKeeps == ASSUME IInv, Send PROVE IInv'
<1> DEFINE k == <<dialog.run, flow.at>>
<1>1. /\ flow.kind = "commit" /\ k \in Keys /\ key[k] \in Key /\ flow.mode \in Modes
      /\ flow.of \in Runs \cup {NoOne}
    BY TypeFacts DEF Send, Flow
<1>2. /\ UNCHANGED <<creator, overwritten, jobVars, forgotten, previewed>>
      /\ failures' \in 0..MaxFailures
    BY DEF Send, FlowStep, IInv, TypeOK
<1>3. CASE key[k].state = "fresh"
  <2> DEFINE row == [FreshKey EXCEPT !.state = "running", !.mode = flow.mode, !.of = flow.of]
  <2>1. /\ key' = [key EXCEPT ![k] = row]
        /\ flow' = [flow EXCEPT !.awaits = TRUE, !.run = dialog.run]
        /\ UNCHANGED dialog
      BY <1>3 DEF Send
  <2>2. row \in Key /\ row.mode = flow.mode /\ row.of = flow.of
      BY <1>1, FreshTypes DEF Key
  <2>3. FlowGoesOn
      BY <1>1, <2>1, TypeFacts DEF Flow, FlowGoesOn
  <2>4. key' \in [Keys -> Key] /\ \A i \in Keys : key'[i] = key[i] \/ key'[i] = row
    <3> HIDE DEF row, k
    <3> QED BY <2>1, <2>2, <1>1, TypeFacts
  <2>5. \A i \in Keys : key'[i].state = "running" /\ key'[i].mode = "update_existing" =>
           key'[i] = key[i] \/ key'[i].of \in previewed
    <3> HIDE DEF row
    <3> QED BY <1>1, <2>2, <2>4, RuleFacts
  <2>6. SameRule
      BY <1>1, <2>1, TypeFacts DEF SameRule
  <2> QED BY <1>2, <2>3, <2>4, <2>5, <2>6, CommitFlowKeeps
<1>4. CASE key[k].state # "fresh"
  <2>1. UNCHANGED key /\ (Gives(key[k].made) \/ Refused)
      BY <1>4 DEF Send, Replayed
  <2>2. key[k].made \in SUBSET Students
      BY <1>1 DEF Key
  <2>3. SameRule /\ FlowGoesOn
    <3>1. CASE Refused
        BY <3>1, RefusedType
    <3>2. CASE Gives(key[k].made)
      <4> HIDE DEF k
      <4> QED BY <1>1, <3>2, <2>2, GivesType
    <3> QED BY <2>1, <3>1, <3>2
  <2>4. key' \in [Keys -> Key] /\ key' = key
      BY <2>1, TypeFacts
  <2> HIDE DEF k
  <2> QED BY <1>2, <2>3, <2>4, CommitFlowKeeps
<1> QED BY <1>3, <1>4

\* An answer, or none, ends the flow or takes it on; only a commit awaits one.
LEMMA AnswerKeeps == ASSUME IInv, Answer \/ TimesOut PROVE IInv'
<1> DEFINE answer == key[<<flow.run, flow.at>>]
<1>1. <<flow.run, flow.at>> \in Keys /\ answer.made \in SUBSET Students /\ flow.kind = "commit"
    BY TypeFacts DEF Answer, TimesOut, Flow, Key
<1>2. /\ UNCHANGED <<creator, overwritten, jobVars, forgotten, previewed, key>>
      /\ failures' \in 0..MaxFailures
    BY FailureType DEF Answer, TimesOut, FlowStep, IInv, TypeOK
<1>3. Gives(answer.made) \/ Refused
    BY DEF Answer, TimesOut
<1>4. SameRule /\ FlowGoesOn
  <2>1. CASE Refused
      BY <2>1, RefusedType
  <2>2. CASE Gives(answer.made)
    <3> HIDE DEF answer
    <3> QED BY <2>2, <1>1, GivesType
  <2> QED BY <1>3, <2>1, <2>2
<1>5. key' \in [Keys -> Key] /\ key' = key
    BY <1>2, TypeFacts
<1> QED BY <1>2, <1>4, <1>5, CommitFlowKeeps

-----------------------------------------------------------------------------
(* The background job *)

\* Steps of the job: what the dialog and its executions have is theirs.
LEMMA DialogUntouched ==
    ASSUME IInv, JobStep, overwritten' \cap Runs \subseteq overwritten
    PROVE  UpdateIsPreviewed' /\ AwaitsUnderRun'
BY DEF IInv, UpdateIsPreviewed, AwaitsUnderRun, NothingOverwrittenUnseen, JobStep, history

LEMMA JobTypeKeeps ==
    ASSUME IInv, JobStep, WithoutAccounts, job' \in Jobs, staged' \subseteq Students,
           local' \subseteq Students, poll' \in [Polls -> {"idle", "holding"}], handed' \in BOOLEAN,
           failures' \in 0..MaxFailures
    PROVE  TypeOK' /\ UpdateIsPreviewed' /\ AwaitsUnderRun'
<1>1. TypeOK'
    BY DEF IInv, TypeOK, JobStep, WithoutAccounts, history
<1> QED BY <1>1, DialogUntouched DEF WithoutAccounts

LEMMA JobFacts ==
    ASSUME IInv
    PROVE  /\ job \in Jobs /\ job.made \in SUBSET Students /\ job.tries \in 0..JobAttempts
           /\ staged \subseteq Students /\ local \subseteq Students /\ handed \in BOOLEAN
           /\ poll \in [Polls -> {"idle", "holding"}] /\ failures \in 0..MaxFailures
           /\ JobPasswords
BY DEF IInv, TypeOK

LEMMA SameMissing == WithoutAccounts => Missing(JobRows)' = Missing(JobRows)
BY DEF WithoutAccounts, Missing

LEMMA EnqueueKeeps == ASSUME IInv, Enqueue PROVE IInv'
<1>1. /\ job' \in Jobs
      /\ job' = job \/ (job'.state = "waiting" /\ job'.made = {})
    BY JobFacts, FreshTypes DEF Enqueue, JobPasswords
<1>2. JobStep /\ WithoutAccounts /\ UNCHANGED <<staged, local, poll, handed, failures>>
    BY DEF Enqueue
<1>3. JobPasswords'
    BY <1>1, <1>2, JobFacts, SameMissing DEF JobPasswords, HandedOutIsGone
<1>4. TypeOK' /\ UpdateIsPreviewed' /\ AwaitsUnderRun'
  <2>1. /\ staged' \subseteq Students /\ local' \subseteq Students
        /\ poll' \in [Polls -> {"idle", "holding"}]
        /\ handed' \in BOOLEAN /\ failures' \in 0..MaxFailures
      BY <1>2, JobFacts
  <2> QED BY <1>1, <1>2, <2>1, JobTypeKeeps
<1> QED BY <1>3, <1>4 DEF IInv

\* The job creates what is missing, so that nothing is missing afterwards.
LEMMA JobCommitsKeeps == ASSUME IInv, JobCommits PROVE IInv'
<1>1. /\ Imports(JobRows, JobMode, Job, Job) /\ JobStep
      /\ UNCHANGED <<staged, local, poll, handed, failures>>
      /\ job' = [job EXCEPT !.state = "committed", !.made = Missing(JobRows)]
    BY DEF JobCommits
<1>2. JobRows \in SUBSET Students /\ Missing(JobRows) \in SUBSET Students
    BY ImportAssumption DEF Missing
<1>3. /\ creator' \in [Students -> {NoOne, Before, Job} \cup Runs]
      /\ overwritten' \subseteq Runs \cup {Job}
      /\ \A s \in Students : creator'[s] = NoOne => creator[s] = NoOne /\ s \notin JobRows
    BY <1>1, <1>2, ImportsCreates
<1>4. Missing(JobRows)' = {}
    BY <1>2, <1>3 DEF Missing
<1>5. job' \in Jobs /\ job'.state = "committed" /\ job'.made = Missing(JobRows)
    BY <1>1, <1>2, JobFacts
<1>6. TypeOK'
    BY <1>1, <1>3, <1>5 DEF IInv, TypeOK, JobStep, history
<1>7. overwritten' \cap Runs \subseteq overwritten
    BY <1>1, ImportAssumption DEF Imports
<1>8. UpdateIsPreviewed' /\ AwaitsUnderRun'
    BY <1>1, <1>7, DialogUntouched
<1>9. JobPasswords'
    BY <1>1, <1>4, <1>5, JobFacts DEF JobPasswords, HandedOutIsGone
<1> QED BY <1>6, <1>8, <1>9 DEF IInv

\* What is staged comes from the job's own commit; after a poll there is nothing
\* left to stage.
LEMMA JobStagesKeeps == ASSUME IInv, JobStages PROVE IInv'
<1>1. /\ JobStep /\ WithoutAccounts /\ UNCHANGED <<poll, handed>>
      /\ job.state = "committed" /\ job' = [job EXCEPT !.state = "staged", !.made = {}]
    BY DEF JobStages
<1>2. /\ staged' \in {staged, job.made} /\ local' \in {local, {}, job.made}
      /\ job.made = {} => staged' = staged /\ local' = local
    BY DEF JobStages
<1>3. job' \in Jobs /\ job'.state = "staged" /\ job'.made = {}
    BY <1>1, JobFacts
<1>4. failures' \in 0..MaxFailures
    BY JobFacts, FailureType DEF JobStages
<1>5. TypeOK' /\ UpdateIsPreviewed' /\ AwaitsUnderRun'
  <2>1. /\ staged' \subseteq Students /\ local' \subseteq Students
        /\ poll' \in [Polls -> {"idle", "holding"}]
        /\ handed' \in BOOLEAN
      BY <1>1, <1>2, JobFacts
  <2> QED BY <1>1, <1>3, <1>4, <2>1, JobTypeKeeps
<1>6. JobPasswords'
    BY <1>1, <1>2, <1>3, JobFacts, SameMissing DEF JobPasswords, HandedOutIsGone
<1> QED BY <1>5, <1>6 DEF IInv

LEMMA JobEndsKeeps ==
    ASSUME IInv, JobCompletes \/ JobFails \/ JobIsRemoved \/ StagedExpires
    PROVE  IInv'
<1>1. /\ JobStep /\ WithoutAccounts /\ UNCHANGED <<poll, handed>>
      /\ staged' \in {staged, {}} /\ local' \in {local, {}}
    BY DEF JobCompletes, JobFails, JobIsRemoved, StagedExpires
<1>2. /\ job' \in Jobs
      /\ \/ job' = job
         \/ job'.made = {} /\ job'.state \notin {"committed", "staged", "completed"}
         \/ job'.made = job.made /\ job.state = "staged" /\ job'.state = "completed"
  <2>1. CASE JobFails
    <3>1. job.tries + 1 < JobAttempts => job.tries + 1 \in 0..JobAttempts
        BY JobFacts, TypeFacts
    <3> QED BY <2>1, <3>1, JobFacts, FreshTypes DEF JobFails
  <2>2. CASE ~JobFails
      BY <2>2, JobFacts, FreshTypes DEF JobCompletes, JobIsRemoved, StagedExpires
  <2> QED BY <2>1, <2>2
<1>3. failures' \in 0..MaxFailures
    BY JobFacts, FailureType DEF JobCompletes, JobFails, JobIsRemoved, StagedExpires
<1>4. TypeOK' /\ UpdateIsPreviewed' /\ AwaitsUnderRun'
  <2>1. /\ staged' \subseteq Students /\ local' \subseteq Students
        /\ poll' \in [Polls -> {"idle", "holding"}]
        /\ handed' \in BOOLEAN
      BY <1>1, JobFacts
  <2> QED BY <1>1, <1>2, <1>3, <2>1, JobTypeKeeps
<1>5. JobPasswords'
    BY <1>1, <1>2, JobFacts, SameMissing DEF JobPasswords, HandedOutIsGone
<1> QED BY <1>4, <1>5 DEF IInv

\* Who polls finds the job completed, and so nothing in its hands.
LEMMA PollKeeps == ASSUME IInv, NEW p \in Polls, Poll(p) \/ HandOut(p) PROVE IInv'
<1>1. /\ JobStep /\ WithoutAccounts /\ UNCHANGED job
      /\ \/ job.state = "completed" /\ UNCHANGED <<staged, local, handed>>
         \/ poll[p] = "holding" /\ staged' = {} /\ local' = {}
         \/ poll[p] = "holding" /\ local' = {} /\ UNCHANGED <<staged, handed>>
    BY DEF Poll, HandOut, Removed
<1>2. /\ poll' \in [Polls -> {"idle", "holding"}]
      /\ (\E q \in Polls : poll'[q] = "holding") =>
            (\E q \in Polls : poll[q] = "holding") \/ job.state = "completed"
    BY JobFacts DEF Poll, HandOut
<1>3. /\ failures' \in 0..MaxFailures /\ handed' \in BOOLEAN
      /\ handed' => handed \/ (poll[p] = "holding" /\ staged' = {} /\ local' = {})
  <2>1. failures' \in 0..MaxFailures
      BY JobFacts, FailureType DEF Poll, HandOut
  <2>2. handed' = handed \/ (handed' = TRUE /\ poll[p] = "holding" /\ staged' = {} /\ local' = {})
      BY DEF Poll, HandOut, Removed
  <2>3. handed' \in BOOLEAN
      BY <2>2, JobFacts
  <2> QED BY <2>1, <2>2, <2>3
<1>4. TypeOK' /\ UpdateIsPreviewed' /\ AwaitsUnderRun'
  <2>1. staged' \subseteq Students /\ local' \subseteq Students /\ job' \in Jobs
      BY <1>1, JobFacts
  <2> QED BY <1>1, <1>2, <1>3, <2>1, JobTypeKeeps
<1>5. JobPasswords'
  <2>1. Missing(JobRows)' = Missing(JobRows)
      BY <1>1, SameMissing
  <2>2. poll[p] = "holding" \/ job.state = "completed" => job.made = {} /\ Missing(JobRows) = {}
      BY JobFacts DEF JobPasswords
  <2> QED BY <1>1, <1>2, <1>3, <2>1, <2>2, JobFacts DEF JobPasswords, HandedOutIsGone
<1> QED BY <1>4, <1>5 DEF IInv

-----------------------------------------------------------------------------
LEMMA StutterKeeps == IInv /\ UNCHANGED vars => IInv'
BY DEF vars, jobVars, history, IInv, TypeOK, UpdateIsPreviewed, AwaitsUnderRun,
       NothingOverwrittenUnseen, JobPasswords, HandedOutIsGone, Missing

LEMMA NextInvariant == IInv /\ [Next]_vars => IInv'
BY UserKeeps, ValidationKeeps, SendKeeps, AnswerKeeps, ServerKeeps, EnqueueKeeps, JobCommitsKeeps,
   JobStagesKeeps, JobEndsKeeps, PollKeeps, StutterKeeps
DEF Next, FlowSteps, JobSteps

-----------------------------------------------------------------------------
\* Every variable keeps its type: no flow runs past the last chunk of its list.
THEOREM ImportTypeCorrect == Spec => []TypeOK
<1>1. IInv => TypeOK
    BY DEF IInv
<1> QED BY <1>1, InitInvariant, NextInvariant, PTL DEF Spec

\* Whatever run an import of the dialog goes on under, it overwrites profiles only if
\* the run it was started from has shown what that would do.
THEOREM OverwritesArePreviewed == Spec => []NothingOverwrittenUnseen
<1>1. IInv => NothingOverwrittenUnseen
    BY DEF IInv, UpdateIsPreviewed
<1> QED BY <1>1, InitInvariant, NextInvariant, PTL DEF Spec

\* Passwords a poll has handed out are never staged again.
THEOREM PasswordsAreHandedOutOnce == Spec => []HandedOutIsGone
<1>1. IInv => HandedOutIsGone
    BY DEF IInv, JobPasswords
<1> QED BY <1>1, InitInvariant, NextInvariant, PTL DEF Spec
-----------------------------------------------------------------------------
(* The report of a whole run *)

\* The server still has the passwords of every account a run created, as long as
\* it has forgotten none of its answers.
CreatedIsKept ==
    \A run \in Runs \ forgotten : \A s \in Students : creator[s] = run =>
        \E c \in 1..Chunks : /\ key[<<run, c>>].state \in {"committed", "stored"}
                             /\ s \in key[<<run, c>>].made

WholeRun == flow.kind = "commit" /\ flow.from = 1

\* A flow that imports the whole list keeps the dialog where it is, with the run it
\* sends; one that tries the rest again never starts from the first chunk.
FlowIsBound ==
    /\ flow.awaits => flow.kind = "commit"
    /\ flow.kind = "retry" => flow.from # 1
    /\ WholeRun => dialog.executing /\ dialog.step = "confirm"
    /\ WholeRun /\ flow.awaits => flow.run = dialog.run
    /\ dialog.step = "report" => flow.kind = "none"

Gathered(chunks, passwords) ==
    \A c \in chunks : /\ key[<<dialog.run, c>>].state = "stored"
                      /\ key[<<dialog.run, c>>].made \subseteq passwords

\* What the chunks before the current one created has been collected.
AnswersAreGathered ==
    dialog.run \notin forgotten =>
        /\ WholeRun => Gathered(1..flow.at - 1, flow.collected)
        /\ dialog.step = "report" /\ dialog.from = 1 => Gathered(1..Chunks, dialog.credentials)

ReportSafe == CreatedIsKept /\ FlowIsBound /\ AnswersAreGathered

LEMMA ReportInit == Init => ReportSafe
<1> SUFFICES ASSUME Init PROVE ReportSafe
    OBVIOUS
<1>1. flow.kind = "none" /\ flow.awaits = FALSE /\ dialog.step = "closed"
    BY DEF Init, Idle, Reset
<1>2. \A s \in Students : creator[s] \notin Runs
    BY ImportAssumption DEF Init
<1> QED BY <1>1, <1>2 DEF ReportSafe, CreatedIsKept, FlowIsBound, WholeRun, AnswersAreGathered

\* What an execution made stays under its key until the server forgets it.
PasswordsKept ==
    /\ forgotten \subseteq forgotten'
    /\ \A k \in Keys : k[1] \notin forgotten' /\ key[k].state \in {"committed", "stored"} =>
          key'[k].state \in {key[k].state, "stored"} /\ key'[k].made = key[k].made

LEMMA ServerPasswords == ASSUME IInv, ServerStep PROVE PasswordsKept
<1>1. PICK k \in Keys : Commit(k) \/ Abort(k) \/ Store(k) \/ Crash(k) \/ KeyExpires(k)
    BY DEF ServerStep
<1>2. key \in [Keys -> Key] /\ key[k] \in Key
    BY TypeFacts
<1>3. forgotten \subseteq forgotten'
    BY <1>1 DEF Commit, Abort, Store, Crash, KeyExpires, history
<1>4. \A i \in Keys \ {k} : key'[i] = key[i]
    BY <1>1, <1>2 DEF Commit, Abort, Store, Crash, KeyExpires
<1>5. ASSUME k[1] \notin forgotten', key[k].state \in {"committed", "stored"}
      PROVE  key'[k].state \in {key[k].state, "stored"} /\ key'[k].made = key[k].made
  <2>1. Store(k)
      BY <1>1, <1>5 DEF Commit, Abort, Crash, KeyExpires
  <2>2. key'[k] = [key[k] EXCEPT !.state = "stored"]
      BY <2>1, <1>2 DEF Store
  <2> QED BY <1>2, <2>2 DEF Key
<1> QED BY <1>3, <1>4, <1>5 DEF PasswordsKept

LEMMA CreatedStays ==
    ASSUME CreatedIsKept, PasswordsKept, UNCHANGED creator
    PROVE  CreatedIsKept'
<1> SUFFICES ASSUME NEW run \in Runs \ forgotten', NEW s \in Students, creator'[s] = run
             PROVE  \E c \in 1..Chunks : /\ key'[<<run, c>>].state \in {"committed", "stored"}
                                         /\ s \in key'[<<run, c>>].made
    BY DEF CreatedIsKept
<1>1. PICK c \in 1..Chunks : /\ key[<<run, c>>].state \in {"committed", "stored"}
                            /\ s \in key[<<run, c>>].made
    BY DEF CreatedIsKept, PasswordsKept
<1>2. <<run, c>> \in Keys /\ <<run, c>>[1] = run
    OBVIOUS
<1> QED BY <1>1, <1>2 DEF PasswordsKept

LEMMA DialogStays ==
    ASSUME IInv, ReportSafe, PasswordsKept, UNCHANGED <<dialog, flow>>
    PROVE  FlowIsBound' /\ AnswersAreGathered'
<1>1. FlowIsBound'
    BY DEF ReportSafe, FlowIsBound, WholeRun
<1>2. 1..flow.at - 1 \subseteq 1..Chunks
    BY TypeFacts DEF Flow
<1>3. ASSUME dialog.run \notin forgotten', WholeRun
      PROVE  Gathered(1..flow.at - 1, flow.collected)'
  <2>1. Gathered(1..flow.at - 1, flow.collected)
      BY <1>3 DEF ReportSafe, AnswersAreGathered, PasswordsKept
  <2> QED BY <1>2, <1>3, <2>1, TypeFacts DEF Gathered, PasswordsKept
<1>4. ASSUME dialog.run \notin forgotten', dialog.step = "report", dialog.from = 1
      PROVE  Gathered(1..Chunks, dialog.credentials)'
  <2>1. Gathered(1..Chunks, dialog.credentials)
      BY <1>4 DEF ReportSafe, AnswersAreGathered, PasswordsKept
  <2> QED BY <1>4, <2>1, TypeFacts DEF Gathered, PasswordsKept
<1> QED BY <1>1, <1>3, <1>4 DEF AnswersAreGathered, WholeRun

\* A commit keeps the passwords it makes, and creates no account beyond them.
LEMMA ServerReports == ASSUME IInv, ReportSafe, ServerStep PROVE ReportSafe'
<1>1. PasswordsKept
    BY ServerPasswords
<1>2. UNCHANGED <<dialog, flow>>
    BY DEF ServerStep, Commit, Abort, Store, Crash, KeyExpires
<1>3. PICK k \in Keys : Commit(k) \/ Abort(k) \/ Store(k) \/ Crash(k) \/ KeyExpires(k)
    BY DEF ServerStep
<1>4. CASE Commit(k)
  <2> SUFFICES ASSUME NEW run \in Runs \ forgotten', NEW s \in Students, creator'[s] = run
               PROVE  \E c \in 1..Chunks : /\ key'[<<run, c>>].state \in {"committed", "stored"}
                                           /\ s \in key'[<<run, c>>].made
      BY <1>1, <1>2, DialogStays DEF ReportSafe, CreatedIsKept
  <2>1. CASE creator[s] = run
    <3>1. PICK c \in 1..Chunks : /\ key[<<run, c>>].state \in {"committed", "stored"}
                                /\ s \in key[<<run, c>>].made
        BY <2>1, <1>1 DEF ReportSafe, CreatedIsKept, PasswordsKept
    <3>2. <<run, c>> \in Keys /\ <<run, c>>[1] = run
        OBVIOUS
    <3> QED BY <1>1, <3>1, <3>2 DEF PasswordsKept
  <2>2. CASE creator[s] # run
    <3>1. s \in Missing(Rows[k[2]]) /\ run = k[1]
        BY <1>4, <2>2 DEF Commit, Imports
    <3>2. k[2] \in 1..Chunks /\ k = <<run, k[2]>>
        BY <3>1
    <3>3. key'[k] = [key[k] EXCEPT !.state = "committed", !.of = NoOne,
                            !.made = Missing(Rows[k[2]])]
        BY <1>4, TypeFacts DEF Commit
    <3>4. key'[k].state = "committed" /\ s \in key'[k].made
        BY <3>1, <3>3, TypeFacts DEF Key
    <3> QED BY <3>2, <3>4
  <2> QED BY <2>1, <2>2
<1>5. CASE ~Commit(k)
  <2>1. UNCHANGED creator
      BY <1>3, <1>5 DEF Abort, Store, Crash, KeyExpires
  <2> QED BY <1>1, <1>2, <2>1, CreatedStays, DialogStays DEF ReportSafe
<1> QED BY <1>4, <1>5
\* No whole run is under way, and no report is shown.
LEMMA NothingShown ==
    ASSUME ~WholeRun', dialog'.step # "report",
           flow'.awaits => flow'.kind = "commit",
           flow'.kind = "retry" => flow'.from # 1
    PROVE  FlowIsBound' /\ AnswersAreGathered'
BY DEF FlowIsBound, AnswersAreGathered, WholeRun

LEMMA FlowFacts ==
    ASSUME ReportSafe
    PROVE  /\ flow.awaits => flow.kind = "commit"
           /\ flow.kind = "retry" => flow.from # 1
           /\ WholeRun => dialog.executing /\ dialog.step = "confirm"
           /\ WholeRun /\ flow.awaits => flow.run = dialog.run
           /\ dialog.step = "report" => flow.kind = "none"
           /\ dialog.run \notin forgotten /\ WholeRun => Gathered(1..flow.at - 1, flow.collected)
BY DEF ReportSafe, FlowIsBound, AnswersAreGathered

LEMMA IdleFacts == Idle.kind = "none" /\ ~Idle.awaits /\ Idle.from = 1 /\ Idle.collected = {}
BY DEF Idle

LEMMA SamePasswords ==
    ASSUME IInv, ReportSafe, UNCHANGED <<creator, key, forgotten>>
    PROVE  PasswordsKept /\ CreatedIsKept'
<1>1. PasswordsKept
    BY DEF PasswordsKept
<1> QED BY <1>1, CreatedStays DEF ReportSafe

\* Nothing but a stop reaches the dialog while a whole run goes on.
LEMMA UserReports == ASSUME IInv, ReportSafe, UserActs PROVE ReportSafe'
<1>1. UNCHANGED <<creator, key, forgotten>>
    BY DEF UserActs, Open, Close, Validate, Continue, Back, Import, RetryRemaining, Stop, Choose,
           Resets, UserStep, history
<1>2. PasswordsKept /\ CreatedIsKept'
    BY <1>1, SamePasswords
<1> SUFFICES FlowIsBound' /\ AnswersAreGathered'
    BY <1>2 DEF ReportSafe
<1>3. CASE Open \/ Close
  <2>1. UNCHANGED flow /\ ~WholeRun
      BY <1>3, FlowFacts DEF Open, Close, Resets
  <2>2. dialog'.step \in {"closed", "map"}
      BY <1>3 DEF Open, Close, Resets, Reset
  <2> QED BY <2>1, <2>2, FlowFacts, NothingShown DEF WholeRun
<1>4. CASE Validate
  <2>1. dialog'.step # "report"
      BY <1>4, TypeFacts DEF Validate, Dialog
  <2>2. flow'.kind = "validate" /\ ~flow'.awaits
      BY <1>4 DEF Validate, Begins, Idle
  <2> QED BY <2>1, <2>2, NothingShown DEF WholeRun
<1>5. CASE (\E mode \in Modes : Choose(mode)) \/ Continue \/ Back
  <2>1. UNCHANGED flow /\ ~WholeRun
      BY <1>5, FlowFacts DEF Choose, Continue, Back
  <2>2. dialog'.step # "report"
      BY <1>5, TypeFacts DEF Choose, Continue, Back, Dialog
  <2> QED BY <2>1, <2>2, FlowFacts, NothingShown DEF WholeRun
<1>6. CASE Import
  <2>1. /\ flow'.kind = "commit" /\ flow'.from = 1 /\ flow'.at = 1 /\ ~flow'.awaits
        /\ dialog'.executing /\ dialog'.step = "confirm"
      BY <1>6, TypeFacts DEF Import, Commits, Begins, Idle, Dialog
  <2>2. 1..flow'.at - 1 = {}
      BY <2>1
  <2> QED BY <2>1, <2>2 DEF FlowIsBound, AnswersAreGathered, Gathered, WholeRun
<1>7. CASE RetryRemaining
  <2>1. dialog'.step # "report"
      BY <1>7, TypeFacts DEF RetryRemaining, Dialog
  <2>2. flow'.kind = "retry" /\ ~flow'.awaits /\ flow'.from # 1
      BY <1>7, TypeFacts DEF RetryRemaining, Begins, Idle
  <2> QED BY <2>1, <2>2, NothingShown DEF WholeRun
<1>8. CASE Stop
  <2>1. /\ UNCHANGED flow /\ dialog'.step = "confirm" /\ dialog'.run = dialog.run
        /\ dialog'.executing = dialog.executing
      BY <1>8, TypeFacts DEF Stop, Dialog
  <2>2. FlowIsBound'
      BY <2>1, FlowFacts DEF FlowIsBound, WholeRun
  <2>3. AnswersAreGathered'
      BY <1>1, <2>1, FlowFacts DEF AnswersAreGathered, Gathered, WholeRun
  <2> QED BY <2>2, <2>3
<1> QED BY <1>3, <1>4, <1>5, <1>6, <1>7, <1>8 DEF UserActs

LEMMA ValidationReports ==
    ASSUME IInv, ReportSafe, Validated \/ Revalidated \/ ValidationFails
    PROVE  ReportSafe'
<1>1. UNCHANGED <<creator, key, forgotten>> /\ flow.kind \in {"validate", "retry"}
    BY DEF Validated, Revalidated, ValidationFails, FlowStep
<1>2. CreatedIsKept' /\ dialog.step # "report"
    BY <1>1, SamePasswords, FlowFacts
<1>3. CASE Revalidated
  <2>1. /\ flow'.kind = "commit" /\ flow'.from # 1 /\ ~flow'.awaits
        /\ dialog'.step = dialog.step
      BY <1>3, FlowFacts, TypeFacts DEF Revalidated, Commits, Begins, Idle, Dialog
  <2> QED BY <1>2, <2>1, NothingShown DEF ReportSafe, WholeRun
<1>4. CASE Validated \/ ValidationFails
  <2>1. flow' = Idle /\ dialog'.step # "report"
      BY <1>2, <1>4, TypeFacts DEF Validated, ValidationFails, Dialog
  <2>2. flow'.kind = "none" /\ ~flow'.awaits
      BY <2>1, IdleFacts
  <2> QED BY <1>2, <2>1, <2>2, NothingShown DEF ReportSafe, WholeRun
<1> QED BY <1>3, <1>4

\* A flow that ends shows what it has collected; it claims to be done with the whole
\* list only when the last answer is there.
LEMMA EndsReports ==
    ASSUME IInv, ReportSafe, flow.kind = "commit", UNCHANGED <<creator, key, forgotten>>,
           NEW done \in BOOLEAN, NEW collected, Ends(done, collected),
           done /\ WholeRun /\ dialog.run \notin forgotten => Gathered(1..Chunks, collected)
    PROVE  ReportSafe'
<1>1. CreatedIsKept' /\ dialog.step # "report"
    BY SamePasswords, FlowFacts
<1>2. flow'.kind = "none" /\ ~flow'.awaits
    BY IdleFacts DEF Ends
<1>3. /\ dialog'.run = dialog.run /\ dialog'.from = flow.from /\ dialog'.credentials = collected
      /\ dialog'.step = "report" => done
    BY <1>1, TypeFacts DEF Ends, Dialog
<1>4. FlowIsBound'
    BY <1>2 DEF FlowIsBound, WholeRun
<1>5. AnswersAreGathered'
    BY <1>2, <1>3 DEF AnswersAreGathered, WholeRun, Gathered
<1> QED BY <1>1, <1>4, <1>5 DEF ReportSafe

LEMMA RefusedReports ==
    ASSUME IInv, ReportSafe, flow.kind = "commit", UNCHANGED <<creator, key, forgotten>>, Refused
    PROVE  ReportSafe'
BY EndsReports DEF Refused

LEMMA GivesReports ==
    ASSUME IInv, ReportSafe, flow.kind = "commit", UNCHANGED <<creator, key, forgotten>>,
           NEW made, Gives(made),
           WholeRun => /\ key[<<dialog.run, flow.at>>].state = "stored"
                       /\ key[<<dialog.run, flow.at>>].made = made
    PROVE  ReportSafe'
<1> DEFINE all == flow.collected \cup made
<1>1. flow.at \in 1..Chunks /\ Chunks \in Nat
    BY TypeFacts DEF Flow
<1>2. WholeRun /\ dialog.run \notin forgotten => Gathered(1..flow.at, all)
    BY <1>1, FlowFacts DEF Gathered
<1>3. CASE IsLast(flow.at)
    BY <1>2, <1>3, EndsReports DEF Gives, IsLast
<1>4. CASE ~IsLast(flow.at) /\ dialog.stop
  <2>1. dialog.step # "report"
      BY FlowFacts
  <2>2. dialog'.step # "report" /\ flow' = Idle
      BY <1>4, <2>1, TypeFacts DEF Gives, Dialog
  <2>3. flow'.kind = "none" /\ ~flow'.awaits
      BY <2>2, IdleFacts
  <2> QED BY <2>2, <2>3, SamePasswords, NothingShown DEF ReportSafe, WholeRun
<1>5. CASE ~IsLast(flow.at) /\ ~dialog.stop
  <2>1. /\ flow'.kind = "commit" /\ flow'.from = flow.from /\ flow'.at = flow.at + 1
        /\ ~flow'.awaits /\ flow'.collected = all
      BY <1>5, TypeFacts DEF Gives, Flow
  <2>2. dialog'.step = dialog.step /\ dialog'.run = dialog.run /\ dialog'.executing = dialog.executing
      BY <1>5, TypeFacts DEF Gives, Dialog
  <2>3. flow'.at - 1 = flow.at /\ dialog.step # "report"
      BY <1>1, <2>1, FlowFacts
  <2>4. FlowIsBound'
      BY <2>1, <2>2, <2>3, FlowFacts DEF FlowIsBound, WholeRun
  <2>5. AnswersAreGathered'
    <3> HIDE DEF all
    <3> QED BY <1>2, <2>1, <2>2, <2>3 DEF AnswersAreGathered, WholeRun, Gathered
  <2> QED BY <2>4, <2>5, SamePasswords DEF ReportSafe
<1> QED BY <1>3, <1>4, <1>5

LEMMA AnswerReports == ASSUME IInv, ReportSafe, Answer \/ TimesOut PROVE ReportSafe'
<1>1. UNCHANGED <<creator, key, forgotten>> /\ flow.kind = "commit" /\ flow.awaits
    BY FlowFacts DEF Answer, TimesOut, FlowStep
<1>2. CASE Refused
    BY <1>1, <1>2, RefusedReports
<1>3. CASE ~Refused
  <2> DEFINE answer == key[<<flow.run, flow.at>>]
  <2>1. answer.state = "stored" /\ Gives(answer.made)
      BY <1>3 DEF Answer, TimesOut
  <2>2. WholeRun => flow.run = dialog.run
      BY <1>1, FlowFacts
  <2> QED BY <1>1, <2>1, <2>2, GivesReports
<1> QED BY <1>2, <1>3

LEMMA SendReports == ASSUME IInv, ReportSafe, Send PROVE ReportSafe'
<1> DEFINE k == <<dialog.run, flow.at>>
<1>1. flow.kind = "commit" /\ UNCHANGED <<creator, forgotten>> /\ k \in Keys
    BY TypeFacts DEF Send, FlowStep, Flow
<1>2. CASE key[k].state = "fresh"
  <2>1. /\ key' = [key EXCEPT ![k] = [FreshKey EXCEPT !.state = "running", !.mode = flow.mode,
                                                             !.of = flow.of]]
        /\ flow' = [flow EXCEPT !.awaits = TRUE, !.run = dialog.run]
        /\ UNCHANGED dialog
      BY <1>2 DEF Send
  <2>2. PasswordsKept
    <3>1. \A i \in Keys \ {k} : key'[i] = key[i]
        BY <2>1, TypeFacts
    <3> QED BY <1>1, <1>2, <3>1 DEF PasswordsKept
  <2>3. /\ flow'.kind = flow.kind /\ flow'.from = flow.from /\ flow'.at = flow.at
        /\ flow'.collected = flow.collected /\ flow'.run = dialog.run
      BY <2>1, TypeFacts DEF Flow
  <2>4. FlowIsBound'
      BY <1>1, <2>1, <2>3, FlowFacts DEF FlowIsBound, WholeRun
  <2>5. AnswersAreGathered'
    <3>1. ASSUME dialog.run \notin forgotten', WholeRun
          PROVE  Gathered(1..flow.at - 1, flow.collected)'
      <4>1. Gathered(1..flow.at - 1, flow.collected)
          BY <1>1, <3>1, FlowFacts
      <4>2. 1..flow.at - 1 \subseteq 1..Chunks
          BY TypeFacts DEF Flow
      <4> HIDE DEF k
      <4> QED BY <2>1, <2>2, <2>3, <3>1, <4>1, <4>2, TypeFacts DEF Gathered, PasswordsKept
    <3>2. dialog'.step # "report"
        BY <1>1, <2>1, FlowFacts
    <3> QED BY <2>1, <2>3, <3>1, <3>2 DEF AnswersAreGathered, WholeRun
  <2> QED BY <1>1, <2>2, <2>4, <2>5, CreatedStays DEF ReportSafe
<1>3. CASE key[k].state # "fresh"
  <2>1. UNCHANGED key
      BY <1>3 DEF Send
  <2>2. CASE Refused
      BY <1>1, <2>1, <2>2, RefusedReports
  <2>3. CASE ~Refused
    <3>1. key[k].state = "stored" /\ Gives(key[k].made)
        BY <1>3, <2>3 DEF Send, Replayed
    <3> QED BY <1>1, <2>1, <3>1, GivesReports
  <2> QED BY <2>2, <2>3
<1> QED BY <1>2, <1>3

\* The job creates accounts in its own name.
LEMMA JobReports == ASSUME IInv, ReportSafe, JobSteps PROVE ReportSafe'
<1>1. UNCHANGED <<dialog, flow, key, forgotten>>
    BY DEF JobSteps, Enqueue, JobCommits, JobStages, JobCompletes, JobFails, JobIsRemoved,
           StagedExpires, Poll, HandOut, JobStep, history
<1>2. \A s \in Students : creator'[s] \in Runs => creator'[s] = creator[s]
  <2>1. CASE JobCommits
      BY <2>1, ImportAssumption DEF JobCommits, Imports
  <2>2. CASE ~JobCommits
    <3>1. WithoutAccounts
        BY <2>2 DEF JobSteps, Enqueue, JobStages, JobCompletes, JobFails, JobIsRemoved,
                    StagedExpires, Poll, HandOut
    <3> QED BY <3>1 DEF WithoutAccounts
  <2> QED BY <2>1, <2>2
<1>3. CreatedIsKept'
    BY <1>1, <1>2 DEF ReportSafe, CreatedIsKept
<1>4. PasswordsKept
    BY <1>1 DEF PasswordsKept
<1> QED BY <1>1, <1>3, <1>4, DialogStays DEF ReportSafe

LEMMA ReportInvariant == IInv /\ ReportSafe /\ [Next]_vars => ReportSafe'
<1>1. UNCHANGED vars /\ ReportSafe => ReportSafe'
    BY DEF vars, history, ReportSafe, CreatedIsKept, FlowIsBound, AnswersAreGathered, WholeRun,
           Gathered
<1> QED BY <1>1, UserReports, ValidationReports, SendReports, AnswerReports, ServerReports,
           JobReports
        DEF Next, FlowSteps

\* The report of a whole run shows every password the run made up, unless the
\* server has forgotten an answer.
THEOREM ReportsAreComplete == Spec => []FullReportIsComplete
<1>1. IInv /\ ReportSafe => FullReportIsComplete
  <2> SUFFICES ASSUME IInv, ReportSafe, dialog.step = "report", dialog.from = 1,
                      dialog.run \notin forgotten, NEW s \in Students, creator[s] = dialog.run
               PROVE  s \in dialog.credentials
      BY DEF FullReportIsComplete
  <2>1. PICK c \in 1..Chunks : s \in key[<<dialog.run, c>>].made
      BY TypeFacts DEF ReportSafe, CreatedIsKept
  <2> QED BY <2>1 DEF ReportSafe, AnswersAreGathered, Gathered
<1>2. IInv /\ [Next]_vars => IInv'
    BY NextInvariant
<1> QED BY <1>1, <1>2, InitInvariant, ReportInit, ReportInvariant, PTL DEF Spec
=============================================================================
