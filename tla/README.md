# Verification of the attendance service

TLA+ modules, TLC runs and TLAPS proofs about the parts of this repository that
decide who was present and that carry a request from a device to the database:
class sessions and the scans students submit, the review of a record, the roster,
the off-line queue, logins and device binding, maintenance mode and repeated
requests, bulk imports, and the teacher's live page. Paths below are relative to
the repository.

## 1. Inventory

| Component | Code | State | Operations | What makes it hard | What makes it correct |
|---|---|---|---|---|---|
| Class sessions | `backend/src/sessions/sessions.service.ts` | `Session` row: `isActive`, `endedAt`, tokens, `autoEndAt` | activate, arm / regenerate a checkpoint, end, auto-end job | checks on a row read earlier, four kinds of claim on one row, several replicas, deadlines that move | opens once, closes once, nothing armed after the end, always closed |
| Attendance recording | `backend/src/attendance/attendance.service.ts` | `AttendanceRecord`, `ScanAttempt` rows | scan, delayed activation, correct, create by hand, excuse | two deliveries of one attempt, validation before the transaction that writes | one accepted attempt, corrections stand, no credit after the close |
| Scan validation | `backend/src/attendance/scan-validator.service.ts` | none of its own | `findReplay`, `validateScan` | two clocks, off-line scans, order of the checks | a verdict depends on the token and the state |
| Resolution | `backend/src/attendance/resolution.ts` | none of its own | `resolveSessionAttendance` | scans commit between the list and the updates | status agrees with the legs; nobody who stayed away escapes |
| Record review | `backend/src/attendance/attendance.service.ts`, `disputes/disputes.service.ts`, reviewers' pages | `excuseStatus`, `disputeResolved`, `status`, `manuallySet` | request / decide an excuse, file / resolve a dispute, correct | read, check, then unconditional update; lists loaded long ago | the last word is a teacher's, disputes stay open until decided |
| Roster and delegation | `backend/src/sections/sections.service.ts`, `sections/enrollment-import.service.ts`, `common/student-section-lock.ts`, `section-roles`, `session-permissions` | `Enrollment`, `EnrollmentTombstone`, `studentCount`, `SectionRole`, `SessionPermission` | join by code, enrol, remove, import, assign / remove a role, grant / revoke, create a session as a delegate | block tested before the locks are taken, two kinds of lock, an import overwrites the count | count equals rows; delegates are members; no deadlock |
| Off-line queue and sync | `backend/src/sync/sync.service.ts`, `android/services/offline-store.ts`, `frontend/src/lib/offline/store.ts` | device queue, BullMQ jobs | enqueue, drain, poll, retry | two tabs, stalled handlers, jobs started over or removed, lost answers | nothing queued is lost, answers are final, the queue drains |
| Authentication | `backend/src/auth` | `authVersion`, session rows | login, logout, change password, hooks of the session library | logins that overlap each other and revocations | one valid session per student; revocations reach every session whose generation was decided before them |
| Device binding | `backend/src/users/device-binding.service.ts` | bound device, cooldown | bind, unregister, release | bind racing unregister | one device per student |
| Idempotency | `backend/src/common/interceptors/idempotency.interceptor.ts` | stored responses and locks with a time to live | first, repeated and concurrent request | a retry while the first runs, a restart between effect and answer | one execution at a time, the client is answered |
| Maintenance mode | `backend/src/maintenance-mode`, `settings/settings.service.ts` | settings row, snapshot, memos | toggle, ask | caches filled by calls that read before the change | a change takes hold in bounded time |
| Student import | `backend/src/users/student-import*.ts`, `frontend/src/components/import/BulkImportDialog.tsx` | dialog, keys, job, staged passwords | validate, execute, stop, retry, poll | passwords exist in one answer only; runs are interrupted and repeated | full reports are complete; nothing is overwritten unseen |
| Live session page | `frontend/src/app/faculty/sessions/[id]/page.tsx`, `lib/session-request-coordinator.ts`, `lib/realtime.ts`; `backend/src/realtime` | what the page shows, epoch, mutations in flight, open dialogs, connection | refresh, poll, event, generate, end, confirm | answers out of order, overlapping mutations, lost events | never shows less than it committed; current when quiet |
| Standing, proofs of class, notifications, retention, reports, assistant, other screens | the remaining directories | - | - | best-effort, read-only or pure calculation | not modelled |

How they interact. A teacher's device signs a token and asks the server to
activate; students' devices read it off the screen and submit it, directly or
through their off-line queue and the sync worker, which calls the same
`processScanSubmission`. A submission may itself activate an in-person session
(`ensureOfflineActivation`). `end()` and the job `autoEndExpiredSessions` claim
the session row and call the resolver in the same transaction. A record is then
in the hands of students, reviewers, late scans and corrections. All of them
communicate through PostgreSQL rows; Redis holds locks, stored responses, jobs
and snapshots. Every request passes the session's authentication, the maintenance
guard and, if it carries a key, the idempotency interceptor. Changes are announced
to the rooms of the realtime gateway; pages also poll.

## 2. Modules

| Module | Models |
|---|---|
| `AttendanceLedger` | what a session promises: it opens once and closes once; each place is taken once, by an attempt entitled to it, and never before the session was opened |
| `InPersonSession` | one in-person session: its activation, scans, corrections and close; implements the ledger with one place per student |
| `OnlineSession` | one online session with two checkpoints; implements the ledger with two places per student |
| `SectionEnrollment` | one section's roster, blocks, head count and delegations, with the advisory locks its requests take |
| `RecordReview` | one student's record after and during class: excuses, disputes, corrections, late scans, the close, and the last word of a teacher |
| `OfflineSync` | a device's queue of scans, its drains, the sync endpoint and its job queue, and the attempts they create |
| `AccountAccess` | one account: logins through the hooks of the session library, revocation, password changes, device binding |
| `MaintenanceMode` | the switch, the snapshot in Redis, the memo of each instance |
| `RequestReplay` | the interceptor for one idempotency key |
| `RequestPipeline` | composes the two: a client's attempts at one mutation through guard and interceptor, with restarts |
| `StudentImport` | the import dialog, executions under keys, the background job and its passwords |
| `SessionCockpit` | the teacher's live page: coordinator, refreshes, mutations, connection |
| `MC...` | instances for TLC |
| `...Proofs` | theorems about the module named before it; `EvidenceProofs` those about `OfflineSync` and, in its last part, `RecordReview` |

Excuses and disputes write the rows of a session too; they are in `RecordReview` only.
The session modules take from the roster only that a student is enrolled or
removed at any time (`Enroll`, `Remove`), from the queue that a delivery may be
late or doubled (`Deliver`); `RecordReview` takes from the sessions the
conditional updates of scans and the close, not how they come about, and
`OfflineSync` takes a scan's verdict as given.

### Sessions and roster: correspondence with the code

*State.* `record[s]` is the `AttendanceRecord` of student `s` (unique on session
and student), `outcome[i]` the `ScanAttempt` of attempt `i` (unique on student
and `clientAttemptId`), `isActive`, `ended` (`endedAt` is not null), the tokens
and `autoEndAt` are columns of `Session`. A status `"none"` or an outcome
`"none"` means that there is no row. `request`, `activation` or `arming`, and
`closer` are the requests in progress: their local variables and how far they
have come.

*Atomicity.* The database runs at READ COMMITTED, the default of PostgreSQL and
of the client used here. A conditional `updateMany` on one row is atomic and is
tested on the committed row; statements of one transaction see what others
committed in between. So:

- what a handler reads before its transaction is a step of its own
  (`ActivateRead`, `ArmRead`, `Deliver`, `ValidateAccept`, `EndRead`,
  `CronRead`), and the values it keeps may be stale later;
- an activation or arming is one step (`ActivateWin`, `ScanActivateWin`,
  `ArmStart`, ...), because nothing else can observe or change the rows it
  writes before it commits except through the session row it has locked;
- the write of a scan is one step (`WriteAccept`, `WriteDuplicate`,
  `WriteAbort`): its conditional update decides;
- a close is two steps, `EndClaim` or `CronClaim` (claim, and the resolver's
  `findMany`) and `CloseCommit` (its `updateMany`s), because scans do not take
  the lock of the session row and do commit in between. `SessionUnlocked` keeps
  other claims waiting meanwhile.

*Locks of the roster.* In `SectionEnrollment` a request is a record of its
operation, the students it is for and the advisory locks it holds. `Needs` gives
the locks of each operation, `InOrder` the order in which they are taken. What
an operation reads and writes under its locks is one step, except where it
reads first and writes later and something unlocked, or locked otherwise, can
come in between (imports, delegations). `Arrive` contains the checks that
joining by code makes before any lock. `codeUsable` stands for the comparison of
the code and its expiry. An import's rows are any set of students.

*Time.* `now` is the server's clock. A token is its time of signature
(`issuedAt`); validity, grace and class length are constants. A scan submitted
off line may carry any time up to its reception (`ScanTimes`), as the device's
clock is not trusted more than that.

*Evidence.* Location, device security, cross-session conflicts and the meeting
PIN are inputs. `Evidence` has one value for each effect they have on the
verdict, in the order in which `validateScan` looks at them.

*Left out on purpose.* The Redis lock around a delayed activation and the lock
around the auto-end job: the claim in the database is what decides, so the
models allow more interleavings than the locks do. Tolerances of 30 seconds and
5 minutes on client clocks. Deletion by the retention job. A submission without
a `clientAttemptId` (old clients) behaves like one with a fresh id. The teacher's
location gate (`assertTeacherAtClassroom`) only refuses, so `ActivateRead` may
simply not happen.
`createManual` tests the enrollment (`attendance.service.ts:577`) and then writes the
row (`:582`); `CreateManual` is one step, and no property depends on a removal in
between.
Notification of absentees is modelled in `InPersonSession`, and is the same call
for online sessions.

### The other modules: correspondence with the code

*Handlers that read, check and write.* In `RecordReview` the read of
`requestExcuse`, `submit` (disputes) and `decideExcuse` is one step and their
`update` another; `resolve()` and the corrections do not test what they read, so
one step each. A reviewer decides only what a list showed (`listed`), which is
loaded at some time and not refreshed by others' decisions. The close is one step
with any outcome the resolver has for the mode; what scans do is their conditional
update (`Takes`). `word` is history: what a teacher last decided.

*The queue.* `row[s]` is the class of a queued operation's last error: none,
retryable or terminal (both stores encode it in `lastError`). A drain is its snapshot of the
queue (`todo`, a set, taken in the order of `created`) and its stage at the first element: look for the job, add or retry
it, poll, read again, write the verdict. Each is a request or a transaction of its
own, so tabs, handlers and removals interleave between them. A job's handler
answers record by record; it keeps running when it loses the lock (`LoseLock`), and
only the lock's owner completes the job. The state machine of BullMQ (lock, stalled
check, attempts, removal) is external and taken from its documented behaviour for
the options in `sync.service.ts:130-141`. `Accept` and `Deny` are
`processScanSubmission` reduced to the unique key on the attempt.

*Logins.* `PassesGate` is the part of `loginStudent` and `loginFaculty` before the
library is called, `VerifiesPassword` the library's check, `BeforeCreate`,
`BumpVersion`, `InsertSession`, `AfterCreate` and `ReplaceOthers` its hooks and
its insertion, in that order and each committed on its own. A session is valid
while its `generation` equals `authVersion` and the account is active, which is what
every request's authentication asks. Transactions (`ChangePasswordWrite`,
`ResetPassword`, ...) are one step. `revoked` counts the revocations by staff;
`verified` and `decided` are history, and say how many of them a login had behind it
when the library had checked its password, and when its generation was decided.

*Caches and keys.* `MaintenanceMode` counts time in ticks; an entry carries the ticks it has
left. `Staleness` is the sum of the longest fetch and both lifetimes. In `RequestReplay` only the lock of a
process that stopped expires (a mutation is assumed to run for less than the lock's
ten minutes). `RequestPipeline` runs the guard before the interceptor, as the
module's providers are ordered (`app.module.ts:98-137`).

*The import.* A chunk's execution is one transaction under its key; its answer, with the
passwords it made, is what the interceptor stores. `flow` is the one asynchronous
function of the dialog that runs, `dialog` its React state; the state setters of a
function after its last `await` are one step. Closing the dialog draws another run
identifier and stops no validation: `retryRemaining` then goes on to import under the new
one. `of` is history and names the run whose dialog started a flow or an execution,
`previewed` the runs that have displayed the validation of an update; the validation inside
`retryRemaining` (`Revalidated`) displays nothing and is not counted. The background job
runs with the rule of its request (`JobMode`), which no dialog shows. Its passwords are
`staged` in Redis or, when that write fails, `local` to its process
(`redis.service.ts:96-111`). Rows are students; a student is new, or exists.

*The page.* `coordinator` is the object of `session-request-coordinator.ts`. A
request is sent, served or failed by the server, and settles in the page, in any
order with others; a mutation may also be done although its answer is lost. `prompt` is
the QR settings dialog, which stays open when the session changes under it and can be
cancelled while its request is in flight (`page.tsx:1021-1069`), after which the session
can be ended: so two mutations overlap. `version` stands for the data; `floor` and
`behind` are history: the newest state a committed mutation showed, and that an update
was missed for a reason the code accepts.

## 3. Runs

| Run | Instance | Distinct states | What it shows |
|---|---|---|---|
| `InPersonRaces` | one student, two attempts, two tokens, two submissions at once, corrections to `pending`, `end()` | 1 590 448 | `TypeOK`; `ImplementsLedger`; at most one attempt is accepted and the row names it (`OneAcceptedAttempt`); a scan never credits an absence after the close (`AbsenceIsNeverCreditedByScan`) nor lands on a corrected row (`ScanRespectsOverride`); nobody is told of an absence who was neither absent, seen nor decided upon (`OnlyThePendingAreNotified`); all credit comes from the token of the activation (`OneTokenEarnsCredit`); an ended session has no token and no unexplained pending row (`EndedSessionIsSettled`) |
| `InPersonExpiry` | two replicas of the auto-end job, one failure, fairness | 29 640 | a session with a deadline ends (`DeadlineClosesSession`) |
| `OnlineLegs` | one student, two attempts, two submissions at once, both checkpoints | 1 513 960 | attempts and legs agree (`AcceptedAttemptsAreLegs`); no undecided row escapes the resolver's cases (`ResolverCasesAreExhaustive`) |
| `OnlineResolution` | one student, two attempts, corrections, one failure | 705 152 | statuses agree with the legs although scans commit inside the close (`ResolutionMatchesLegs`); only scanners stay pending (`OnlyScannersStayPending`); no credit after the close (`NoCreditAfterClose`); `ImplementsLedger` |
| `OnlineLifecycle` | no student; two tokens per checkpoint, two replicas, a closing teacher, one failure, fairness | 190 516 | nothing is armed after the end (`EndedSessionIsDisarmed`); the job does not close before the deadline it finds (`NoEarlyAutoEnd`); every activated session ends (`ActiveSessionEnds`) |
| `SectionRoster` | two students, any two of the nine operations at once, one failure | 812 156 | `CountMatchesRoster`; `DelegatesAreMembers`; whoever creates a session is enrolled and president at that moment (`CreatorsAreAuthorized`); locks do not deadlock (`SomeRequestCanProceed`) |
| `ReviewInterleavings` | both modes, two clients, two reviewers, two scans | 1 083 516 | whatever is written from stale reads, the record keeps the status a teacher last gave it or is an open dispute (`TeachersWordStands`); only a teacher settles an open dispute (`OpenDisputeStays`) |
| `OfflineDelivery` | one scan, both clients, two tabs, two handlers, a batch with the scan twice, two attempts per job, one fault, fairness | 411 688 | a scan leaves the queue only when it is accepted and the user was told (`NothingIsLost`); a completed job answers every record, and accepted means recorded (`CompletedJobsAnswer`); its answers do not change (`AnswersAreFinal`); queued scans are confirmed or set aside (`QueueDrains`) |
| `AccountSessions` | both roles, two logins, two devices, three interventions | 1 539 216 | a student has at most one valid session (`SingleActiveSession`); no session whose generation was decided before a revocation outlasts it (`RevocationReachesDecided`) |
| `CockpitRefresh` | two mutations, which may overlap, three versions, one failure, fairness | 1 993 420 | the page never goes back behind a mutation it committed (`MutationNotUndone`); nothing in flight means nothing counted in flight (`NoPhantomMutation`); a quiet page shows the server's state or has missed it for a named reason (`QuietPageIsCurrent`); without a connection it learns of the end (`PollingFindsTheEnd`) |
| `PipelineRetries` | two attempts, two instances, lifetimes of one tick, one toggle, one fault, fairness | 732 831 | `OneExecutionAtATime`; a change of the setting takes hold within `Staleness` (`SettingTakesHold`); the client is answered (`ClientIsAnswered`) |
| `ImportRuns` | two chunks of one student each, two runs, a background job on one of the students with two tries, one poll, one failure | 5 720 640 | a report of a whole run has all its passwords (`FullReportIsComplete`); the dialog's imports overwrite profiles only if the run they were started from has displayed the validation of an update (`NothingOverwrittenUnseen`); passwords handed out are not staged again (`HandedOutIsGone`) |

Every module has a type invariant (`TypeOK`; in `RecordReview`, whose definitions are
named to stand beside `OfflineSync`'s in one proof module, `ReviewTypeOK`), which TLC was run with as well; it is
kept as a checked property of the in-person session, and proved for every module,
as a theorem or as a part of the inductive invariant.

`CHECK_DEADLOCK FALSE` is given where a system may come to rest: a session that has
ended and whose clock is at its bound; a device whose queue is empty; an account
whose logins and interventions are used up. The other runs check deadlock.

### Bounds, and why they are enough

Every unbounded quantity has a named bound: `LastIssue` (time of the last
signature), `MaxTime` (the clock), `MaxFailures` and `MaxFaults` (requests, jobs,
answers and processes that fail), `MaxInterventions` (resets, status changes and
device operations), `MaxToggles`, `MaxVersion`, `MaxMutations`. `TimeAssumption`
requires the clock to run past every deadline that can be set, so "late",
"expired" and "after the close" all happen. Two attempts are enough for a conflict
between scans; two handlers for a duplicate delivery or an execution that lost its
lock; two tokens for a regeneration or a second device; two replicas, tabs,
reviewers or logins for every race between one's read and another's write; two mutations
of the page for one that begins while the other is in flight, and either settles first. One fault is enough for each property to meet each kind of fault alone;
faults of different kinds in one behaviour are not covered, except that a crash, a
lost answer and a retry of the client follow from one another. One scan is enough for
the queue, as its rows interact only through the order in which a drain takes them.
The two sides of each race are always present. A run that varies one thing holds
the others at the smallest value at which they still interfere.

### Fairness

- `InPersonSession`, `OnlineSession`: time passes, each replica's job runs again
  while there is an expired session (it is scheduled every minute), and a closing
  transaction that has claimed the session finishes unless its process dies.
  Nothing is assumed of teachers or students.
- `OfflineSync`: drains are started by a timer and go on, the worker takes waiting
  jobs and checks for stalled ones, a handler that runs ends. Users need not retry,
  and the direct submission need not arrive.
- `RequestPipeline`: time passes, an instance goes on with what it began, locks
  expire, and the client keeps trying, as both clients' queues do. `ClientIsAnswered`
  assumes that the institution stays open from some time on.
- `SessionCockpit`: requests are served or fail and settle, and the poll's interval
  fires; a teacher who is asked a question answers it. Nothing else is assumed of the
  teacher, and nothing of the connection.

## 4. Where documentation and code differ

The modules also define what a document, a comment or a message of the repository
says and the code does not keep. These are not properties of a passing run; TLC
refutes each of them in the module named.

- **A session that a student activated has no deadline**
  (`InPersonSession!ActiveSessionExpires`). `performOfflineActivation`
  (`attendance.service.ts:902`) does not set `autoEndAt`, and the job only looks at
  rows that have one. `documentation/PUP_Attendance_System_Plan.md:154` promises
  "Manual end or automatic expiry"; `plan/hybrid-attendance-plan.md:65` a deadline
  "at every arm". `DeadlineClosesSession` is what holds.
- **A leg that commits inside a close stays undecided**
  (`OnlineSession!ClosedSessionIsResolved`). The resolver lists rows by their legs
  and updates them under a guard on the same legs (`resolution.ts:84`). The guard is
  what makes `ResolutionMatchesLegs` hold; the price is a row that stays `pending`,
  though `resolution.ts:7-8` says the legs are collapsed. `OnlyScannersStayPending`
  bounds it.
- **`end()` may not see the armed end** (`OnlineSession!ArmedEndNeedsCheckout`).
  `endArmed` is computed from a row read before the transaction
  (`sessions.service.ts:621`). `plan/vulnerability-hardening-plan.md:72` says that a
  check-in only is `incomplete` when the end was armed.
- **A late off-line scan of an online session is refused**
  (`OnlineSession!LateOfflineScanIsRetained`). The close clears the armed tokens, and
  a scan without an armed token is denied (`scan-validator.service.ts:174`) before
  the branch that would keep it for review
  (`documentation/PUP_Attendance_System_Plan.md:247`).
- **A removed student can come back with the code**
  (`SectionEnrollment!ReadmissionIsExplicit`). The block is tested before the locks
  are taken (`sections.service.ts:248`) and not again under them.
  `backend/prisma/schema.prisma:231-233` says never.
- **More than misses can become excused** (`RecordReview!OnlyMissesAreExcused`).
  `decideExcuse` tests only that a request is open (`attendance.service.ts:769-783`);
  a row corrected to present since the request is excused all the same, though
  `attendance.service.ts:630` says "Only absent, late, or incomplete attendance can be
  excused". Two reviewers may also leave a row `excused` whose request is `rejected`,
  and a dispute filed on a row whose request is open is hidden by the excuse.
- **A flag may not be listed** (`RecordReview!FlagsAreListed`). A rejected dispute leaves an
  absence that is not marked as set by hand and `disputeResolved` set
  (`disputes.service.ts:119-121`). A scan validated before may still turn it to
  `disputed`, and the list of open disputes leaves it out (`:49-52`), against the
  comment "for teacher review" at `attendance.service.ts:249`. `MayReadAs` names the
  case.
- **A denied scan may have been credited** (`OfflineSync!RejectedIsNotCredited`). A
  rejection that finds the attempt taken is swallowed (`attendance.service.ts:1015`)
  and still answered, while another execution of the same attempt was accepted; the
  app then says "Terminal evidence will never sync" (`android/services/api-client.ts:1259`).
- **A login verified before a reset may be valid after it**
  (`AccountAccess!RevocationForcesFreshLogin`). The hook of the library decides the
  generation (`better-auth.service.ts:154-174`) after the library has checked the password,
  and does not look at it again: a reset in between
  is not noticed, against "forces a fresh login" at `users.service.ts:394-395`.
  `RevocationReachesDecided` is what holds.
- **A device can be bound during a cooldown**
  (`AccountAccess!NeverBindsDuringCooldown`). `registerBinding` reads the cooldown and
  writes later (`device-binding.service.ts:79-90`), against the comment at line 75.
- **A completed mutation can run again** (`RequestPipeline!CompletedIsNotRunAgain`).
  The interceptor looks for a response before it takes the lock
  (`idempotency.interceptor.ts:64-75`) and not again after, so an attempt that was
  completed and unlocked in between is executed twice; and a crash between the effect
  and the stored response leads there when the lock expires. The comment at lines
  110-112 says that later retries fail closed.
- **A report may miss passwords** (`StudentImport!ReportIsComplete`).
  `retryRemaining` calls `runCommit`, which replaces the credentials collected before
  (`BulkImportDialog.tsx:350`), against "shown once in the report" (line 630).
  `FullReportIsComplete` holds for a run imported from its first chunk.
- **A change of maintenance mode takes 62 seconds, not 60, in the worst case.** The
  memo of an instance lives two seconds more than the snapshot it was filled from
  (`settings.service.ts:225` says at most 60 seconds). `Staleness` is the bound that
  holds, with the time a fetch takes.
- The list of students to notify is taken before the update (`resolution.ts:40-49`),
  so a student whose scan commits in between is told of an absence that was not
  recorded. What holds is `OnlyThePendingAreNotified`.
- The close creates no rows, so a student enrolled after the activation who never
  scans has none; `plan/attendance-plan.md:36` says that every enrolled student has
  one when the session ends.
- A validation key names run and chunk but not the rule
  (`BulkImportDialog.tsx:291`), so validating again with another rule meets its own
  stored response and is refused (`idempotency.interceptor.ts:66`); the model lets
  any validation fail.
- Two polls may both hand out a job's passwords (`student-import-queue.service.ts:220-225`):
  deleting a key that is gone succeeds. A write to Redis that was applied and is reported
  as failed would leave a second copy in the process of the job
  (`redis.service.ts:96-111`), to be handed out later; the model takes a failed write for
  one that was not applied.
- The job that commits and stops before it stages (`student-import-queue.service.ts:207`)
  loses its passwords: started over, it finds every account there. `JobFails` contains
  this; `HandedOutIsGone` is about the other half, that none are handed out again.
- Closing the dialog while `retryRemaining` validates does not stop the import that
  follows (`BulkImportDialog.tsx:372-393`); it goes on, with the rule of the run that was
  closed, under the keys of the new one.
- The page is behind until the next event or poll when the teacher cancels the
  question about the classroom, since reads that answered meanwhile were thrown away
  (`page.tsx:104`); joining the room again reads nothing; and a reconciling read that
  overtakes a refresh may be overwritten by it. `behind` marks these cases.

## 5. Proofs

Every theorem holds for all values of the constants that satisfy the assumptions of
the module it is about; the bounds of section 3 are constants too.

### Sessions and roster

`InPersonSessionProofs` proves the following for every set of students,
attempts, tokens, requests, devices and closers, every assignment of attempts
to students and every value of the bounds (so also with no bound worth the
name). It uses `OwnerAssumption`, `NullAssumption`, `TimeAssumption`,
`FailureAssumption` and `StatusAssumption`.

| Theorem | Property |
|---|---|
| `TypeCorrect` | `Spec => []TypeOK` |
| `OneAttemptAccepted` | `Spec => []OneAcceptedAttempt` |
| `OverridesStand` | `Spec => ScanRespectsOverride` |
| `AbsenceStands` | `Spec => AbsenceIsNeverCreditedByScan` |
| `SessionImplementsLedger` | `Spec => ImplementsLedger` |
| `EndedIsSettled` | `Spec => []EndedSessionIsSettled` |
| `CreditIsForOneToken` | `Spec => []OneTokenEarnsCredit` |
| `TheUnseenAreTold` | `Spec => OnlyThePendingAreNotified` |
| `AcceptedStaysAccepted` | `Spec => []Ledger!PlacesAreApart /\ Ledger!PlacesAreTakenForGood` |

None of these invariants is inductive on its own. The argument:

- `Typed` is `TypeOK` with `InProgressCarries`: a request in progress carries an
  attempt and a token. Without it the writes of a scan would not be typed.
- `Accounted` adds to `OneAcceptedAttempt` that a row that does not exist is
  blank (`RowlessIsBlank`; otherwise creating it could forget an accepted
  attempt) and that a row names only attempts of its own student
  (`RowsNameOwnAttempts`; otherwise one attempt could sit on two rows).
- `Lifecycle`: a session is active exactly while it holds a token, an ended one
  is not active, a scan being validated or written belongs to a session that
  was activated, and a claimed close is the only one and its session is still
  active. It makes every step a step or a stutter of the ledger's phases.
- `SettledRows` says that no inactive session has a pending row unless a teacher
  set it; it is needed with the rows that `Seeded` creates.
- `OneToken` names one token `k` for which all credit was given, which the scans
  validated for credit and not yet written carry, and which is the only one the
  session can hold (`EarnedWith(k)`); before the activation nobody has credit,
  so the activation may still choose `k`. This is where validating and
  writing being two steps matters.
- `ListedWereUnseen` is about a close that has listed its absentees and not yet
  committed: each of them is still pending or absent, or has been scanned or decided
  upon since (`OnceUnseen`). The list itself is not refreshed, so the argument is
  that `OnceUnseen` is stable: no step of anybody takes a student out of it
  (`OnceUnseenStays`), and the claim lists only rows that satisfy it
  (`ListingEffect`).

`AcceptedStaysAccepted` says what implementing the ledger is worth. That no attempt
takes two places, and that a place once taken is never given to another attempt or
withdrawn, follows from the ledger alone (`LedgerKeeps`) and so holds of the session
by the refinement, with nothing said again about requests, closes or corrections.
`LegsAreTakenForGood` is the same for the online session, whose places are legs.

`StepEffect`, `WriteEffect` and `RequestEffect` say once what any step can do to
rows, outcomes and requests; the step lemmas (`AccountedStep`, `OverrideStep`,
`AbsenceStep`, `LifecycleStep`, `LedgerStep`, `SettledStep`, `OneTokenStep`)
cite them instead of repeating the case split over `Next`.

`OnlineSessionProofs` proves every safety property the runs check of the online
session, for the same parameters (`OwnerAssumption`, `TokenAssumption`,
`TimeAssumption`, `FailureAssumption`, `StatusAssumption`, `CloserAssumption`):

| Theorem | Property |
|---|---|
| `OnlineTypeCorrect` | `Spec => []TypeOK` |
| `AttemptsHoldLegs` | `Spec => []AcceptedAttemptsAreLegs` |
| `OnlineImplementsLedger` | `Spec => ImplementsLedger` |
| `EndedIsDisarmed` | `Spec => []EndedSessionIsDisarmed` |
| `JobWaitsForDeadline` | `Spec => []NoEarlyAutoEnd` |
| `ResolverMissesNobody` | `Spec => []ResolverCasesAreExhaustive` |
| `StatusesMatchLegs` | `Spec => []ResolutionMatchesLegs` |
| `AbsenteesAreDecided` | `Spec => []OnlyScannersStayPending` |
| `CreditEndsWithSession` | `Spec => NoCreditAfterClose` |
| `LegsAreTakenForGood` | `Spec => []Ledger!PlacesAreApart /\ Ledger!PlacesAreTakenForGood` |

`Typed`, `Accounted` and `Lifecycle` are as before, for two legs: `LegsAreWhole`
(the columns of a leg are filled together) replaces the single column. What is new is
the argument about the close. `ListsHold` says of a claimed close that what it listed
of the legs still holds, and that a row still undecided without a leg was listed as
absent; it is kept because rows only grow (`RowsGrow`: a leg that is filled stays, and only
the activation, which the lock keeps away, makes an undecided row without one). The
guards of the updates test the rest, so that `ResolutionMatchesLegs` and
`OnlyScannersStayPending` follow at the commit. `DisputesAreMarked` (a disputed
check-in disputes its row) makes the resolver's cases exhaustive. `JobIsLate` follows a replica
from its read to its claim: the deadline it read has passed, and from the claim on it
is the one in force, since no device can win a claim while the row is locked.

`SectionEnrollmentProofs` proves, for every finite set of students
(`StudentAssumption`), any requests, roles, subset of the operations
(`OperationAssumption`) and number of failures (`FailureAssumption`):

| Theorem | Property |
|---|---|
| `RosterTypeCorrect` | `Spec => []TypeOK` |
| `HeadCountIsRight` | `Spec => []CountMatchesRoster` |
| `OnlyMembersAreDelegates` | `Spec => []DelegatesAreMembers` |
| `CreationIsAuthorized` | `Spec => CreatorsAreAuthorized` |
| `LocksDoNotDeadlock` | `Spec => []SomeRequestCanProceed` |

The inductive invariant `IInv` has two parts besides `TypeOK`. `Locks`: requests
follow the lock discipline (`Discipline`: only the locks they need, all of them before they
read, the student's last) and a lock has one holder (`Exclusive`). `Roster`: the
properties, and `Informed`: what a request found, or counted, is still so when it
uses it. `SectionIsHeld` and `StudentIsHeld` derive from `Locks` that a step which
changes the roster meets no request whose information it would spoil; that is
why `Informed` survives `Admit`, `RemoveStudent`, `ImportCommit` and `Unassign`.
`TypeOK` needs `CountMatchesRoster`: without it, nothing says that a decremented
count is a natural number.

### Delivery

`EvidenceProofs`, for every set of scans, tabs, handlers and batches (of any length,
with repetitions), and every number of tries and faults (`BatchAssumption`,
`AttemptAssumption`, `NoneAssumption`):

| Theorem | Property |
|---|---|
| `DeliveryTypeCorrect` | `Spec => []TypeOK` |
| `EvidenceIsKept` | `Spec => []NothingIsLost` |
| `JobsAnswerForAll` | `Spec => []CompletedJobsAnswer` |
| `AnswersStand` | `Spec => AnswersAreFinal` |

The inductive invariant follows an acceptance from the database back to the device,
through every place where a copy of it may be. `ExecutionsAreBacked`: each answer an
execution has collected is backed by an attempt, and "accepted" by an accepted one,
also when the execution has lost its job's lock and another runs beside it.
`CompletedJobsAnswer` is the same for the answers of a job, to which they pass when
the lock's owner completes it. `DrainsAreBacked`: a drain that was answered
"accepted" holds a scan whose attempt is accepted, although the job it was read from
may be removed or started over by then. `NothingIsLost` is about what the drain does
with that answer. Each of the four survives because attempts only grow
(`AttemptsGrow`: one that exists stays, one that is accepted stays accepted); no part needs to
know which drain belongs to which job, since batches name their scans. The lemmas
`...Stay` give each part from what a step leaves alone, so that the step lemmas deal only with
the parts a step disturbs. `AnswersStand` needs one thing more: only a
job that is not completed can be finished, retried or taken.

### Accounts

`AccountAccessProofs`, for every set of logins and devices and every number of
interventions (`AccessAssumption`):

| Theorem | Property |
|---|---|
| `AccessTypeCorrect` | `Spec => []TypeOK` |
| `OnePlaceAtATime` | `Spec => []SingleActiveSession` |
| `RevocationIsComplete` | `Spec => []RevocationReachesDecided` |

`RowsAreInserted` ties a session row to the steps of its login after the insertion.
`CurrentIsUnrevoked` follows the version of the account that a login was told (`seen`)
through its steps: it is never ahead of the account, and if it is current then
nothing was revoked since its generation was decided. `OneHolder` counts as holders the login with a row of the
current generation and one that is about to insert it. A student's login that
increments the version takes that place from every other, because the increment and
the answer it gets are one statement; that is the whole reason why at most one
session is valid, and it does not need the deletion of the other rows.

### Review

The last part of `EvidenceProofs`, about `RecordReview`, for every set of clients, reviewers and scans:

| Theorem | Property |
|---|---|
| `TeachersHaveLastWord` | `ReviewSpec => []TeachersWordStands` |
| `DisputesAwaitTeacher` | `ReviewSpec => OpenDisputeStays` |

The invariant they need besides the types is `ScansAreInPlace`: a validated scan names a
place of the session's mode. `TeachersWordStands` is inductive together with
`WordIsMarked`: a row that still reads as the teacher left it, undecided or absent, is
marked as set by hand, so that neither a scan nor the close takes it. A student's write
passes it only by opening a dispute (`StudentKeepsWord`); a scan or the close
only where a teacher rejected a dispute or put the row back to pending
(`ScanKeepsWord`, `CloseKeepsWord`).

### Requests

`RequestPipelineProofs`, for every set of attempts and instances and every value of
the times to live (`PipelineAssumption`):

| Theorem | Property |
|---|---|
| `MutualExclusion` | `Spec => []OneExecutionAtATime` |
| `ChangeTakesHold` | `Spec => SettingTakesHold` |
| `PipelineTypeCorrect` | `Spec => []TypeOK` |
| `GuardComesFirst` | `Spec => []OnlyTheAdmittedRun` |
| `PipelineImplementsReplay` | `Spec => ImplementsReplay` |

`ReplaySafe` is inductive as it stands: an attempt executes while it holds the lock,
and only the lock of a stopped process expires. `ModeSafe` is about time. A
fetched value, a snapshot or a memo that contradicts the setting is young: it was read before
the change, and its age, or the life it has left with the time since the change, stays within
the lifetimes (`StaleIsYoung`). `OpenIsOpen`: a memo kept through a Redis outage is an open one. `Asking`:
whoever asks the guard does so on an instance. `Timely` is the property on the next
state; each step lemma proves it along with `ModeSafe'`.

The other two are about the composition. `OnlyTheAdmittedRun` ties the two
components' views of one request together: an attempt is inside the interceptor
exactly while the guard's call is admitted, so that a refusal, an answer, a timeout
of the client or a restart ends both or neither; it is inductive given the types
(`CallStepAdmits`: a call of `current()` never admits by itself).
`ImplementsReplay` is the specification of `RequestReplay` with its own next-state
relation: every step of the pipeline is one the interceptor could take alone, or
leaves it as it is. What holds of the interceptor for every environment therefore
holds of it in this one.

### Imports

`StudentImportProofs`, for every list, division into chunks, set of runs and number
of tries and failures:

| Theorem | Property |
|---|---|
| `ImportTypeCorrect` | `Spec => []TypeOK` |
| `OverwritesArePreviewed` | `Spec => []NothingOverwrittenUnseen` |
| `PasswordsAreHandedOutOnce` | `Spec => []HandedOutIsGone` |
| `ReportsAreComplete` | `Spec => []FullReportIsComplete` |

`UpdateIsPreviewed` follows the rule "update" through everything that can carry it,
with the run that has displayed its validation: the dialog, the flow that runs, and every
key's request. It survives the drawing of a new run because that run is in use nowhere
(`ResetKeeps`). `JobPasswords` says where
the job's passwords are and that once any were staged, or a poll holds them, no account is left
for the job to create, so that starting it over makes none.

`ReportsAreComplete` is about the way of a password from the transaction that made it
to the report. `CreatedIsKept`: as long as the server has not forgotten a run's keys, every account the
run created has its password under one of them, committed or stored; this is what
lets a lost answer be asked for again. `FlowIsBound`: a flow that imports the whole list keeps the
dialog where it is, with the run it sends, so that nothing else changes the run under
it. `AnswersAreGathered`: what the chunks before the current one created has been
collected, and at the report, all of it. `PasswordsKept` is what each step of the server,
the job and the user has to leave alone for the three to survive.

### The live page

`SessionCockpitProofs`, for every number of versions, mutations and failures:

| Theorem | Property |
|---|---|
| `CockpitTypeCorrect` | `Spec => []TypeOK` |
| `MutationsStandOnPage` | `Spec => []MutationNotUndone` |
| `CoordinatorCountsMutations` | `Spec => []NoPhantomMutation` |
| `QuietIsCurrent` | `Spec => []QuietPageIsCurrent` |

The invariant has five parts besides the types. `CountIsReal`: while anything is counted, a
mutation is in flight, and while two are, both are. The count may be less than what is in
flight, since a mutation that fails resets it (`resetForReconciliation`), and the other
then settles without going below zero.
`AllIsPast`: whatever was seen of the session has a version of at most the server's, and is the
server's state if the versions agree. `ReadsSeeFloor`: a read of the current epoch
that was answered has seen the last mutation shown, since a mutation opens a new epoch
when it begins and again when it is shown. `RefreshIsCounted`: `reading` holds exactly
while the refresh is under way. `UpdateIsComing`: a page that shows an old state is
waiting for an event, a read that will bring the state, or a mutation, or was left behind for one of the
named reasons.

### What is only model-checked

Every invariant and every action property the runs check is proved. What stays with
TLC is liveness under fairness, which is out of the prover's reach, as is `ENABLED`:
`DeadlineClosesSession`, `ActiveSessionEnds`, `QueueDrains`, `ClientIsAnswered` and
`PollingFindsTheEnd`. `GuardComesFirst`, `PipelineImplementsReplay`,
`AcceptedStaysAccepted` and `LegsAreTakenForGood` are the other way round: they are
proved, and no run lists what they state.

## 6. Not modelled, and what is left

- Changes of an account's role: `changeUserRole` (`users.service.ts:918`) leaves its sessions
  as they are, so that a teacher who is made a student keeps those of before until the next
  login. `AccountAccess` fixes the role; `SingleActiveSession` says nothing of that case.
- In `MaintenanceMode`, the copy that `RedisService.setJson` keeps in the process when
  Redis fails (`redis.service.ts:96-111`): it lives as long as the snapshot it stands for,
  in one instance, so that the bound of `SettingTakesHold` is the same.
- Contents of sessions, sections and accounts: creating and editing them are single
  updates whose races end in the database's unique keys.
- The active-session snapshot in Redis and the rotation of signing keys: no decision
  rests on the snapshot (`scan-validator.service.ts:126-129`).
- Sockets of users: a socket authenticated before its session was replaced may join
  its room afterwards (`attendance.gateway.ts:77`).
- Failures of Redis inside the idempotency interceptor: it falls back to the memory
  of the process, and a lock that cannot be deleted stays until it expires.
- Evidence files: of two excuse requests at once, one may leave a file behind
  (`attendance.service.ts:671`).
- The off-line queue's other operations (sessions created off line and their
  reconciliation after a conflict), account switches and the optimistic history.
- Standing (a pure calculation), proofs of class, notifications, retention, reports
  and dashboards, the assistant, and all screens but the live page, the import dialog
  and the reviewers' queues.

Next: the queue of sessions created off line, composed with `InPersonSession`, and
safety lemmas toward the liveness properties (what a session, a queue or a key that
is stuck would have to look like).
