-------------------------- MODULE SectionEnrollment --------------------------
(***************************************************************************)
(* The roster of one section: who is enrolled, who was removed and is kept *)
(* out ("tombstones"), the cached head count, and what enrolled students   *)
(* may do for their teacher (section roles and session permissions).       *)
(*                                                                         *)
(* Requests lock what they change with advisory locks held until their     *)
(* transaction ends: one lock for the section, one for each student of it. *)
(* Joining, enrolling and removing take the section's lock and then the    *)
(* student's; a bulk import takes the section's only; delegations take the *)
(* student's only.  What a request reads before its locks may be stale.    *)
(***************************************************************************)
EXTENDS Integers, FiniteSets

CONSTANTS
    Students,    \* the student accounts
    Requests,    \* requests the server handles at the same time
    Roles,       \* what a SectionRole may be
    President,   \* the role that may create sessions
    Operations,  \* the operations requested
    MaxFailures  \* bound: requests that die half-way

AllOperations == {"join", "enroll", "remove", "import", "assign", "unassign",
                  "grant", "revoke", "create"}

ASSUME StudentAssumption   == IsFiniteSet(Students)
ASSUME RoleAssumption      == President \in Roles
ASSUME OperationAssumption == Operations \subseteq AllOperations
ASSUME FailureAssumption   == MaxFailures \in Nat

VARIABLES
    codeUsable,   \* the enrollment code is set and has not expired
    enrolled,     \* the Enrollment rows
    tombstoned,   \* the EnrollmentTombstone rows
    studentCount, \* the section's cached head count
    roles,        \* the SectionRole rows of each student
    permitted,    \* students whose SessionPermission is active and unexpired
    delegates,    \* students who have created a session for the teacher
    request,      \* the requests in progress
    failures      \* requests that have died so far

rosterVars == <<codeUsable, enrolled, tombstoned, studentCount>>
delegationVars == <<roles, permitted, delegates>>
vars == <<codeUsable, enrolled, tombstoned, studentCount, roles, permitted,
          delegates, request, failures>>

\* A request for the students "who" (one, but for an import), the locks it
\* holds, and, for an import, the rows it will create and the count it found.
Request ==
    [phase : {"idle", "locking", "found", "planned", "counted"},
     op : AllOperations, who : SUBSET Students, held : SUBSET {"section", "student"},
     plan : SUBSET Students, count : Nat]
Idle == [phase |-> "idle", op |-> "join", who |-> {}, held |-> {}, plan |-> {}, count |-> 0]

TypeOK ==
    /\ codeUsable \in BOOLEAN
    /\ enrolled \subseteq Students /\ tombstoned \subseteq Students
    /\ studentCount \in Nat
    /\ roles \in [Students -> SUBSET Roles]
    /\ permitted \subseteq Students /\ delegates \subseteq Students
    /\ request \in [Requests -> Request]
    /\ failures \in 0..MaxFailures

Init ==
    /\ codeUsable = TRUE
    /\ enrolled = {} /\ tombstoned = {} /\ studentCount = 0
    /\ roles = [s \in Students |-> {}] /\ permitted = {} /\ delegates = {}
    /\ request = [r \in Requests |-> Idle]
    /\ failures = 0

-----------------------------------------------------------------------------
(* Locks *)

NeedsButJoin(op) ==                 \* faulty: joining by code leaves the section unlocked
    (IF op \in {"enroll", "remove", "import"} THEN {"section"} ELSE {})
        \cup (IF op = "import" THEN {} ELSE {"student"})
NeedsButRemove(op) ==               \* faulty: removal leaves the student unlocked
    (IF op \in {"join", "enroll", "remove", "import"} THEN {"section"} ELSE {})
        \cup (IF op \in {"import", "remove"} THEN {} ELSE {"student"})
NeedsButCreate(op) ==               \* faulty: session creation locks nothing
    (IF op \in {"join", "enroll", "remove", "import"} THEN {"section"} ELSE {})
        \cup (IF op \in {"import", "create"} THEN {} ELSE {"student"})
Needs(op) ==
    (IF op \in {"join", "enroll", "remove", "import"} THEN {"section"} ELSE {})
        \cup (IF op = "import" THEN {} ELSE {"student"})

Missing(r) == Needs(request[r].op) \ request[r].held

\* The section's lock is always taken before a student's.
AnyOrder(l, missing) == TRUE        \* faulty: locks are taken in any order
InOrder(l, missing) == l = "student" => "section" \notin missing

Free(l, who) ==
    \A r \in Requests : l \in request[r].held =>
        l = "student" /\ request[r].who \cap who = {}

Acquire(r, l) ==
    /\ request[r].phase = "locking"
    /\ l \in Missing(r) /\ InOrder(l, Missing(r))
    /\ Free(l, request[r].who)
    /\ request' = [request EXCEPT ![r].held = @ \cup {l}]
    /\ UNCHANGED <<rosterVars, delegationVars, failures>>

\* The request holds its locks and has not looked at the roster yet.
Ready(r) == request[r].phase = "locking" /\ Missing(r) = {}

-----------------------------------------------------------------------------
(* A request arrives.  Joining by code tests the code and the block here,  *)
(* before any lock.                                                        *)

Arrive(r, op, who) ==
    /\ request[r].phase = "idle"
    /\ who # {} /\ (op # "import" => Cardinality(who) = 1)
    /\ op = "join" => codeUsable /\ who \cap tombstoned = {}
    /\ request' = [request EXCEPT ![r] = [Idle EXCEPT !.phase = "locking", !.op = op, !.who = who]]
    /\ UNCHANGED <<rosterVars, delegationVars, failures>>

\* Under the locks the request turns out to be impossible and is rolled back.
IsMember(r) == request[r].who \subseteq enrolled

MayCreate(r) ==
    IsMember(r) /\ \A s \in request[r].who : President \in roles[s] /\ s \in permitted

Possible(r) ==
    CASE request[r].op \in {"join", "enroll"} -> request[r].who \cap enrolled = {}
      [] request[r].op \in {"remove", "assign", "grant"} -> IsMember(r)
      [] request[r].op = "create" -> MayCreate(r)
      [] request[r].op = "unassign" -> \E s \in request[r].who : roles[s] # {}
      [] OTHER -> TRUE

Refuse(r) ==
    /\ Ready(r) /\ ~Possible(r)
    /\ request' = [request EXCEPT ![r] = Idle]
    /\ UNCHANGED <<rosterVars, delegationVars, failures>>

-----------------------------------------------------------------------------
(* Membership *)

\* Only the teacher's enrolling lifts a block.
Admit(r) ==
    LET q == request[r]
    IN  /\ Ready(r) /\ q.op \in {"join", "enroll"} /\ Possible(r)
        /\ enrolled' = enrolled \cup q.who
        /\ studentCount' = studentCount + 1
        /\ tombstoned' = IF q.op = "enroll" THEN tombstoned \ q.who ELSE tombstoned
        /\ request' = [request EXCEPT ![r] = Idle]
        /\ UNCHANGED <<codeUsable, delegationVars, failures>>

RemoveStudent(r) ==
    LET q == request[r]
    IN  /\ Ready(r) /\ q.op = "remove" /\ Possible(r)
        /\ roles' = [s \in Students |-> IF s \in q.who THEN {} ELSE roles[s]]
        /\ permitted' = permitted \ q.who
        /\ enrolled' = enrolled \ q.who
        /\ tombstoned' = tombstoned \cup q.who
        /\ studentCount' = studentCount - 1
        /\ request' = [request EXCEPT ![r] = Idle]
        /\ UNCHANGED <<codeUsable, delegates, failures>>

\* An import plans the rows that are not enrolled, creates them, counts the
\* roster with them, and stores the count.
ImportPlan(r) ==
    /\ Ready(r) /\ request[r].op = "import"
    /\ request' = [request EXCEPT ![r].phase = "planned", ![r].plan = request[r].who \ enrolled]
    /\ UNCHANGED <<rosterVars, delegationVars, failures>>

ImportCount(r) ==
    /\ request[r].phase = "planned"
    /\ request' = [request EXCEPT ![r].phase = "counted",
                                  ![r].count = Cardinality(enrolled \cup request[r].plan)]
    /\ UNCHANGED <<rosterVars, delegationVars, failures>>

ImportCommit(r) ==
    /\ request[r].phase = "counted"
    /\ enrolled' = enrolled \cup request[r].plan
    /\ tombstoned' = tombstoned \ request[r].plan
    /\ studentCount' = request[r].count
    /\ request' = [request EXCEPT ![r] = Idle]
    /\ UNCHANGED <<codeUsable, delegationVars, failures>>

-----------------------------------------------------------------------------
(* Delegation *)

\* Assigning a role, granting a permission and creating a session look the
\* student up first and write afterwards.
FindMember(r) ==
    /\ Ready(r) /\ request[r].op \in {"assign", "grant", "create"} /\ Possible(r)
    /\ request' = [request EXCEPT ![r].phase = "found"]
    /\ UNCHANGED <<rosterVars, delegationVars, failures>>

Assign(r) ==
    /\ request[r].phase = "found" /\ request[r].op = "assign"
    /\ \E role \in Roles :
          roles' = [s \in Students |-> IF s \in request[r].who THEN roles[s] \cup {role} ELSE roles[s]]
    /\ request' = [request EXCEPT ![r] = Idle]
    /\ UNCHANGED <<rosterVars, permitted, delegates, failures>>

Unassign(r) ==
    /\ Ready(r) /\ request[r].op = "unassign"
    /\ \E s \in request[r].who : \E role \in roles[s] :
          roles' = [roles EXCEPT ![s] = @ \ {role}]
    /\ request' = [request EXCEPT ![r] = Idle]
    /\ UNCHANGED <<rosterVars, permitted, delegates, failures>>

Grant(r) ==
    /\ request[r].phase = "found" /\ request[r].op = "grant"
    /\ permitted' = permitted \cup request[r].who
    /\ request' = [request EXCEPT ![r] = Idle]
    /\ UNCHANGED <<rosterVars, roles, delegates, failures>>

Revoke(r) ==
    /\ Ready(r) /\ request[r].op = "revoke"
    /\ permitted' = permitted \ request[r].who
    /\ request' = [request EXCEPT ![r] = Idle]
    /\ UNCHANGED <<rosterVars, roles, delegates, failures>>

CreateSession(r) ==
    /\ request[r].phase = "found" /\ request[r].op = "create"
    /\ delegates' = delegates \cup request[r].who
    /\ request' = [request EXCEPT ![r] = Idle]
    /\ UNCHANGED <<rosterVars, roles, permitted, failures>>

-----------------------------------------------------------------------------
(* What changes without a lock *)

\* The teacher resets or disables the code, or it expires.
ChangeCode ==
    /\ codeUsable' = ~codeUsable
    /\ UNCHANGED <<enrolled, tombstoned, studentCount, delegationVars, request, failures>>

\* A permission expires a day after it was granted; an hourly job clears it.
ExpirePermission(s) ==
    /\ s \in permitted
    /\ permitted' = permitted \ {s}
    /\ UNCHANGED <<rosterVars, roles, delegates, request, failures>>

\* A process dies or a statement fails: the transaction rolls back and its
\* locks are released.
RequestDies(r) ==
    /\ failures < MaxFailures
    /\ request[r].phase # "idle"
    /\ request' = [request EXCEPT ![r] = Idle]
    /\ failures' = failures + 1
    /\ UNCHANGED <<rosterVars, delegationVars>>

-----------------------------------------------------------------------------
Work(r) ==
    \/ Refuse(r) \/ Admit(r) \/ RemoveStudent(r)
    \/ ImportPlan(r) \/ ImportCount(r) \/ ImportCommit(r)
    \/ FindMember(r) \/ Assign(r) \/ Unassign(r) \/ Grant(r) \/ Revoke(r)
    \/ CreateSession(r)

Next ==
    \/ \E r \in Requests :
          \/ \E op \in Operations, who \in SUBSET Students : Arrive(r, op, who)
          \/ \E l \in {"section", "student"} : Acquire(r, l)
          \/ Work(r)
          \/ RequestDies(r)
    \/ ChangeCode
    \/ \E s \in Students : ExpirePermission(s)

Spec == Init /\ [][Next]_vars

-----------------------------------------------------------------------------
(* Properties *)

\* The cached head count is the number of enrolled students, although joins
\* and removals adjust it and an import overwrites it with a count it took
\* earlier in its transaction.
CountMatchesRoster == studentCount = Cardinality(enrolled)

\* Only enrolled students hold a section role or a live session permission: a
\* removal and a delegation of the same student never cross.
DelegatesAreMembers ==
    \A s \in Students : roles[s] # {} \/ s \in permitted => s \in enrolled

\* A student who creates a session is enrolled and president at the moment the
\* session is created, not only when the request looked: neither a removal nor
\* the loss of the role slips in between (the comment on create()).
CreatorsAreAuthorized ==
    [][\A s \in delegates' \ delegates : s \in enrolled /\ President \in roles[s]]_vars

\* Requests never wait for each other in a circle: while any request is in
\* progress, one of them has its locks or can take the next one, although
\* most operations need two.
SomeRequestCanProceed ==
    LET running == {r \in Requests : request[r].phase # "idle"}
    IN  running # {} =>
          \E r \in running :
             \/ Missing(r) = {}
             \/ \E l \in Missing(r) : InOrder(l, Missing(r)) /\ Free(l, request[r].who)

-----------------------------------------------------------------------------
(* What the documentation promises and the code does not keep *)

\* backend/prisma/schema.prisma: students removed by the instructor can only be
\* re-admitted explicitly, never by re-entering an enrollment code: whoever is
\* admitted is not, or no longer, kept out.
ReadmissionIsExplicit ==
    [][\A s \in enrolled' \ enrolled : s \notin tombstoned']_vars
=============================================================================
