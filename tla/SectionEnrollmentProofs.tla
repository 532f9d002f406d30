----------------------- MODULE SectionEnrollmentProofs -----------------------
(***************************************************************************)
(* Proofs about SectionEnrollment, for every finite set of students, every *)
(* set of requests, roles and operations, and any number of failures.      *)
(***************************************************************************)
EXTENDS SectionEnrollment, FiniteSetTheorems, TLAPS

-----------------------------------------------------------------------------
(* Requests *)

\* Sets of students are finite, and so have a cardinality.
LEMMA Finite ==
    ASSUME NEW S \in SUBSET Students
    PROVE  IsFiniteSet(S) /\ Cardinality(S) \in Nat
BY StudentAssumption, FS_Subset, FS_CardinalityType

LEMMA IdleType == Idle \in Request
BY DEF Idle, Request, AllOperations

\* What a step can do to the requests: one of them ends, or moves on.
LEMMA RequestEffect ==
    ASSUME [Next]_vars
    PROVE  \/ UNCHANGED request
           \/ \E r \in Requests : request' = [request EXCEPT ![r] = Idle]
           \/ \E r \in Requests, op \in Operations, who \in SUBSET Students : Arrive(r, op, who)
           \/ \E r \in Requests, l \in {"section", "student"} : Acquire(r, l)
           \/ \E r \in Requests : ImportPlan(r) \/ ImportCount(r) \/ FindMember(r)
<1>1. ASSUME NEW r \in Requests, Work(r)
      PROVE  \/ request' = [request EXCEPT ![r] = Idle]
             \/ ImportPlan(r) \/ ImportCount(r) \/ FindMember(r)
    BY <1>1 DEF Work, Refuse, Admit, RemoveStudent, ImportCommit, Assign, Unassign, Grant,
                Revoke, CreateSession
<1>2. ASSUME NEW r \in Requests, RequestDies(r)
      PROVE  request' = [request EXCEPT ![r] = Idle]
    BY <1>2 DEF RequestDies
<1>3. CASE ChangeCode \/ (\E s \in Students : ExpirePermission(s)) \/ UNCHANGED vars
    BY <1>3 DEF ChangeCode, ExpirePermission, vars
<1> QED BY <1>1, <1>2, <1>3 DEF Next

LEMMA RequestTypeStep ==
    ASSUME TypeOK, [Next]_vars
    PROVE  request' \in [Requests -> Request]
<1>1. ASSUME NEW r \in Requests, request' = [request EXCEPT ![r] = Idle]
      PROVE  request' \in [Requests -> Request]
    BY <1>1, IdleType DEF TypeOK
<1>2. ASSUME NEW r \in Requests, NEW op \in Operations, NEW who \in SUBSET Students,
             Arrive(r, op, who)
      PROVE  request' \in [Requests -> Request]
  <2>1. [Idle EXCEPT !.phase = "locking", !.op = op, !.who = who] \in Request
      BY OperationAssumption DEF Idle, Request
  <2> QED BY <1>2, <2>1 DEF Arrive, TypeOK
<1>3. ASSUME NEW r \in Requests, NEW l \in {"section", "student"}, Acquire(r, l)
      PROVE  request' \in [Requests -> Request]
    BY <1>3 DEF Acquire, TypeOK, Request
<1>4. ASSUME NEW r \in Requests, ImportPlan(r) \/ FindMember(r)
      PROVE  request' \in [Requests -> Request]
    BY <1>4 DEF ImportPlan, FindMember, TypeOK, Request
<1>5. ASSUME NEW r \in Requests, ImportCount(r)
      PROVE  request' \in [Requests -> Request]
  <2>1. Cardinality(enrolled \cup request[r].plan) \in Nat
      BY Finite DEF TypeOK, Request
  <2> QED BY <1>5, <2>1 DEF ImportCount, TypeOK, Request
<1> QED BY <1>1, <1>2, <1>3, <1>4, <1>5, RequestEffect DEF TypeOK

-----------------------------------------------------------------------------
(* Locks *)

\* A request takes only the locks it needs, has them all once it reads or
\* writes, and takes the student's last; each phase belongs to its operations.
Discipline ==
    \A r \in Requests :
        LET q == request[r]
        IN  /\ q.held \subseteq Needs(q.op)
            /\ q.phase = "idle" => q.held = {}
            /\ q.phase \in {"found", "planned", "counted"} => Missing(r) = {}
            /\ "student" \in q.held => Missing(r) = {}
            /\ q.phase = "found" => q.op \in {"assign", "grant", "create"}
            /\ q.phase \in {"planned", "counted"} => q.op = "import"
            /\ q.phase # "idle" /\ q.op # "import" => \E s \in Students : q.who = {s}

\* A lock has one holder.
Exclusive ==
    \A r, q \in Requests : r # q =>
        /\ "section" \notin request[r].held \/ "section" \notin request[q].held
        /\ \/ "student" \notin request[r].held \/ "student" \notin request[q].held
           \/ request[r].who \cap request[q].who = {}

Locks == Discipline /\ Exclusive

LEMMA LocksInit == Init => Locks
BY DEF Init, Locks, Discipline, Exclusive, Idle, Needs, Missing

\* A set with one element is a singleton.
LEMMA Singleton ==
    ASSUME NEW who \in SUBSET Students, Cardinality(who) = 1
    PROVE  \E s \in Students : who = {s}
<1>1. IsFiniteSet(who)
    BY Finite
<1>2. PICK s \in who : TRUE
    BY <1>1, FS_EmptySet
<1>3. IsFiniteSet(who \ {s}) /\ Cardinality(who \ {s}) = 0
    BY <1>1, <1>2, FS_RemoveElement
<1>4. who \ {s} = {}
    BY <1>3, FS_EmptySet
<1> QED BY <1>2, <1>4

LEMMA LocksStep ==
    ASSUME TypeOK, Locks, [Next]_vars
    PROVE  Locks'
<1> USE DEF Locks
<1>1. CASE UNCHANGED request
    BY <1>1 DEF Discipline, Exclusive, Missing
<1>2. ASSUME NEW r \in Requests, request' = [request EXCEPT ![r] = Idle]
      PROVE  Locks'
  <2>1. /\ request'[r] = Idle
        /\ \A q \in Requests : q # r => request'[q] = request[q]
      BY <1>2 DEF TypeOK
  <2>2. Idle.phase = "idle" /\ Idle.held = {}
      BY DEF Idle
  <2> QED BY <2>1, <2>2 DEF Discipline, Exclusive, Missing
<1>3. ASSUME NEW r \in Requests, NEW op \in Operations, NEW who \in SUBSET Students,
             Arrive(r, op, who)
      PROVE  Locks'
  <2> DEFINE new == [Idle EXCEPT !.phase = "locking", !.op = op, !.who = who]
  <2>1. /\ request'[r] = new
        /\ \A q \in Requests : q # r => request'[q] = request[q]
      BY <1>3 DEF Arrive, TypeOK
  <2>2. new.phase = "locking" /\ new.held = {} /\ new.op = op /\ new.who = who
      BY DEF Idle
  <2>3. op # "import" => \E s \in Students : who = {s}
      BY <1>3, Singleton DEF Arrive
  <2> HIDE DEF new
  <2> QED BY <2>1, <2>2, <2>3 DEF Discipline, Exclusive, Missing
<1>4. ASSUME NEW r \in Requests, NEW l \in {"section", "student"}, Acquire(r, l)
      PROVE  Locks'
  <2>1. /\ request[r].phase = "locking"
        /\ l \in Missing(r) /\ InOrder(l, Missing(r)) /\ Free(l, request[r].who)
      BY <1>4 DEF Acquire
  <2>2. /\ request'[r].phase = request[r].phase /\ request'[r].op = request[r].op
        /\ request'[r].who = request[r].who /\ request'[r].held = request[r].held \cup {l}
        /\ \A q \in Requests : q # r => request'[q] = request[q]
      BY <1>4 DEF Acquire, TypeOK, Request
  <2>3. Discipline'
      BY <2>1, <2>2 DEF Discipline, Missing, InOrder, Needs
  <2>4. Exclusive'
      BY <2>1, <2>2 DEF Exclusive, Free
  <2> QED BY <2>3, <2>4
<1>5. ASSUME NEW r \in Requests, ImportPlan(r) \/ ImportCount(r) \/ FindMember(r)
      PROVE  Locks'
  <2>1. /\ request'[r].op = request[r].op /\ request'[r].who = request[r].who
        /\ request'[r].held = request[r].held
        /\ \A q \in Requests : q # r => request'[q] = request[q]
      BY <1>5 DEF ImportPlan, ImportCount, FindMember, TypeOK, Request
  <2>2. /\ request[r].phase # "idle" /\ Missing(r) = {}
        /\ \/ request[r].op = "import" /\ request'[r].phase \in {"planned", "counted"}
           \/ /\ request[r].op \in {"assign", "grant", "create"}
              /\ request'[r].phase = "found"
      BY <1>5 DEF ImportPlan, ImportCount, FindMember, Ready, Discipline, TypeOK, Request
  <2>3. Discipline'
      BY <2>1, <2>2 DEF Discipline, Missing
  <2>4. Exclusive'
      BY <2>1 DEF Exclusive
  <2> QED BY <2>3, <2>4
<1> QED BY <1>1, <1>2, <1>3, <1>4, <1>5, RequestEffect

-----------------------------------------------------------------------------
(* What the locks protect *)

\* A request that counts the roster shares the section with no request that
\* changes it.
LEMMA SectionIsHeld ==
    ASSUME TypeOK, Locks, NEW r \in Requests, NEW q \in Requests, r # q,
           \/ Ready(r) /\ request[r].op \in {"join", "enroll", "remove"}
           \/ request[r].phase = "counted"
    PROVE  request[q].phase # "counted"
<1>1. Missing(r) = {} /\ "section" \in Needs(request[r].op)
    BY DEF Locks, Discipline, Ready, Needs
<1>2. "section" \in request[r].held
    BY <1>1 DEF Missing
<1>3. request[q].phase = "counted" => "section" \in request[q].held
    BY DEF Locks, Discipline, Missing, Needs
<1> QED BY <1>2, <1>3 DEF Locks, Exclusive

\* A request that has looked a student up shares that student with no request
\* that changes what it saw.
LEMMA StudentIsHeld ==
    ASSUME TypeOK, Locks, NEW r \in Requests, NEW q \in Requests, r # q,
           Ready(r), request[r].op # "import", request[q].phase = "found"
    PROVE  request[r].who \cap request[q].who = {}
<1>1. "student" \in request[r].held
    BY DEF Ready, Missing, Needs
<1>2. "student" \in request[q].held
    BY DEF Locks, Discipline, Missing, Needs
<1> QED BY <1>1, <1>2 DEF Locks, Exclusive

\* What a request found and keeps is still so when it uses it.
Informed ==
    \A r \in Requests :
        LET q == request[r]
        IN  /\ q.phase = "found" => q.who \subseteq enrolled
            /\ q.phase = "found" /\ q.op = "create" => \A s \in q.who : President \in roles[s]
            /\ q.phase = "counted" => q.count = Cardinality(enrolled \cup q.plan)

Roster == CountMatchesRoster /\ DelegatesAreMembers /\ Informed

IInv == TypeOK /\ Locks /\ Roster

LEMMA IInvInit == Init => IInv
<1> SUFFICES ASSUME Init PROVE IInv
    OBVIOUS
<1>1. TypeOK
    BY IdleType, FailureAssumption DEF Init, TypeOK
<1>2. Locks
    BY LocksInit
<1>3. CountMatchesRoster
    BY FS_EmptySet DEF Init, CountMatchesRoster
<1>4. DelegatesAreMembers /\ Informed
    BY DEF Init, DelegatesAreMembers, Informed, Idle
<1> QED BY <1>1, <1>2, <1>3, <1>4 DEF IInv, Roster

\* Admitting or removing one student moves the count by one.
LEMMA CountOfOne ==
    ASSUME NEW S \in SUBSET Students, NEW s \in Students
    PROVE  /\ s \notin S => Cardinality(S \cup {s}) = Cardinality(S) + 1
           /\ s \in S => Cardinality(S \ {s}) = Cardinality(S) - 1
BY Finite, FS_AddElement, FS_RemoveElement

LEMMA AdmitStep ==
    ASSUME IInv, NEW r \in Requests, Admit(r)
    PROVE  Roster' /\ TypeOK'
<1> USE DEF IInv, Roster
<1>1. PICK s \in Students : request[r].who = {s}
    BY DEF Admit, Ready, Locks, Discipline
<1>2. s \notin enrolled
    BY <1>1 DEF Admit, Possible
<1>3. /\ enrolled' = enrolled \cup {s} /\ studentCount' = studentCount + 1
      /\ UNCHANGED <<codeUsable, roles, permitted, delegates, failures>>
      /\ tombstoned' \subseteq tombstoned
      /\ request' = [request EXCEPT ![r] = Idle]
    BY <1>1 DEF Admit, delegationVars
<1>4. CountMatchesRoster'
    BY <1>2, <1>3, CountOfOne DEF CountMatchesRoster, TypeOK
<1>5. DelegatesAreMembers'
    BY <1>3 DEF DelegatesAreMembers
<1>6. Informed'
  <2>1. request'[r].phase = "idle" /\ \A q \in Requests : q # r => request'[q] = request[q]
      BY <1>3 DEF TypeOK, Idle
  <2>2. \A q \in Requests : q # r => request[q].phase # "counted"
      BY SectionIsHeld DEF Admit
  <2> QED BY <1>3, <2>1, <2>2 DEF Informed
<1>7. TypeOK'
    BY <1>3, IdleType DEF TypeOK
<1> QED BY <1>4, <1>5, <1>6, <1>7

LEMMA RemoveStep ==
    ASSUME IInv, NEW r \in Requests, RemoveStudent(r)
    PROVE  Roster' /\ TypeOK'
<1> USE DEF IInv, Roster
<1>1. PICK s \in Students : request[r].who = {s}
    BY DEF RemoveStudent, Ready, Locks, Discipline
<1>2. s \in enrolled
    BY <1>1 DEF RemoveStudent, Possible, IsMember
<1>3. /\ enrolled' = enrolled \ {s} /\ studentCount' = studentCount - 1
      /\ roles' = [x \in Students |-> IF x = s THEN {} ELSE roles[x]]
      /\ permitted' = permitted \ {s} /\ tombstoned' = tombstoned \cup {s}
      /\ UNCHANGED <<codeUsable, delegates, failures>>
      /\ request' = [request EXCEPT ![r] = Idle]
    BY <1>1 DEF RemoveStudent
<1>4. CountMatchesRoster'
    BY <1>2, <1>3, CountOfOne DEF CountMatchesRoster, TypeOK
<1>5. DelegatesAreMembers'
    BY <1>3 DEF DelegatesAreMembers
<1>6. Informed'
  <2>1. request'[r].phase = "idle" /\ \A q \in Requests : q # r => request'[q] = request[q]
      BY <1>3 DEF TypeOK, Idle
  <2>2. \A q \in Requests : q # r => request[q].phase # "counted"
      BY SectionIsHeld DEF RemoveStudent
  <2>3. \A q \in Requests : q # r /\ request[q].phase = "found" => s \notin request[q].who
      BY <1>1, StudentIsHeld DEF RemoveStudent
  <2>4. \A q \in Requests : request[q].who \subseteq Students
      BY DEF TypeOK, Request
  <2> QED BY <1>3, <2>1, <2>2, <2>3, <2>4 DEF Informed
<1>7. TypeOK'
  <2>1. studentCount' \in Nat
      BY <1>3, <1>4, Finite DEF TypeOK, CountMatchesRoster
  <2> QED BY <1>3, <2>1, IdleType DEF TypeOK
<1> QED BY <1>4, <1>5, <1>6, <1>7

LEMMA ImportStep ==
    ASSUME IInv, NEW r \in Requests, ImportCommit(r)
    PROVE  Roster' /\ TypeOK'
<1> USE DEF IInv, Roster
<1>1. /\ enrolled' = enrolled \cup request[r].plan
      /\ studentCount' = Cardinality(enrolled \cup request[r].plan)
      /\ tombstoned' \subseteq tombstoned
      /\ UNCHANGED <<codeUsable, roles, permitted, delegates, failures>>
      /\ request' = [request EXCEPT ![r] = Idle]
    BY DEF ImportCommit, Informed, delegationVars
<1>2. request[r].plan \subseteq Students
    BY DEF TypeOK, Request
<1>3. CountMatchesRoster' /\ DelegatesAreMembers'
    BY <1>1 DEF CountMatchesRoster, DelegatesAreMembers
<1>4. Informed'
  <2>1. request'[r].phase = "idle" /\ \A q \in Requests : q # r => request'[q] = request[q]
      BY <1>1 DEF TypeOK, Idle
  <2>2. \A q \in Requests : q # r => request[q].phase # "counted"
      BY SectionIsHeld DEF ImportCommit
  <2> QED BY <1>1, <2>1, <2>2 DEF Informed
<1>5. TypeOK'
  <2>1. studentCount' \in Nat
      BY <1>1, <1>2, Finite DEF TypeOK
  <2> QED BY <1>1, <1>2, <2>1, IdleType DEF TypeOK
<1> QED BY <1>3, <1>4, <1>5

\* Steps that leave the roster alone: delegations, and whatever ends a request
\* or lets one move on.
LEMMA DelegationStep ==
    ASSUME IInv, NEW r \in Requests,
           Assign(r) \/ Unassign(r) \/ Grant(r) \/ Revoke(r) \/ CreateSession(r)
    PROVE  Roster' /\ TypeOK'
<1> USE DEF IInv, Roster
<1>1. /\ UNCHANGED <<codeUsable, enrolled, tombstoned, studentCount, failures>>
      /\ request' = [request EXCEPT ![r] = Idle]
    BY DEF Assign, Unassign, Grant, Revoke, CreateSession, rosterVars
<1>2. request'[r].phase = "idle" /\ \A q \in Requests : q # r => request'[q] = request[q]
    BY <1>1 DEF TypeOK, Idle
<1>3. request[r].who \subseteq Students
    BY DEF TypeOK, Request
<1>4. CountMatchesRoster'
    BY <1>1 DEF CountMatchesRoster
<1>5. CASE Assign(r)
  <2>1. PICK role \in Roles :
          roles' = [s \in Students |-> IF s \in request[r].who THEN roles[s] \cup {role} ELSE roles[s]]
      BY <1>5 DEF Assign
  <2>2. permitted' = permitted /\ delegates' = delegates /\ request[r].who \subseteq enrolled
      BY <1>5 DEF Assign, Informed
  <2>3. \A q \in Requests : request[q].who \subseteq Students
      BY DEF TypeOK, Request
  <2>4. Informed'
      BY <1>1, <1>2, <2>1, <2>3 DEF Informed
  <2>5. DelegatesAreMembers'
      BY <1>1, <2>1, <2>2 DEF DelegatesAreMembers
  <2>6. TypeOK'
      BY <1>1, <2>1, <2>2, IdleType DEF TypeOK
  <2> QED BY <1>4, <2>4, <2>5, <2>6
<1>6. CASE Unassign(r)
  <2>1. PICK s \in request[r].who : \E role \in roles[s] : roles' = [roles EXCEPT ![s] = @ \ {role}]
      BY <1>6 DEF Unassign
  <2>2. /\ permitted' = permitted /\ delegates' = delegates
        /\ roles' \in [Students -> SUBSET Roles]
        /\ \A x \in Students : roles'[x] \subseteq roles[x] /\ (x # s => roles'[x] = roles[x])
      BY <1>3, <1>6, <2>1 DEF Unassign, TypeOK
  <2>3. \A q \in Requests : q # r /\ request[q].phase = "found" => s \notin request[q].who
      BY <1>6, <2>1, StudentIsHeld DEF Unassign
  <2>4. \A q \in Requests : request[q].who \subseteq Students
      BY DEF TypeOK, Request
  <2>5. Informed'
      BY <1>1, <1>2, <2>2, <2>3, <2>4 DEF Informed
  <2>6. DelegatesAreMembers'
      BY <1>1, <2>2 DEF DelegatesAreMembers
  <2>7. TypeOK'
      BY <1>1, <2>2, IdleType DEF TypeOK
  <2> QED BY <1>4, <2>5, <2>6, <2>7
<1>7. CASE Grant(r) \/ Revoke(r) \/ CreateSession(r)
  <2>1. /\ roles' = roles
        /\ permitted' \subseteq permitted \cup (request[r].who \cap enrolled)
        /\ delegates' \subseteq delegates \cup request[r].who
      BY <1>7 DEF Grant, Revoke, CreateSession, Informed
  <2>2. Informed'
      BY <1>1, <1>2, <2>1 DEF Informed
  <2>3. DelegatesAreMembers'
      BY <1>1, <2>1 DEF DelegatesAreMembers
  <2>4. TypeOK'
      BY <1>1, <1>3, <2>1, IdleType DEF TypeOK
  <2> QED BY <1>4, <2>2, <2>3, <2>4
<1> QED BY <1>5, <1>6, <1>7

LEMMA OtherStep ==
    ASSUME IInv, [Next]_vars, UNCHANGED <<enrolled, tombstoned, studentCount, roles, delegates>>,
           permitted' \subseteq permitted,
           codeUsable' \in BOOLEAN, failures' \in 0..MaxFailures
    PROVE  Roster' /\ TypeOK'
<1> USE DEF IInv, Roster
<1>1. CountMatchesRoster' /\ DelegatesAreMembers'
    BY DEF CountMatchesRoster, DelegatesAreMembers
<1>2. TypeOK'
    BY RequestTypeStep DEF TypeOK
<1>3. Informed'
  <2>1. CASE UNCHANGED request
      BY <2>1 DEF Informed
  <2>2. ASSUME NEW r \in Requests, request' = [request EXCEPT ![r] = Idle]
        PROVE  Informed'
      BY <2>2 DEF Informed, TypeOK, Idle
  <2>3. ASSUME NEW r \in Requests, NEW op \in Operations, NEW who \in SUBSET Students,
               Arrive(r, op, who)
        PROVE  Informed'
      BY <2>3 DEF Arrive, Informed, TypeOK, Idle
  <2>4. ASSUME NEW r \in Requests, NEW l \in {"section", "student"}, Acquire(r, l)
        PROVE  Informed'
      BY <2>4 DEF Acquire, Informed, TypeOK, Request
  <2>5. ASSUME NEW r \in Requests, ImportPlan(r) \/ ImportCount(r)
        PROVE  Informed'
    <3>1. \A q \in Requests : q # r => request'[q] = request[q]
        BY <2>5 DEF ImportPlan, ImportCount, TypeOK
    <3>2. request'[r].phase # "found"
        BY <2>5 DEF ImportPlan, ImportCount, TypeOK, Request
    <3>3. request'[r].phase = "counted" =>
             request'[r].count = Cardinality(enrolled \cup request'[r].plan)
      <4>1. CASE ImportPlan(r)
          BY <4>1 DEF ImportPlan, TypeOK, Request
      <4>2. CASE ImportCount(r)
        <5>1. /\ request'[r].plan = request[r].plan
              /\ request'[r].count = Cardinality(enrolled \cup request[r].plan)
            BY <4>2 DEF ImportCount, TypeOK, Request
        <5> QED BY <5>1
      <4> QED BY <2>5, <4>1, <4>2
    <3> QED BY <3>1, <3>2, <3>3 DEF Informed
  <2>6. ASSUME NEW r \in Requests, FindMember(r)
        PROVE  Informed'
      BY <2>6 DEF FindMember, Possible, MayCreate, IsMember, Informed, TypeOK, Request
  <2> QED BY <2>1, <2>2, <2>3, <2>4, <2>5, <2>6, RequestEffect
<1> QED BY <1>1, <1>2, <1>3

LEMMA IInvStep == IInv /\ [Next]_vars => IInv'
<1> SUFFICES ASSUME IInv, [Next]_vars PROVE IInv'
    OBVIOUS
<1>1. Locks'
    BY LocksStep DEF IInv
<1>2. TypeOK' /\ Roster'
  <2>1. ASSUME NEW r \in Requests,
               \/ Refuse(r) \/ ImportPlan(r) \/ ImportCount(r) \/ FindMember(r) \/ RequestDies(r)
               \/ \E l \in {"section", "student"} : Acquire(r, l)
               \/ \E op \in Operations, who \in SUBSET Students : Arrive(r, op, who)
        PROVE  TypeOK' /\ Roster'
    <3>1. UNCHANGED <<codeUsable, enrolled, tombstoned, studentCount, roles, permitted, delegates>>
        BY <2>1 DEF Refuse, ImportPlan, ImportCount, FindMember, RequestDies, Acquire, Arrive,
                    rosterVars, delegationVars
    <3>2. failures' = failures \/ (failures < MaxFailures /\ failures' = failures + 1)
        BY <2>1 DEF Refuse, ImportPlan, ImportCount, FindMember, RequestDies, Acquire, Arrive
    <3>3. failures' \in 0..MaxFailures
        BY <3>2, FailureAssumption DEF IInv, TypeOK
    <3> QED BY <3>1, <3>3, OtherStep DEF IInv, TypeOK
  <2>2. CASE ChangeCode \/ (\E s \in Students : ExpirePermission(s)) \/ UNCHANGED vars
    <3>1. /\ UNCHANGED <<enrolled, tombstoned, studentCount, roles, delegates, failures>>
          /\ permitted' \subseteq permitted /\ codeUsable' \in BOOLEAN
        BY <2>2 DEF ChangeCode, ExpirePermission, vars, rosterVars, delegationVars, IInv, TypeOK
    <3> QED BY <3>1, OtherStep DEF IInv, TypeOK
  <2> QED BY <2>1, <2>2, AdmitStep, RemoveStep, ImportStep, DelegationStep DEF Next, Work
<1> QED BY <1>1, <1>2 DEF IInv

LEMMA IInvAlways == Spec => []IInv
BY IInvInit, IInvStep, PTL DEF Spec

-----------------------------------------------------------------------------
(* Theorems *)

\* Every reachable state of the roster and its requests is well typed; in
\* particular the cached head count is never negative.
THEOREM RosterTypeCorrect == Spec => []TypeOK
<1>1. IInv => TypeOK
    BY DEF IInv
<1> QED BY <1>1, IInvAlways, PTL

\* The cached head count is the number of enrolled students, whatever joins,
\* removals and imports run at the same time.
THEOREM HeadCountIsRight == Spec => []CountMatchesRoster
<1>1. IInv => CountMatchesRoster
    BY DEF IInv, Roster
<1> QED BY <1>1, IInvAlways, PTL

\* Only enrolled students hold a section role or a live permission.
THEOREM OnlyMembersAreDelegates == Spec => []DelegatesAreMembers
<1>1. IInv => DelegatesAreMembers
    BY DEF IInv, Roster
<1> QED BY <1>1, IInvAlways, PTL

\* A session is created only by a student who is enrolled and president then.
THEOREM CreationIsAuthorized == Spec => CreatorsAreAuthorized
<1>1. IInv /\ [Next]_vars =>
        [\A s \in delegates' \ delegates : s \in enrolled /\ President \in roles[s]]_vars
  <2> SUFFICES ASSUME IInv, [Next]_vars, NEW s \in delegates' \ delegates
               PROVE  s \in enrolled /\ President \in roles[s]
      OBVIOUS
  <2>1. PICK r \in Requests : CreateSession(r)
      BY DEF Next, Work, Arrive, Acquire, RequestDies, ChangeCode, ExpirePermission, Refuse,
             Admit, RemoveStudent, ImportPlan, ImportCount, ImportCommit, FindMember, Assign,
             Unassign, Grant, Revoke, delegationVars, vars
  <2> QED BY <2>1 DEF CreateSession, IInv, Roster, Informed
<1> QED BY <1>1, IInvAlways, PTL DEF Spec, CreatorsAreAuthorized

\* The locks never block every request that is in progress.
THEOREM LocksDoNotDeadlock == Spec => []SomeRequestCanProceed
<1>1. IInv => SomeRequestCanProceed
  <2> SUFFICES ASSUME IInv, NEW r \in Requests, request[r].phase # "idle",
                      \A q \in Requests : request[q].phase # "idle" => Missing(q) # {}
               PROVE  \E q \in Requests : /\ request[q].phase # "idle"
                        /\ \E l \in Missing(q) : InOrder(l, Missing(q)) /\ Free(l, request[q].who)
      BY DEF SomeRequestCanProceed
  <2>1. \A q \in Requests : "student" \notin request[q].held
      BY DEF IInv, Locks, Discipline
  <2>2. \A q \in Requests : Missing(q) \subseteq {"section", "student"}
      BY DEF Missing, Needs
  <2>3. CASE \E q \in Requests : "section" \in request[q].held
    <3>1. PICK q \in Requests : "section" \in request[q].held
        BY <2>3
    <3>2. request[q].phase # "idle"
        BY <3>1 DEF IInv, Locks, Discipline
    <3>3. Missing(q) = {"student"}
        BY <2>2, <3>1, <3>2 DEF Missing
    <3> QED BY <2>1, <3>2, <3>3 DEF InOrder, Free
  <2>4. CASE \A q \in Requests : "section" \notin request[q].held
    <3>1. PICK l \in Missing(r) : InOrder(l, Missing(r))
        BY <2>2 DEF InOrder
    <3> QED BY <2>1, <2>2, <2>4, <3>1 DEF Free
  <2> QED BY <2>3, <2>4
<1> QED BY <1>1, IInvAlways, PTL
=============================================================================
