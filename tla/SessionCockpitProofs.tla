------------------------ MODULE SessionCockpitProofs ------------------------
(***************************************************************************)
(* Proofs about SessionCockpit, for every number of changes of the         *)
(* session, of mutations and of failures.                                  *)
(***************************************************************************)
EXTENDS SessionCockpit, FiniteSetTheorems, TLAPS

InFlight(m) == mutation[m].step # "none"

\* What is counted is in flight; a reset may have forgotten some that still are.
CountIsReal ==
    /\ mutating # 0 => InFlight("generate") \/ InFlight("end")
    /\ mutating = 2 => InFlight("generate") /\ InFlight("end")

\* Whatever was seen of the session is what it is or was before a later version.
IsPast(s) == s.version <= server.version /\ (s.version = server.version => s = server)
AllIsPast ==
    /\ IsPast(NewSession) /\ IsPast(view)
    /\ \A r \in Reads : IsPast(read[r].saw)
    /\ \A m \in Mutations : IsPast(mutation[m].saw)

\* A read that may be shown has seen the last mutation that was.
ReadsSeeFloor ==
    /\ floor <= server.version /\ floor <= view.version
    /\ \A r \in Reads :
          /\ read[r].epoch <= epoch
          /\ read[r].step = "answered" /\ read[r].epoch = epoch => floor <= read[r].saw.version

\* The refresh is under way exactly while the page thinks so.
RefreshIsCounted ==
    /\ reading <=> read["refresh"].step # "idle"
    /\ queued => reading

\* A read that will bring the page up to date, unless it fails.
Brings(r) ==
    /\ read[r].step # "idle" /\ read[r].epoch = epoch
    /\ read[r].step = "answered" => read[r].saw = server

\* A page that is not, and was not left, behind is about to learn.
UpdateIsComing ==
    \/ behind \/ event \/ view = server \/ queued
    \/ \E m \in Mutations : InFlight(m)
    \/ \E r \in Reads : Brings(r)

IInv == TypeOK /\ CountIsReal /\ AllIsPast /\ ReadsSeeFloor /\ RefreshIsCounted /\ UpdateIsComing

-----------------------------------------------------------------------------
(* Types *)

LEMMA RestTypes ==
    /\ NewSession \in Session /\ NewSession.version = 0
    /\ NoRead \in Read /\ NoRead.step = "idle" /\ NoRead.epoch = 0 /\ NoRead.saw = NewSession
    /\ NoMutation \in Mutation /\ NoMutation.step = "none" /\ NoMutation.saw = NewSession
    /\ \A e \in Nat : /\ Sent(e) \in Read /\ Sent(e).step = "sent"
                      /\ Sent(e).epoch = e /\ Sent(e).saw = NewSession
<1>1. NewSession \in Session /\ NewSession.version = 0
    BY CockpitAssumption DEF NewSession, Session, Phases
<1>2. NoRead \in Read /\ NoRead.step = "idle" /\ NoRead.epoch = 0 /\ NoRead.saw = NewSession
    BY <1>1 DEF NoRead, Read
<1>3. NoMutation \in Mutation /\ NoMutation.step = "none" /\ NoMutation.saw = NewSession
    BY <1>1 DEF NoMutation, Mutation
<1>4. \A e \in Nat : /\ Sent(e) \in Read /\ Sent(e).step = "sent"
                     /\ Sent(e).epoch = e /\ Sent(e).saw = NewSession
    BY <1>2 DEF Sent, Read
<1> QED BY <1>1, <1>2, <1>3, <1>4

LEMMA TypeFacts ==
    ASSUME IInv
    PROVE  /\ server \in Session /\ view \in Session /\ epoch \in Nat /\ mutating \in 0..2
           /\ reading \in BOOLEAN /\ queued \in BOOLEAN /\ joined \in BOOLEAN
           /\ prompt \in BOOLEAN /\ event \in BOOLEAN /\ behind \in BOOLEAN
           /\ read \in [Reads -> Read] /\ mutation \in [Mutations -> Mutation]
           /\ started \in 0..MaxMutations /\ failures \in 0..MaxFailures /\ floor \in 0..MaxVersion
           /\ server.version \in 0..MaxVersion /\ view.version \in 0..MaxVersion
           /\ MaxVersion \in Nat /\ MaxMutations \in Nat /\ MaxFailures \in Nat
           /\ \A r \in Reads : /\ read[r] \in Read /\ read[r].epoch \in Nat
                               /\ read[r].saw \in Session /\ read[r].saw.version \in 0..MaxVersion
           /\ \A m \in Mutations : /\ mutation[m] \in Mutation /\ mutation[m].epoch \in Nat
                                   /\ mutation[m].saw \in Session
                                   /\ mutation[m].saw.version \in 0..MaxVersion
           /\ "refresh" \in Reads /\ Mutations \subseteq Reads /\ "refresh" \notin Mutations
           /\ "generate" \in Mutations /\ "end" \in Mutations
<1>1. /\ server \in Session /\ view \in Session /\ epoch \in Nat /\ mutating \in 0..2
      /\ reading \in BOOLEAN /\ queued \in BOOLEAN /\ joined \in BOOLEAN
      /\ prompt \in BOOLEAN /\ event \in BOOLEAN /\ behind \in BOOLEAN
      /\ read \in [Reads -> Read] /\ mutation \in [Mutations -> Mutation]
      /\ started \in 0..MaxMutations /\ failures \in 0..MaxFailures /\ floor \in 0..MaxVersion
    BY DEF IInv, TypeOK
<1>2. MaxVersion \in Nat /\ MaxMutations \in Nat /\ MaxFailures \in Nat
    BY CockpitAssumption
<1>3. "refresh" \in Reads /\ Mutations \subseteq Reads /\ "refresh" \notin Mutations
      /\ "generate" \in Mutations /\ "end" \in Mutations
    BY DEF Reads, Mutations
<1> QED BY <1>1, <1>2, <1>3 DEF Session, Read, Mutation

\* The same facts in the portions most steps need.
LEMMA VarTypes ==
    ASSUME IInv
    PROVE  /\ server \in Session /\ view \in Session /\ epoch \in Nat
           /\ read \in [Reads -> Read] /\ mutation \in [Mutations -> Mutation]
    BY DEF IInv, TypeOK

LEMMA Members ==
    /\ "refresh" \in Reads /\ Mutations \subseteq Reads /\ "refresh" \notin Mutations
    /\ "generate" \in Mutations /\ "end" \in Mutations
    BY DEF Reads, Mutations

LEMMA Versions ==
    ASSUME IInv
    PROVE  /\ server.version \in Int /\ view.version \in Int /\ floor \in Int /\ epoch \in Int
           /\ \A r \in Reads : read[r].epoch \in Int /\ read[r].saw.version \in Int
           /\ \A m \in Mutations : mutation[m].epoch \in Int /\ mutation[m].saw.version \in Int
    BY TypeFacts

LEMMA InitInvariant == Init => IInv
<1> SUFFICES ASSUME Init PROVE IInv
    OBVIOUS
<1>1. TypeOK
  <2>1. /\ MaxVersion \in Nat /\ MaxMutations \in Nat /\ MaxFailures \in Nat
      BY CockpitAssumption
  <2>2. /\ server \in Session /\ view \in Session
        /\ read \in [Reads -> Read] /\ mutation \in [Mutations -> Mutation]
      BY RestTypes DEF Init
  <2>3. /\ epoch \in Nat /\ mutating \in 0..2 /\ started \in 0..MaxMutations
        /\ failures \in 0..MaxFailures /\ floor \in 0..MaxVersion
      BY <2>1 DEF Init
  <2>4. /\ reading \in BOOLEAN /\ queued \in BOOLEAN /\ prompt \in BOOLEAN
        /\ joined \in BOOLEAN /\ event \in BOOLEAN /\ behind \in BOOLEAN
      BY DEF Init
  <2> QED BY <2>2, <2>3, <2>4 DEF TypeOK
<1>2. CountIsReal
    BY RestTypes DEF Init, CountIsReal, InFlight, Mutations
<1>3. AllIsPast
    BY RestTypes DEF Init, AllIsPast, IsPast
<1>4. ReadsSeeFloor /\ RefreshIsCounted
    BY RestTypes DEF Init, ReadsSeeFloor, RefreshIsCounted, Reads
<1>5. UpdateIsComing
    BY DEF Init, UpdateIsComing
<1> QED BY <1>1, <1>2, <1>3, <1>4, <1>5 DEF IInv

-----------------------------------------------------------------------------
(* The server *)

\* Whatever was past is past after a change, and the change announces itself.
LEMMA ChangeIsLater ==
    ASSUME IInv, NEW phase \in Phases, Changes(phase)
    PROVE  /\ server' \in Session /\ event' \in BOOLEAN /\ behind' \in BOOLEAN
           /\ server'.version = server.version + 1
           /\ \A s \in Session : IsPast(s) => IsPast(s)'
           /\ event' \/ behind'
<1>1. server' \in Session /\ server'.version = server.version + 1
    BY TypeFacts DEF Changes, Session
<1>2. \A s \in Session : IsPast(s) => IsPast(s)'
    BY <1>1, TypeFacts DEF IsPast, Session
<1> QED BY <1>1, <1>2, TypeFacts DEF Changes

LEMMA OthersChangeKeeps == ASSUME IInv, NEW phase \in Phases, OthersChange(phase) PROVE IInv'
<1>1. /\ Changes(phase)
      /\ UNCHANGED <<view, coordinator, refresh, mutation, page, bounds, floor>>
    BY DEF OthersChange
<1> USE DEF coordinator, refresh, page, bounds
<1>2. TypeOK'
    BY <1>1, ChangeIsLater DEF IInv, TypeOK
<1>3. CountIsReal' /\ RefreshIsCounted'
    BY <1>1 DEF IInv, CountIsReal, InFlight, RefreshIsCounted
<1>4. AllIsPast'
    BY <1>1, ChangeIsLater, TypeFacts, RestTypes DEF IInv, AllIsPast
<1>5. ReadsSeeFloor'
    BY <1>1, ChangeIsLater, TypeFacts DEF IInv, ReadsSeeFloor
<1>6. UpdateIsComing'
    BY <1>1, ChangeIsLater DEF UpdateIsComing
<1> QED BY <1>2, <1>3, <1>4, <1>5, <1>6 DEF IInv

LEMMA MutationRunsKeeps == ASSUME IInv, NEW m \in Mutations, MutationRuns(m) PROVE IInv'
<1>1. PICK phase \in Targets(m) : Changes(phase)
    BY DEF MutationRuns
<1>2. /\ UNCHANGED <<view, coordinator, refresh, page, bounds, floor>>
      /\ mutation[m].step = "sent"
      /\ mutation' = [mutation EXCEPT ![m].step = "done", ![m].saw = server']
    BY DEF MutationRuns
<1> USE DEF coordinator, refresh, page, bounds
<1>3. phase \in Phases
    BY DEF Targets, Phases
<1>4. /\ mutation' \in [Mutations -> Mutation]
      /\ mutation'[m].step = "done" /\ mutation'[m].saw = server'
      /\ \A k \in Mutations : k # m => mutation'[k] = mutation[k]
    BY <1>1, <1>2, <1>3, ChangeIsLater, TypeFacts DEF Mutation
<1>5. TypeOK'
    BY <1>1, <1>2, <1>3, <1>4, ChangeIsLater DEF IInv, TypeOK
<1>6. CountIsReal' /\ RefreshIsCounted'
    BY <1>2, <1>4, TypeFacts DEF IInv, CountIsReal, InFlight, RefreshIsCounted
<1>7. AllIsPast'
  <2>1. IsPast(server)'
      BY <1>1, <1>3, ChangeIsLater DEF IsPast, Session
  <2> QED BY <1>1, <1>2, <1>3, <1>4, <2>1, ChangeIsLater, TypeFacts, RestTypes DEF IInv, AllIsPast
<1>8. ReadsSeeFloor'
    BY <1>1, <1>2, <1>3, ChangeIsLater, TypeFacts DEF IInv, ReadsSeeFloor
<1>9. UpdateIsComing'
    BY <1>1, <1>3, ChangeIsLater DEF UpdateIsComing
<1> QED BY <1>5, <1>6, <1>7, <1>8, <1>9 DEF IInv

-----------------------------------------------------------------------------
(* Reads *)

\* A read is served what the session is now.
LEMMA ServeKeeps == ASSUME IInv, NEW r \in Reads, ReadServed(r) PROVE IInv'
<1> DEFINE row == [read[r] EXCEPT !.step = "answered", !.saw = server]
<1>1. /\ read[r].step = "sent" /\ read' = [read EXCEPT ![r] = row]
      /\ UNCHANGED <<server, view, epoch, mutating, reading, queued, mutation, prompt, joined, event,
                     started, failures, floor, behind>>
    BY VarTypes DEF ReadServed, coordinator, page, bounds
<1>2. row \in Read /\ row.epoch = read[r].epoch /\ row.step # "idle" /\ row.saw = server
    BY VarTypes DEF Read
<1> HIDE DEF row
<1>3. /\ read' \in [Reads -> Read] /\ read'[r] = row
      /\ \A q \in Reads : q # r => read'[q] = read[q]
    BY <1>1, <1>2, VarTypes
<1>4. TypeOK'
    BY <1>1, <1>3 DEF IInv, TypeOK
<1>5. CountIsReal'
    BY <1>1 DEF IInv, CountIsReal, InFlight
<1>6. RefreshIsCounted'
  <2>1. read'["refresh"].step # "idle" <=> read["refresh"].step # "idle"
      BY <1>1, <1>2, <1>3, Members
  <2> QED BY <1>1, <2>1 DEF IInv, RefreshIsCounted
<1>7. AllIsPast'
  <2>1. IsPast(server)
      BY Versions DEF IsPast
  <2>2. \A s : IsPast(s) => IsPast(s)'
      BY <1>1 DEF IsPast
  <2>3. \A q \in Reads : IsPast(read'[q].saw)
      BY <1>2, <1>3, <2>1 DEF IInv, AllIsPast
  <2> QED BY <1>1, <2>2, <2>3 DEF IInv, AllIsPast
<1>8. ReadsSeeFloor'
  <2>1. \A q \in Reads : read'[q].epoch = read[q].epoch
      BY <1>2, <1>3
  <2>2. ASSUME NEW q \in Reads, read'[q].step = "answered", read'[q].epoch = epoch
        PROVE  floor <= read'[q].saw.version
      BY <1>2, <1>3, <2>1, <2>2 DEF IInv, ReadsSeeFloor
  <2> QED BY <1>1, <2>1, <2>2 DEF IInv, ReadsSeeFloor
<1>9. UpdateIsComing'
  <2>1. \A q \in Reads : Brings(q) => Brings(q)'
      BY <1>1, <1>2, <1>3 DEF Brings
  <2> QED BY <1>1, <2>1 DEF IInv, UpdateIsComing, InFlight
<1> QED BY <1>4, <1>5, <1>6, <1>7, <1>8, <1>9 DEF IInv

\* A refresh asked for is under way or queued, and will see what the server has.
LEMMA RefreshType ==
    ASSUME IInv, NEW e \in Nat, Refresh(e)
    PROVE  /\ read' \in [Reads -> Read] /\ reading' \in BOOLEAN /\ queued' \in BOOLEAN
           /\ reading' /\ read'["refresh"].step # "idle"
           /\ \/ queued' /\ read' = read
              \/ read'["refresh"] = Sent(e)
           /\ \A q \in Reads : read'[q] = read[q] \/ (q = "refresh" /\ read'[q] = Sent(e))
<1>1. read \in [Reads -> Read] /\ reading \in BOOLEAN /\ queued \in BOOLEAN
    BY DEF IInv, TypeOK
<1>2. CASE reading
  <2>1. queued' = TRUE /\ reading' = reading /\ read' = read
      BY <1>2 DEF Refresh
  <2>2. read["refresh"].step # "idle"
      BY <1>2 DEF IInv, RefreshIsCounted
  <2> QED BY <1>1, <1>2, <2>1, <2>2
<1>3. CASE ~reading
  <2>1. /\ reading' = TRUE /\ queued' = queued
        /\ read' = [read EXCEPT !["refresh"] = Sent(e)]
      BY <1>3 DEF Refresh
  <2>2. Sent(e) \in Read /\ Sent(e).step = "sent"
      BY RestTypes
  <2>3. /\ read' \in [Reads -> Read] /\ read'["refresh"] = Sent(e)
        /\ \A q \in Reads : q # "refresh" => read'[q] = read[q]
      BY <1>1, <2>1, <2>2, Members
  <2> QED BY <1>1, <2>1, <2>2, <2>3
<1> QED BY <1>2, <1>3

\* A refresh sent in the present epoch or a later one will be in time, and what
\* the other reads saw stands unless the epoch moved on.
LEMMA RefreshKeeps ==
    ASSUME IInv, NEW e \in Nat, Refresh(e), epoch' = e, epoch <= e, server' = server
    PROVE  /\ RefreshIsCounted' /\ UpdateIsComing'
           /\ \A q \in Reads : IsPast(read'[q].saw) /\ read'[q].epoch <= e
           /\ \A q \in Reads : (read'[q].step = "answered" /\ read'[q].epoch = e)
                                => (epoch = e /\ floor <= read'[q].saw.version)
<1>1. Sent(e).step = "sent" /\ Sent(e).epoch = e /\ Sent(e).saw = NewSession
    BY RestTypes
<1>2. \A q \in Reads : read'[q] = read[q] \/ (q = "refresh" /\ read'[q] = Sent(e))
    BY RefreshType
<1>3. \A q \in Reads : IsPast(read'[q].saw)
    BY <1>1, <1>2 DEF IInv, AllIsPast
<1>4. ASSUME NEW q \in Reads PROVE read'[q].epoch <= e
    BY <1>1, <1>2, Versions DEF IInv, ReadsSeeFloor
<1>5. ASSUME NEW q \in Reads, read'[q].step = "answered", read'[q].epoch = e
      PROVE  epoch = e /\ floor <= read'[q].saw.version
  <2>1. read'[q] = read[q]
      BY <1>1, <1>2, <1>5
  <2>2. read[q].epoch = epoch /\ epoch = e
      BY <1>5, <2>1, Versions DEF IInv, ReadsSeeFloor
  <2> QED BY <1>5, <2>1, <2>2 DEF IInv, ReadsSeeFloor
<1>6. RefreshIsCounted'
    BY RefreshType DEF RefreshIsCounted
<1>7. UpdateIsComing'
  <2>1. CASE queued'
      BY <2>1 DEF UpdateIsComing
  <2>2. CASE read'["refresh"] = Sent(e)
    <3>1. Brings("refresh")'
        BY <1>1, <2>2 DEF Brings
    <3> QED BY <3>1, Members DEF UpdateIsComing
  <2> QED BY <2>1, <2>2, RefreshType
<1> QED BY <1>3, <1>4, <1>5, <1>6, <1>7

LEMMA AskKeeps == ASSUME IInv, EventArrives \/ Poll \/ RefreshClicked PROVE IInv'
<1>1. /\ Refresh(epoch) /\ event' \in BOOLEAN
      /\ UNCHANGED <<server, view, epoch, mutating, mutation, prompt, joined, started, failures, floor, behind>>
    BY TypeFacts DEF EventArrives, Poll, RefreshClicked, coordinator, page, bounds
<1>2. epoch \in Nat /\ epoch <= epoch
    BY VarTypes
<1>3. /\ read' \in [Reads -> Read] /\ reading' \in BOOLEAN /\ queued' \in BOOLEAN
    BY <1>1, <1>2, RefreshType
<1>4. TypeOK'
    BY <1>1, <1>3 DEF IInv, TypeOK
<1>5. CountIsReal'
    BY <1>1 DEF IInv, CountIsReal, InFlight
<1>6. \A s : IsPast(s) => IsPast(s)'
    BY <1>1 DEF IsPast
<1>7. AllIsPast'
    BY <1>1, <1>2, <1>6, RefreshKeeps DEF IInv, AllIsPast
<1>8. ReadsSeeFloor'
    BY <1>1, <1>2, RefreshKeeps DEF IInv, ReadsSeeFloor
<1>9. RefreshIsCounted' /\ UpdateIsComing'
    BY <1>1, <1>2, RefreshKeeps
<1> QED BY <1>4, <1>5, <1>7, <1>8, <1>9 DEF IInv

\* What is shown is as new as what was, or the page is behind; only while no
\* mutation is in flight, and then from a read of the current epoch.
LEMMA ShowsSafe ==
    ASSUME IInv, NEW r \in Reads, Returns(r), Shows(r)
    PROVE  /\ view' \in Session /\ behind' \in BOOLEAN
           /\ view' \in {view, read[r].saw}
           /\ failures' \in 0..MaxFailures /\ floor <= view'.version
           /\ UpdateIsComing =>
                 \/ behind' \/ event \/ view' = server \/ queued
                 \/ \E m \in Mutations : InFlight(m)
                 \/ \E q \in Reads : q # r /\ Brings(q)
<1>1. IsPast(view) /\ IsPast(read[r].saw)
    BY DEF IInv, AllIsPast
<1>0. failures' \in 0..MaxFailures /\ read[r].step \in {"answered", "sent"}
    BY TypeFacts DEF Returns, Fail
<1>2. CASE read[r].step = "answered" /\ CanCommitRead(read[r].epoch)
  <2>1. /\ view' = read[r].saw /\ mutating = 0 /\ read[r].epoch = epoch
        /\ behind' = (read[r].saw.version < view.version \/ (behind /\ read[r].saw # server))
      BY <1>2 DEF Shows, CanCommitRead
  <2>2. floor <= view'.version
      BY <1>2, <2>1 DEF IInv, ReadsSeeFloor
  <2>3. UpdateIsComing =>
           \/ behind' \/ event \/ view' = server \/ queued
           \/ \E m \in Mutations : InFlight(m)
           \/ \E q \in Reads : q # r /\ Brings(q)
    <3>1. CASE view = server
      <4>1. read[r].saw = server \/ read[r].saw.version < view.version
          BY <1>1, <3>1, Versions DEF IsPast
      <4> QED BY <2>1, <4>1
    <3>2. CASE Brings(r)
        BY <1>2, <2>1, <3>2 DEF Brings
    <3> QED BY <2>1, <3>1, <3>2 DEF UpdateIsComing
  <2> QED BY <1>0, <2>1, <2>2, <2>3, TypeFacts
<1>3. CASE ~(read[r].step = "answered" /\ CanCommitRead(read[r].epoch))
  <2>1. view' = view /\ behind' = (behind \/ read[r].step = "sent")
      BY <1>3 DEF Shows
  <2>2. floor <= view'.version
      BY <2>1 DEF IInv, ReadsSeeFloor
  <2>3. UpdateIsComing =>
           \/ behind' \/ event \/ view' = server \/ queued
           \/ \E m \in Mutations : InFlight(m)
           \/ \E q \in Reads : q # r /\ Brings(q)
    <3>1. CASE Brings(r)
      <4>1. read[r].step = "sent" \/ mutating # 0
          BY <1>0, <1>3, <3>1 DEF Brings, CanCommitRead
      <4>2. mutating # 0 => \E m \in Mutations : InFlight(m)
          BY Members DEF IInv, CountIsReal
      <4> QED BY <2>1, <4>1, <4>2
    <3> QED BY <2>1, <3>1 DEF UpdateIsComing
  <2> QED BY <1>0, <2>1, <2>2, <2>3, TypeFacts
<1> QED BY <1>2, <1>3

\* Once a read is over, its place is free or taken by the refresh that follows.
LEMMA SettledKeeps ==
    ASSUME IInv, NEW r \in Reads, Returns(r), Shows(r),
           NEW row \in Read, row = NoRead \/ row = Sent(epoch),
           read' = [read EXCEPT ![r] = row],
           reading' \in BOOLEAN, queued' \in BOOLEAN,
           queued => queued' \/ row = Sent(epoch),
           RefreshIsCounted',
           UNCHANGED <<server, epoch, mutating, mutation, prompt, joined, event, started, floor>>
    PROVE  IInv'
<1>1. /\ view' \in Session /\ behind' \in BOOLEAN
      /\ view' \in {view, read[r].saw}
      /\ failures' \in 0..MaxFailures /\ floor <= view'.version
      /\ \/ behind' \/ event \/ view' = server \/ queued
         \/ \E m \in Mutations : InFlight(m)
         \/ \E q \in Reads : q # r /\ Brings(q)
    BY ShowsSafe DEF IInv
<1>2. /\ read' \in [Reads -> Read] /\ read'[r] = row
      /\ \A q \in Reads : q # r => read'[q] = read[q]
    BY VarTypes
<1>3. /\ row.step # "answered" /\ row.saw = NewSession /\ row.epoch \in {0, epoch}
      /\ (row = Sent(epoch) => row.step = "sent" /\ row.epoch = epoch)
    BY RestTypes, VarTypes
<1>4. TypeOK'
    BY <1>1, <1>2 DEF IInv, TypeOK
<1>5. CountIsReal'
    BY DEF IInv, CountIsReal, InFlight
<1>6. AllIsPast'
  <2>1. \A s : IsPast(s) => IsPast(s)'
      BY DEF IsPast
  <2>2. IsPast(view')
      BY <1>1 DEF IInv, AllIsPast
  <2>3. \A q \in Reads : IsPast(read'[q].saw)
      BY <1>2, <1>3 DEF IInv, AllIsPast
  <2> QED BY <2>1, <2>2, <2>3 DEF IInv, AllIsPast
<1>7. ReadsSeeFloor'
  <2>1. \A q \in Reads : read'[q].epoch <= epoch
      BY <1>2, <1>3, VarTypes DEF IInv, ReadsSeeFloor
  <2> QED BY <1>1, <1>2, <1>3, <2>1 DEF IInv, ReadsSeeFloor
<1>8. UpdateIsComing'
  <2>1. CASE row = Sent(epoch)
    <3>1. Brings(r)'
        BY <1>2, <1>3, <2>1 DEF Brings
    <3> QED BY <3>1 DEF UpdateIsComing
  <2>2. CASE \E q \in Reads : q # r /\ Brings(q)
    <3>1. PICK q \in Reads : q # r /\ Brings(q)
        BY <2>2
    <3>2. Brings(q)'
        BY <3>1, <1>2 DEF Brings
    <3> QED BY <3>2 DEF UpdateIsComing
  <2>3. CASE \E m \in Mutations : InFlight(m)
      BY <2>3 DEF UpdateIsComing, InFlight
  <2> QED BY <1>1, <2>1, <2>2, <2>3 DEF UpdateIsComing
<1> QED BY <1>4, <1>5, <1>6, <1>7, <1>8 DEF IInv

LEMMA RefreshSettlesKeeps == ASSUME IInv, RefreshSettles PROVE IInv'
<1> DEFINE row == IF queued THEN Sent(epoch) ELSE NoRead
<1>1. /\ Returns("refresh") /\ Shows("refresh")
      /\ reading' = queued /\ queued' = FALSE
      /\ read' = [read EXCEPT !["refresh"] = row]
      /\ UNCHANGED <<server, epoch, mutating, mutation, prompt, joined, event, started, floor>>
    BY DEF RefreshSettles, RunQueued, coordinator, page, bounds
<1>2. row \in Read /\ row \in {NoRead, Sent(epoch)} /\ (row.step # "idle" <=> queued)
      /\ (queued => row = Sent(epoch))
    BY RestTypes, VarTypes
<1> HIDE DEF row
<1>3. queued \in BOOLEAN
    BY DEF IInv, TypeOK
<1>4. RefreshIsCounted'
  <2>1. read'["refresh"] = row
      BY <1>1, VarTypes, Members
  <2> QED BY <1>1, <1>2, <2>1 DEF RefreshIsCounted
<1> QED BY <1>1, <1>2, <1>3, <1>4, SettledKeeps, Members

LEMMA ReconciliationSettlesKeeps ==
    ASSUME IInv, NEW m \in Mutations, ReconciliationSettles(m) PROVE IInv'
<1>1. /\ Returns(m) /\ Shows(m)
      /\ reading' = reading /\ queued' = queued
      /\ read' = [read EXCEPT ![m] = NoRead]
      /\ UNCHANGED <<server, epoch, mutating, mutation, prompt, joined, event, started, floor>>
    BY DEF ReconciliationSettles, coordinator, page, bounds
<1>2. NoRead \in Read
    BY RestTypes
<1>3. reading \in BOOLEAN /\ queued \in BOOLEAN
    BY DEF IInv, TypeOK
<1>4. RefreshIsCounted'
  <2>1. read'["refresh"] = read["refresh"]
      BY <1>1, VarTypes, Members
  <2> QED BY <1>1, <2>1 DEF IInv, RefreshIsCounted
<1> QED BY <1>1, <1>2, <1>3, <1>4, SettledKeeps, Members

-----------------------------------------------------------------------------
(* Mutations *)

\* The question puts the mutation off and disturbs nothing else.
LEMMA AsksKeeps == ASSUME IInv, AsksTeacher PROVE IInv'
<1> DEFINE row == [mutation["generate"] EXCEPT !.step = "asking"]
<1>1. /\ mutation["generate"].step = "sent"
      /\ mutation' = [mutation EXCEPT !["generate"] = row]
      /\ UNCHANGED <<server, view, epoch, mutating, reading, queued, read, prompt, joined, event,
                     started, failures, floor, behind>>
    BY VarTypes DEF AsksTeacher, coordinator, refresh, page, bounds
<1>2. row \in Mutation /\ row.step = "asking" /\ row.saw = mutation["generate"].saw
    BY VarTypes, Members DEF Mutation
<1> HIDE DEF row
<1>3. /\ mutation' \in [Mutations -> Mutation] /\ mutation'["generate"] = row
      /\ \A k \in Mutations : k # "generate" => mutation'[k] = mutation[k]
    BY <1>1, <1>2, VarTypes, Members
<1>4. \A k \in Mutations : /\ mutation'[k].saw = mutation[k].saw
                            /\ mutation'[k].step # "none" <=> mutation[k].step # "none"
  <2> TAKE k \in Mutations
  <2>1. CASE k = "generate"
      BY <2>1, <1>1, <1>2, <1>3
  <2>2. CASE k # "generate"
      BY <2>2, <1>3
  <2> QED BY <2>1, <2>2
<1>5. TypeOK'
    BY <1>1, <1>3 DEF IInv, TypeOK
<1>6. CountIsReal'
    BY <1>1, <1>4, Members DEF IInv, CountIsReal, InFlight
<1>7. AllIsPast'
  <2>1. \A s : IsPast(s) => IsPast(s)'
      BY <1>1 DEF IsPast
  <2> QED BY <1>1, <1>4, <2>1 DEF IInv, AllIsPast
<1>8. ReadsSeeFloor' /\ RefreshIsCounted'
    BY <1>1 DEF IInv, ReadsSeeFloor, RefreshIsCounted
<1>9. UpdateIsComing'
    BY <1>1, <1>2, <1>3, Members DEF UpdateIsComing, InFlight
<1> QED BY <1>5, <1>6, <1>7, <1>8, <1>9 DEF IInv

\* A mutation begins with an epoch of its own, which no read has.
LEMMA BeginsKeeps ==
    ASSUME IInv, NEW m \in Mutations,
           NEW row \in Mutation, row.step # "none", row.saw = NewSession,
           mutation' = [mutation EXCEPT ![m] = row],
           mutating' \in 0..2, mutating' \in {1, mutating, mutating + 1},
           mutating' # 1 => mutating # 0, mutating' = 2 => mutating = 2 \/ ~InFlight(m),
           epoch' \in Nat, epoch' > epoch, started' \in 0..MaxMutations,
           UNCHANGED <<server, view, reading, queued, read, prompt, joined, event, failures, floor,
                       behind>>
    PROVE  IInv'
<1>1. /\ mutation' \in [Mutations -> Mutation] /\ mutation'[m] = row
      /\ \A k \in Mutations : k # m => mutation'[k] = mutation[k]
    BY VarTypes
<1>2. TypeOK'
    BY <1>1 DEF IInv, TypeOK
<1>3. CountIsReal'
  <2>1. /\ mutation'[m].step # "none"
        /\ \A k \in Mutations : InFlight(k) => mutation'[k].step # "none"
      BY <1>1 DEF InFlight
  <2>2. mutation'["generate"].step # "none" \/ mutation'["end"].step # "none"
      BY <2>1 DEF Mutations
  <2>3. CASE mutating' = 2
    <3>1. \/ mutating = 2
          \/ mutating # 0 /\ ~InFlight(m)
        BY <2>3
    <3> QED BY <2>1, <3>1, <2>2, Members DEF IInv, CountIsReal, InFlight, Mutations
  <2>4. CASE mutating' # 2
      BY <2>2, <2>4 DEF CountIsReal, InFlight
  <2> QED BY <2>3, <2>4
<1>4. AllIsPast'
  <2>1. \A s : IsPast(s) => IsPast(s)'
      BY DEF IsPast
  <2> QED BY <1>1, <2>1 DEF IInv, AllIsPast
<1>5. ReadsSeeFloor'
  <2>1. \A q \in Reads : read[q].epoch < epoch'
      BY Versions DEF IInv, ReadsSeeFloor
  <2>2. \A q \in Reads : read'[q].epoch <= epoch' /\ read'[q].epoch # epoch'
      BY <2>1, Versions
  <2> QED BY <2>2 DEF IInv, ReadsSeeFloor
<1>6. RefreshIsCounted'
    BY DEF IInv, RefreshIsCounted
<1>7. UpdateIsComing'
    BY <1>1 DEF UpdateIsComing, InFlight
<1> QED BY <1>2, <1>3, <1>4, <1>5, <1>6, <1>7 DEF IInv

LEMMA BeginMutationKeeps == ASSUME IInv, NEW m \in Mutations, BeginMutation(m) PROVE IInv'
<1> DEFINE row == [NoMutation EXCEPT !.step = "sent", !.epoch = epoch']
<1>1. /\ Offered(m) /\ started < MaxMutations /\ started' = started + 1
      /\ mutating' = mutating + 1 /\ epoch' = epoch + 1
      /\ mutation' = [mutation EXCEPT ![m] = row]
      /\ UNCHANGED <<server, view, reading, queued, read, prompt, joined, event, failures, floor,
                     behind>>
    BY DEF BeginMutation, refresh, page
<1>2. ~InFlight(m)
    BY <1>1 DEF Offered, InFlight
<1>3. mutating # 2
    BY <1>2 DEF IInv, CountIsReal, Mutations
<1>4. /\ mutating' \in 0..2 /\ mutating' \in {1, mutating, mutating + 1}
      /\ (mutating' # 1 => mutating # 0)
    BY <1>1, <1>3, TypeFacts
<1>5. epoch' \in Nat /\ epoch' > epoch /\ started' \in 0..MaxMutations
    BY <1>1, TypeFacts
<1>6. row \in Mutation /\ row.step # "none" /\ row.saw = NewSession
  <2>1. NoMutation \in Mutation /\ NoMutation.saw = NewSession
      BY RestTypes
  <2> QED BY <1>5, <2>1 DEF Mutation
<1> HIDE DEF row
<1> QED BY <1>1, <1>2, <1>4, <1>5, <1>6, BeginsKeeps

LEMMA ConfirmsKeeps == ASSUME IInv, TeacherConfirms PROVE IInv'
<1> DEFINE row == [NoMutation EXCEPT !.step = "sent", !.epoch = epoch', !.override = TRUE]
<1>1. /\ mutating' = Settled(mutating) + 1 /\ epoch' = AbortEpoch("generate") + 1
      /\ mutation' = [mutation EXCEPT !["generate"] = row]
      /\ UNCHANGED <<server, view, reading, queued, read, prompt, joined, event, started, failures,
                     floor, behind>>
    BY DEF TeacherConfirms, refresh, page, bounds
<1>2. /\ mutating' \in 0..2 /\ mutating' \in {1, mutating, mutating + 1}
      /\ (mutating' # 1 => mutating # 0) /\ (mutating' = 2 => mutating = 2)
    BY <1>1, TypeFacts DEF Settled
<1>3. epoch' \in Nat /\ epoch' > epoch
    BY <1>1, VarTypes DEF AbortEpoch
<1>4. row \in Mutation /\ row.step # "none" /\ row.saw = NewSession
  <2>1. NoMutation \in Mutation /\ NoMutation.saw = NewSession
      BY RestTypes
  <2> QED BY <1>3, <2>1 DEF Mutation
<1>5. started' \in 0..MaxMutations
    BY <1>1, TypeFacts
<1> HIDE DEF row
<1> QED BY <1>1, <1>2, <1>3, <1>4, <1>5, Members, BeginsKeeps

\* A mutation that is over is taken off the count, or the count is reset.
LEMMA EndKeeps ==
    ASSUME IInv, NEW m \in Mutations,
           mutation' = [mutation EXCEPT ![m] = NoMutation],
           mutating' \in {0, Settled(mutating)}
    PROVE  /\ mutating' \in 0..2 /\ CountIsReal' /\ mutation' \in [Mutations -> Mutation]
           /\ \A k \in Mutations : mutation'[k].saw \in {NewSession, mutation[k].saw}
           /\ \A k \in Mutations : k # m => mutation'[k] = mutation[k]
<1>1. /\ mutation' \in [Mutations -> Mutation] /\ mutation'[m] = NoMutation
      /\ \A k \in Mutations : k # m => mutation'[k] = mutation[k]
    BY VarTypes, RestTypes
<1>2. mutating' \in 0..2 /\ mutating' # 2 /\ (mutating' # 0 => mutating = 2)
    BY TypeFacts DEF Settled
<1>3. CountIsReal'
  <2>1. mutating' # 0 => \A k \in Mutations : k # m => mutation'[k].step # "none"
      BY <1>1, <1>2 DEF IInv, CountIsReal, InFlight, Mutations
  <2>2. mutating' # 0 => mutation'["generate"].step # "none" \/ mutation'["end"].step # "none"
      BY <2>1 DEF Mutations
  <2> QED BY <1>2, <2>2 DEF CountIsReal, InFlight
<1>4. \A k \in Mutations : mutation'[k].saw \in {NewSession, mutation[k].saw}
    BY <1>1, RestTypes
<1> QED BY <1>1, <1>2, <1>3, <1>4

LEMMA CommitsKeeps == ASSUME IInv, NEW m \in Mutations, MutationCommits(m) PROVE IInv'
<1>1. /\ mutating' = Settled(mutating) /\ prompt' = PromptAfter(m)
      /\ mutation' = [mutation EXCEPT ![m] = NoMutation]
      /\ Refresh(epoch')
      /\ UNCHANGED <<server, joined, event, started, failures, behind>>
    BY DEF MutationCommits, bounds
<1>2. /\ mutating' \in 0..2 /\ CountIsReal' /\ mutation' \in [Mutations -> Mutation]
      /\ \A k \in Mutations : mutation'[k].saw \in {NewSession, mutation[k].saw}
      /\ prompt' \in BOOLEAN
    BY <1>1, EndKeeps DEF PromptAfter
<1>3. /\ epoch' \in Nat /\ epoch <= epoch'
      /\ view' \in Session /\ IsPast(view') /\ floor' <= view'.version
      /\ floor' <= server.version /\ floor' \in 0..MaxVersion
      /\ epoch' = epoch => floor' = floor
  <2>1. CASE mutation[m].epoch = epoch
    <3>1. epoch' = epoch + 1 /\ view' = mutation[m].saw /\ floor' = mutation[m].saw.version
        BY <2>1 DEF MutationCommits, CommitEpoch
    <3>2. /\ mutation[m].saw \in Session /\ mutation[m].saw.version \in 0..MaxVersion
          /\ epoch \in Nat
        BY TypeFacts
    <3>3. IsPast(mutation[m].saw)
        BY DEF IInv, AllIsPast
    <3> QED BY <3>1, <3>2, <3>3 DEF IsPast
  <2>2. CASE mutation[m].epoch # epoch
    <3>1. UNCHANGED <<epoch, view, floor>>
        BY <2>2 DEF MutationCommits
    <3>2. epoch \in Nat /\ view \in Session /\ floor \in 0..MaxVersion
        BY TypeFacts
    <3>3. IsPast(view) /\ floor <= view.version /\ floor <= server.version
        BY DEF IInv, AllIsPast, ReadsSeeFloor
    <3> QED BY <3>1, <3>2, <3>3
  <2> QED BY <2>1, <2>2
<1>4. /\ read' \in [Reads -> Read] /\ reading' \in BOOLEAN /\ queued' \in BOOLEAN
    BY <1>1, <1>3, RefreshType
<1>5. TypeOK'
    BY <1>1, <1>2, <1>3, <1>4 DEF IInv, TypeOK
<1>7. AllIsPast'
  <2>1. \A s : IsPast(s) => IsPast(s)'
      BY <1>1 DEF IsPast
  <2>2. \A q \in Reads : IsPast(read'[q].saw)
      BY <1>1, <1>3, RefreshKeeps
  <2>3. \A k \in Mutations : IsPast(mutation'[k].saw)
      BY <1>2 DEF IInv, AllIsPast
  <2> QED BY <1>3, <2>1, <2>2, <2>3 DEF IInv, AllIsPast
<1>8. ReadsSeeFloor'
  <2>1. /\ \A q \in Reads : read'[q].epoch <= epoch'
        /\ \A q \in Reads : (read'[q].step = "answered" /\ read'[q].epoch = epoch')
                             => (epoch = epoch' /\ floor <= read'[q].saw.version)
      BY <1>1, <1>3, RefreshKeeps
  <2> QED BY <1>1, <1>3, <2>1 DEF ReadsSeeFloor
<1>9. RefreshIsCounted' /\ UpdateIsComing'
    BY <1>1, <1>3, RefreshKeeps
<1> QED BY <1>2, <1>5, <1>7, <1>8, <1>9 DEF IInv

LEMMA FailsKeeps == ASSUME IInv, NEW m \in Mutations, MutationFails(m) PROVE IInv'
<1>1. /\ mutating' = 0 /\ epoch' = AbortEpoch(m) + 1 /\ prompt' = PromptAfter(m)
      /\ mutation' = [mutation EXCEPT ![m] = NoMutation]
      /\ read' = [read EXCEPT ![m] = Sent(epoch')]
      /\ UNCHANGED <<server, view, reading, queued, joined, event, started, floor, behind>>
    BY DEF MutationFails
<1>2. /\ mutating' \in 0..2 /\ CountIsReal' /\ mutation' \in [Mutations -> Mutation]
      /\ \A k \in Mutations : mutation'[k].saw \in {NewSession, mutation[k].saw}
      /\ prompt' \in BOOLEAN /\ failures' \in 0..MaxFailures
  <2>1. failures' \in 0..MaxFailures
      BY TypeFacts DEF MutationFails, Fail
  <2> QED BY <1>1, <2>1, EndKeeps DEF PromptAfter
<1>3. epoch' \in Nat /\ epoch < epoch'
    BY <1>1, VarTypes DEF AbortEpoch
<1>4. /\ Sent(epoch') \in Read /\ Sent(epoch').step = "sent"
      /\ Sent(epoch').epoch = epoch' /\ Sent(epoch').saw = NewSession
    BY <1>3, RestTypes
<1>5. /\ read' \in [Reads -> Read] /\ read'[m] = Sent(epoch')
      /\ \A q \in Reads : q # m => read'[q] = read[q]
    BY <1>1, <1>4, VarTypes, Members
<1>6. TypeOK'
    BY <1>1, <1>2, <1>3, <1>5 DEF IInv, TypeOK
<1>8. AllIsPast'
  <2>1. \A s : IsPast(s) => IsPast(s)'
      BY <1>1 DEF IsPast
  <2>2. \A q \in Reads : IsPast(read'[q].saw)
      BY <1>4, <1>5 DEF IInv, AllIsPast
  <2>3. \A k \in Mutations : IsPast(mutation'[k].saw)
      BY <1>2 DEF IInv, AllIsPast
  <2> QED BY <1>1, <2>1, <2>2, <2>3 DEF IInv, AllIsPast
<1>9. ReadsSeeFloor'
  <2>1. ASSUME NEW q \in Reads PROVE read'[q].epoch <= epoch'
      BY <1>3, <1>4, <1>5, Versions DEF IInv, ReadsSeeFloor
  <2>2. ASSUME NEW q \in Reads, read'[q].epoch = epoch' PROVE read'[q].step # "answered"
      BY <1>3, <1>4, <1>5, <2>2, Versions DEF IInv, ReadsSeeFloor
  <2> QED BY <1>1, <2>1, <2>2 DEF IInv, ReadsSeeFloor
<1>10. RefreshIsCounted'
  <2>1. read'["refresh"] = read["refresh"]
      BY <1>5, Members
  <2> QED BY <1>1, <2>1 DEF IInv, RefreshIsCounted
<1>11. UpdateIsComing'
  <2>1. Brings(m)'
      BY <1>4, <1>5 DEF Brings
  <2> QED BY <2>1, Members DEF UpdateIsComing
<1> QED BY <1>2, <1>6, <1>8, <1>9, <1>10, <1>11 DEF IInv

LEMMA CancelsKeeps == ASSUME IInv, TeacherCancels PROVE IInv'
<1>1. /\ mutating' = Settled(mutating) /\ epoch' = AbortEpoch("generate")
      /\ mutation' = [mutation EXCEPT !["generate"] = NoMutation]
      /\ behind' = (behind \/ (view # server /\ mutation["end"].step = "none"))
      /\ UNCHANGED <<server, view, reading, queued, read, prompt, joined, event, started, failures,
                     floor>>
    BY DEF TeacherCancels, Dismissed, refresh, page, bounds
<1>2. /\ mutating' \in 0..2 /\ CountIsReal' /\ mutation' \in [Mutations -> Mutation]
      /\ \A k \in Mutations : mutation'[k].saw \in {NewSession, mutation[k].saw}
      /\ mutation'["end"] = mutation["end"]
    BY <1>1, EndKeeps, Members
<1>3. epoch' \in Nat /\ epoch <= epoch'
    BY <1>1, VarTypes DEF AbortEpoch
<1>4. behind' \in BOOLEAN
    BY <1>1 DEF IInv, TypeOK
<1>5. TypeOK'
    BY <1>1, <1>2, <1>3, <1>4 DEF IInv, TypeOK
<1>7. AllIsPast'
  <2>1. \A s : IsPast(s) => IsPast(s)'
      BY <1>1 DEF IsPast
  <2>2. \A k \in Mutations : IsPast(mutation'[k].saw)
      BY <1>2 DEF IInv, AllIsPast
  <2> QED BY <1>1, <2>1, <2>2 DEF IInv, AllIsPast
<1>8. ReadsSeeFloor'
  <2>1. ASSUME NEW q \in Reads
        PROVE  read[q].epoch <= epoch' /\ (read[q].epoch = epoch' => epoch' = epoch)
      BY <1>3, Versions DEF IInv, ReadsSeeFloor
  <2> QED BY <1>1, <2>1 DEF IInv, ReadsSeeFloor
<1>9. RefreshIsCounted'
    BY <1>1 DEF IInv, RefreshIsCounted
<1>10. UpdateIsComing'
    BY <1>1, <1>2, Members DEF UpdateIsComing, InFlight
<1> QED BY <1>2, <1>5, <1>7, <1>8, <1>9, <1>10 DEF IInv

-----------------------------------------------------------------------------
(* The invariant *)

\* The dialog, losing the room and joining it again leave all but the event alone.
LEMMA PageKeeps == ASSUME IInv, PromptToggles \/ Disconnects \/ Joins PROVE IInv'
<1>1. /\ prompt' \in BOOLEAN /\ joined' \in BOOLEAN /\ event' \in BOOLEAN /\ behind' \in BOOLEAN
      /\ event \/ behind => event' \/ behind'
    BY DEF IInv, TypeOK, PromptToggles, Disconnects, Joins
<1>2. UNCHANGED <<server, view, epoch, mutating, reading, queued, read, mutation, started,
                  failures, floor>>
    BY DEF PromptToggles, Disconnects, Joins, coordinator, refresh, bounds
<1>3. TypeOK'
    BY <1>1, <1>2 DEF IInv, TypeOK
<1>4. CountIsReal' /\ ReadsSeeFloor' /\ RefreshIsCounted'
    BY <1>2 DEF IInv, CountIsReal, InFlight, ReadsSeeFloor, RefreshIsCounted
<1>5. AllIsPast'
    BY <1>2 DEF IInv, AllIsPast, IsPast
<1>6. UpdateIsComing'
    BY <1>1, <1>2 DEF IInv, UpdateIsComing, InFlight, Brings
<1> QED BY <1>3, <1>4, <1>5, <1>6 DEF IInv

LEMMA StutterKeeps == ASSUME IInv, UNCHANGED vars PROVE IInv'
    BY DEF vars, coordinator, refresh, page, bounds, IInv, TypeOK, CountIsReal, InFlight, AllIsPast,
           IsPast, ReadsSeeFloor, RefreshIsCounted, UpdateIsComing, Brings

LEMMA NextInvariant == IInv /\ [Next]_vars => IInv'
<1> SUFFICES ASSUME IInv, [Next]_vars PROVE IInv'
    OBVIOUS
<1>1. CASE \E phase \in Phases : OthersChange(phase)
    BY <1>1, OthersChangeKeeps
<1>2. CASE \E r \in Reads : ReadServed(r)
    BY <1>2, ServeKeeps
<1>3. CASE EventArrives \/ Poll \/ RefreshClicked
    BY <1>3, AskKeeps
<1>4. CASE RefreshSettles
    BY <1>4, RefreshSettlesKeeps
<1>5. CASE \E m \in Mutations : BeginMutation(m) \/ MutationStep(m) \/ ReconciliationSettles(m)
    BY <1>5, BeginMutationKeeps, MutationRunsKeeps, CommitsKeeps, FailsKeeps,
       ReconciliationSettlesKeeps DEF MutationStep
<1>6. CASE AsksTeacher \/ Confirmation
    BY <1>6, AsksKeeps, CancelsKeeps, ConfirmsKeeps DEF Confirmation
<1>7. CASE PromptToggles \/ Disconnects \/ Joins
    BY <1>7, PageKeeps
<1>8. CASE UNCHANGED vars
    BY <1>8, StutterKeeps
<1> QED BY <1>1, <1>2, <1>3, <1>4, <1>5, <1>6, <1>7, <1>8 DEF Next

LEMMA Invariant == Spec => []IInv
<1> QED BY InitInvariant, NextInvariant, PTL DEF Spec

-----------------------------------------------------------------------------
(* Theorems *)

\* Every variable keeps its type; in particular the coordinator never counts more
\* than two mutations, one Generate and one End.
THEOREM CockpitTypeCorrect == Spec => []TypeOK
<1>1. IInv => TypeOK
    BY DEF IInv
<1> QED BY <1>1, Invariant, PTL

\* No read takes back a mutation that has been shown.
THEOREM MutationsStandOnPage == Spec => []MutationNotUndone
<1>1. IInv => MutationNotUndone
    BY Versions DEF IInv, ReadsSeeFloor, MutationNotUndone
<1> QED BY <1>1, Invariant, PTL

\* Reads are held back only for mutations that are in flight, though two may overlap
\* and be committed, aborted or reset in either order.
THEOREM CoordinatorCountsMutations == Spec => []NoPhantomMutation
<1>1. IInv => NoPhantomMutation
  <2> SUFFICES ASSUME IInv PROVE NoPhantomMutation
      OBVIOUS
  <2> DEFINE S == {m \in Mutations : mutation[m].step # "none"}
  <2>1. IsFiniteSet(Mutations)
    <3>1. Mutations = {"generate"} \cup {"end"}
        BY DEF Mutations
    <3> QED BY <3>1, FS_Singleton, FS_Union
  <2>2. IsFiniteSet(S) /\ Cardinality(S) \in Nat
      BY <2>1, FS_Subset, FS_CardinalityType
  <2>3. mutating \in 0..2 /\ (mutating # 0 => S # {})
      BY TypeFacts, Members DEF IInv, CountIsReal, InFlight
  <2>4. S # {} => Cardinality(S) # 0
      BY <2>2, FS_EmptySet
  <2>5. mutating = 2 => Cardinality(S) = 2
    <3> HAVE mutating = 2
    <3>1. S = {"generate"} \cup {"end"}
        BY Members DEF IInv, CountIsReal, InFlight, Mutations
    <3>2. /\ IsFiniteSet({"generate"}) /\ Cardinality({"generate"}) = 1
          /\ "end" \notin {"generate"}
        BY FS_Singleton
    <3>3. Cardinality({"generate"} \cup {"end"}) = 2
        BY <3>2, FS_AddElement
    <3> QED BY <3>1, <3>3
  <2> HIDE DEF S
  <2>6. mutating <= Cardinality(S)
      BY <2>2, <2>3, <2>4, <2>5
  <2> QED BY <2>6 DEF S, NoPhantomMutation
<1> QED BY <1>1, Invariant, PTL

\* A page with nothing under way is up to date unless an update passed it by.
THEOREM QuietIsCurrent == Spec => []QuietPageIsCurrent
<1>1. IInv => QuietPageIsCurrent
  <2> SUFFICES ASSUME IInv, ~event, ~reading,
                      \A m \in Mutations : mutation[m].step = "none" /\ read[m].step = "idle"
               PROVE  view = server \/ behind
      BY DEF QuietPageIsCurrent
  <2>1. \A r \in Reads : read[r].step = "idle"
      BY DEF IInv, RefreshIsCounted, Reads
  <2> QED BY <2>1 DEF IInv, UpdateIsComing, RefreshIsCounted, InFlight, Brings
<1> QED BY <1>1, Invariant, PTL
=============================================================================
