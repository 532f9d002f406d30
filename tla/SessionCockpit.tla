--------------------------- MODULE SessionCockpit ---------------------------
(***************************************************************************)
(* The page from which a teacher runs a session.  What it shows comes from *)
(* reads (after realtime events, polls, clicks and its own mutations) and  *)
(* from the answers to its two mutations, Generate and End, and all of     *)
(* these are answered in any order.  SessionRequestCoordinator, with an    *)
(* epoch and a count of mutations in flight, decides what may be shown.    *)
(* The QR Settings dialog, opened before the session was active, outlasts  *)
(* that and can be left at any time, so that the two mutations overlap.    *)
(*                                                                         *)
(* The session on the server is a version, the number of changes so far,   *)
(* and its phase.  The page has loaded; its checkpoint form and overrides, *)
(* which do not use the coordinator, and its off-line answers are left out.*)
(***************************************************************************)
EXTENDS Integers, FiniteSets

CONSTANTS
    MaxVersion,      \* bound: changes of the session on the server
    MaxMutations,    \* bound: mutations the teacher starts
    MaxFailures      \* bound: reads and mutations that fail

ASSUME CockpitAssumption == {MaxVersion, MaxMutations, MaxFailures} \subseteq Nat

VARIABLES
    server,     \* the session as the server has it
    view,       \* the session as the page shows it
    epoch,      \* the coordinator's epoch
    mutating,   \* the coordinator's mutationsInFlight
    reading,    \* requestInFlightRef
    queued,     \* queuedRefreshRef
    read,       \* the reads under way: the refresh, and one after each failed mutation
    mutation,   \* the mutations under way
    prompt,     \* showValidityPrompt, the QR Settings dialog
    joined,     \* the page is in the session's realtime room
    event,      \* an event is on its way to the page
    started, failures,
    floor,      \* history: the version of the last mutation shown
    behind      \* history: an update passed the page by since its last full refresh

vars == <<server, view, epoch, mutating, reading, queued, read, mutation, prompt, joined,
          event, started, failures, floor, behind>>
coordinator == <<epoch, mutating>>
refresh == <<reading, queued, read>>
page == <<prompt, joined>>
bounds == <<started, failures>>

Phases == {"scheduled", "active", "ended"}
Session == [version : 0..MaxVersion, phase : Phases]
Mutations == {"generate", "end"}
Reads == {"refresh"} \cup Mutations

Read == [step : {"idle", "sent", "answered"}, epoch : Nat, saw : Session]
Mutation == [step : {"none", "sent", "done", "asking"}, epoch : Nat, saw : Session,
             override : BOOLEAN]

NewSession == [version |-> 0, phase |-> "scheduled"]
NoRead == [step |-> "idle", epoch |-> 0, saw |-> NewSession]
NoMutation == [step |-> "none", epoch |-> 0, saw |-> NewSession, override |-> FALSE]
Sent(e) == [NoRead EXCEPT !.step = "sent", !.epoch = e]

TypeOK ==
    /\ server \in Session /\ view \in Session
    /\ epoch \in Nat
    /\ mutating \in 0..2
    /\ reading \in BOOLEAN /\ queued \in BOOLEAN /\ prompt \in BOOLEAN
    /\ joined \in BOOLEAN /\ event \in BOOLEAN /\ behind \in BOOLEAN
    /\ read \in [Reads -> Read]
    /\ mutation \in [Mutations -> Mutation]
    /\ started \in 0..MaxMutations /\ failures \in 0..MaxFailures
    /\ floor \in 0..MaxVersion

Init ==
    /\ server = NewSession /\ view = NewSession
    /\ epoch = 0 /\ mutating = 0
    /\ reading = FALSE /\ queued = FALSE
    /\ read = [r \in Reads |-> NoRead]
    /\ mutation = [m \in Mutations |-> NoMutation]
    /\ prompt = FALSE /\ joined = TRUE /\ event = FALSE
    /\ started = 0 /\ failures = 0
    /\ floor = 0 /\ behind = FALSE

-----------------------------------------------------------------------------
(* The server *)

\* The session changes; its room is told.
Changes(phase) ==
    /\ server.version < MaxVersion
    /\ server' = [version |-> server.version + 1, phase |-> phase]
    /\ event' = (event \/ joined)
    /\ behind' = (behind \/ ~joined)

\* A scan is recorded, or someone else, or the deadline, moves the session on.
OthersChange(phase) ==
    /\ \/ phase = server.phase
       \/ server.phase = "scheduled" /\ phase # "scheduled"
       \/ server.phase = "active" /\ phase = "ended"
    /\ Changes(phase)
    /\ UNCHANGED <<view, coordinator, refresh, mutation, page, bounds, floor>>

Fail == failures < MaxFailures /\ failures' = failures + 1

ReadServed(r) ==
    /\ read[r].step = "sent"
    /\ read' = [read EXCEPT ![r].step = "answered", ![r].saw = server]
    /\ UNCHANGED <<server, view, coordinator, reading, queued, mutation, page, event, bounds,
                   floor, behind>>

\* A token that has expired by the time it arrives ends the session at once.
Targets(m) == IF m = "generate" THEN {"active", "ended"} ELSE {"ended"}

Allowed(m) ==
    /\ server.phase = IF m = "generate" THEN "scheduled" ELSE "active"
    /\ server.version < MaxVersion

MutationRuns(m) ==
    /\ mutation[m].step = "sent"
    /\ Allowed(m)
    /\ \E phase \in Targets(m) : Changes(phase)
    /\ mutation' = [mutation EXCEPT ![m].step = "done", ![m].saw = server']
    /\ UNCHANGED <<view, coordinator, refresh, page, bounds, floor>>

-----------------------------------------------------------------------------
(* refreshData *)

\* The refresh starts at once or, while another is under way, after it.
Refresh(e) ==
    IF reading
    THEN queued' = TRUE /\ UNCHANGED <<reading, read>>
    ELSE /\ reading' = TRUE
         /\ read' = [read EXCEPT !["refresh"] = Sent(e)]
         /\ UNCHANGED queued

EventArrives ==
    /\ event
    /\ event' = FALSE
    /\ Refresh(epoch)
    /\ UNCHANGED <<server, view, coordinator, mutation, page, bounds, floor, behind>>

PollsWhenJoined == view.phase = "active" /\ joined           \* faulty: the wrong way round
PollDue == view.phase = "active" /\ ~joined

Poll ==
    /\ PollDue
    /\ Refresh(epoch)
    /\ UNCHANGED <<server, view, coordinator, mutation, page, event, bounds, floor, behind>>

\* A dialog covers the rest of the page.
Covered == prompt \/ mutation["generate"].step = "asking"

RefreshClicked ==
    /\ ~Covered
    /\ Refresh(epoch)
    /\ UNCHANGED <<server, view, coordinator, mutation, page, event, bounds, floor, behind>>

CanCommitRead(e) == mutating = 0 /\ e = epoch

\* A read is answered, or fails.
Returns(r) ==
    \/ read[r].step = "answered" /\ UNCHANGED failures
    \/ read[r].step = "sent" /\ Fail

\* What was read is shown if the coordinator lets it.  The page is up to date
\* with it, unless newer data was on the page already.
Shows(r) ==
    IF read[r].step = "answered" /\ CanCommitRead(read[r].epoch)
    THEN /\ view' = read[r].saw
         /\ behind' = (read[r].saw.version < view.version \/ (behind /\ read[r].saw # server))
    ELSE /\ UNCHANGED view
         /\ behind' = (behind \/ read[r].step = "sent")

NoTrailingRefresh == FALSE                     \* faulty: what was queued is dropped
RunQueued == queued

\* The refresh is over; one that was asked for meanwhile follows.
RefreshSettles ==
    /\ Returns("refresh") /\ Shows("refresh")
    /\ reading' = RunQueued
    /\ queued' = FALSE
    /\ read' = [read EXCEPT !["refresh"] = IF RunQueued THEN Sent(epoch) ELSE NoRead]
    /\ UNCHANGED <<server, coordinator, mutation, page, event, started, floor>>

\* The read that reconciles the page after a failed mutation has no part in that.
ReconciliationSettles(m) ==
    /\ Returns(m) /\ Shows(m)
    /\ read' = [read EXCEPT ![m] = NoRead]
    /\ UNCHANGED <<server, coordinator, reading, queued, mutation, page, event, started, floor>>

-----------------------------------------------------------------------------
(* Generate and End *)

\* QR Settings is offered before the session is active, and can be left at any time.
PromptToggles ==
    /\ IF prompt THEN mutation["generate"].step # "asking" ELSE view.phase # "active" /\ ~Covered
    /\ prompt' = ~prompt
    /\ UNCHANGED <<server, view, coordinator, refresh, mutation, joined, event, bounds, floor,
                   behind>>

\* Generate is a button of that dialog, whatever has become of the session since;
\* End is on the page.  Each is disabled only by itself being under way.
Offered(m) ==
    /\ mutation[m].step = "none" /\ read[m].step = "idle"
    /\ IF m = "generate" THEN prompt ELSE view.phase = "active" /\ ~Covered

BeginMutation(m) ==
    /\ Offered(m)
    /\ started < MaxMutations /\ started' = started + 1
    /\ mutating' = mutating + 1
    /\ epoch' = epoch + 1
    /\ mutation' = [mutation EXCEPT ![m] = [NoMutation EXCEPT !.step = "sent", !.epoch = epoch']]
    /\ UNCHANGED <<server, view, refresh, page, event, failures, floor, behind>>

Settled(n) == IF n = 0 THEN 0 ELSE n - 1

KeepsEpoch(e) == e                             \* faulty: reads begun meanwhile stay good
CommitEpoch(e) == e + 1
AbortEpoch(m) == IF mutation[m].epoch = epoch THEN epoch + 1 ELSE epoch

\* Generate closes its dialog, however it ends.
PromptAfter(m) == prompt /\ m # "generate"

\* The answer is shown unless another mutation or a reconciliation began
\* meanwhile; a refresh follows either way.
MutationCommits(m) ==
    /\ mutation[m].step = "done"
    /\ mutating' = Settled(mutating)
    /\ IF mutation[m].epoch = epoch
       THEN /\ epoch' = CommitEpoch(epoch)
            /\ view' = mutation[m].saw
            /\ floor' = mutation[m].saw.version
       ELSE UNCHANGED <<epoch, view, floor>>
    /\ mutation' = [mutation EXCEPT ![m] = NoMutation]
    /\ prompt' = PromptAfter(m)
    /\ Refresh(epoch')
    /\ UNCHANGED <<server, joined, event, bounds, behind>>

\* A refused one, or one whose answer or which itself is lost, starts over from the
\* server: nothing under way counts any more.
MutationFails(m) ==
    /\ \/ mutation[m].step = "sent" /\ ~Allowed(m) /\ UNCHANGED failures
       \/ mutation[m].step \in {"sent", "done"} /\ Fail
    /\ mutating' = 0
    /\ epoch' = AbortEpoch(m) + 1
    /\ mutation' = [mutation EXCEPT ![m] = NoMutation]
    /\ read' = [read EXCEPT ![m] = Sent(epoch')]
    /\ prompt' = PromptAfter(m)
    /\ UNCHANGED <<server, view, reading, queued, joined, event, started, floor, behind>>

\* Away from the classroom: the teacher is asked, the mutation stays in flight.
AsksTeacher ==
    /\ mutation["generate"].step = "sent" /\ ~mutation["generate"].override
    /\ mutation' = [mutation EXCEPT !["generate"].step = "asking"]
    /\ UNCHANGED <<server, view, coordinator, refresh, page, event, bounds, floor, behind>>

\* Faulty: a mutation that another one has overtaken is not taken off the count.
LeavesOvertaken(n) == IF mutation["generate"].epoch = epoch THEN Settled(n) ELSE n
Dismissed(n) == Settled(n)

\* Cancelled, or confirmed with a validity since made invalid: what was read
\* meanwhile has been thrown away, and nothing is read again unless End is under way.
TeacherCancels ==
    /\ mutation["generate"].step = "asking"
    /\ mutating' = Dismissed(mutating)
    /\ epoch' = AbortEpoch("generate")
    /\ mutation' = [mutation EXCEPT !["generate"] = NoMutation]
    /\ behind' = (behind \/ (view # server /\ mutation["end"].step = "none"))
    /\ UNCHANGED <<server, view, refresh, page, event, bounds, floor>>

\* Confirmed: aborted and begun again with the override.
TeacherConfirms ==
    /\ mutation["generate"].step = "asking"
    /\ mutating' = Settled(mutating) + 1
    /\ epoch' = AbortEpoch("generate") + 1
    /\ mutation' = [mutation EXCEPT !["generate"] =
                        [NoMutation EXCEPT !.step = "sent", !.epoch = epoch', !.override = TRUE]]
    /\ UNCHANGED <<server, view, refresh, page, event, bounds, floor, behind>>

-----------------------------------------------------------------------------
(* Realtime *)

\* The event on its way is lost with the connection ...
Disconnects ==
    /\ joined
    /\ joined' = FALSE
    /\ event' = FALSE
    /\ behind' = (behind \/ event)
    /\ UNCHANGED <<server, view, coordinator, refresh, mutation, prompt, bounds, floor>>

\* ... and joining the room again reads nothing.
Joins ==
    /\ ~joined
    /\ joined' = TRUE
    /\ UNCHANGED <<server, view, coordinator, refresh, mutation, prompt, event, bounds, floor,
                   behind>>

-----------------------------------------------------------------------------
MutationStep(m) == MutationRuns(m) \/ MutationCommits(m) \/ MutationFails(m)

Confirmation == TeacherCancels \/ TeacherConfirms

Next ==
    \/ \E phase \in Phases : OthersChange(phase)
    \/ \E r \in Reads : ReadServed(r)
    \/ EventArrives \/ Poll \/ RefreshClicked
    \/ RefreshSettles
    \/ \E m \in Mutations : BeginMutation(m) \/ MutationStep(m) \/ ReconciliationSettles(m)
    \/ PromptToggles \/ AsksTeacher \/ Confirmation
    \/ Disconnects \/ Joins

Spec == Init /\ [][Next]_vars

\* A disconnected page polls; what is sent is answered and what is answered is
\* handled; the teacher answers the question.
FairSpec ==
    /\ Spec
    /\ WF_vars(Poll) /\ WF_vars(ReadServed("refresh")) /\ WF_vars(RefreshSettles)
    /\ \A m \in Mutations : WF_vars(MutationStep(m))
    /\ WF_vars(Confirmation)

-----------------------------------------------------------------------------
(* Properties *)

\* No read takes back a mutation the page has shown, however late it is answered
\* and whatever it was sent for.
MutationNotUndone == view.version >= floor

\* The coordinator never counts more mutations than are in flight or await the
\* teacher: begun, committed, aborted and reset in any order, overlapping or not,
\* they leave nothing behind that would hold reads back.
NoPhantomMutation ==
    mutating <= Cardinality({m \in Mutations : mutation[m].step # "none"})

\* A page with nothing under way shows the session as it is, unless an update
\* passed it by: an event missed while disconnected, a failed read, a question
\* cancelled, or an older answer shown after a newer one.
QuietPageIsCurrent ==
    \/ event \/ reading
    \/ \E m \in Mutations : mutation[m].step # "none" \/ read[m].step # "idle"
    \/ view = server
    \/ behind

\* A page whose realtime connection does not come back keeps polling an active
\* session until it shows that it has ended.
PollingFindsTheEnd ==
    (<>[]~joined /\ <>[](server.phase = "ended")) => <>[](view.phase # "active")
=============================================================================
