-------------------------- MODULE RequestPipeline --------------------------
(***************************************************************************)
(* A client carries out one keyed mutation.  Each of its attempts reaches  *)
(* an instance of the backend, where the maintenance guard comes first and *)
(* the idempotency interceptor next.  The client gives an attempt up when  *)
(* it takes too long, while the instance works on, and tries again; an     *)
(* instance may stop at any point.                                         *)
(***************************************************************************)
EXTENDS Integers

CONSTANTS Attempts, Instances, SnapshotTtl, MemoTtl, FetchTime, MaxToggles, MaxFaults, None, Orphan

ASSUME PipelineAssumption ==
    /\ {SnapshotTtl, MemoTtl, FetchTime, MaxToggles, MaxFaults} \subseteq Nat
    /\ None \notin Instances /\ None # Orphan /\ {None, Orphan} \cap Attempts = {}

VARIABLES
    enabled, invalidating, snapshot, memo, call, since, toggles, faults,   \* MaintenanceMode
    response, lock, attempt,                                               \* RequestReplay
    awaited,     \* the attempt the client waits for
    answered     \* has the client been told that the mutation is done?

maintenance == <<enabled, invalidating, snapshot, memo, call, since, toggles>>
replay == <<response, lock, attempt>>
client == <<awaited, answered>>
vars == <<maintenance, faults, replay, client>>

M == INSTANCE MaintenanceMode WITH Calls <- Attempts
R == INSTANCE RequestReplay

TypeOK ==
    /\ M!TypeOK /\ R!TypeOK
    /\ awaited \in Attempts \cup {None}
    /\ answered \in BOOLEAN

Init == M!Init /\ R!Init /\ awaited = None /\ answered = FALSE

-----------------------------------------------------------------------------
Free(t) == call[t].step = "idle"
Forget(t) == IF awaited = t THEN None ELSE awaited

\* An attempt reaches an instance, whose guard asks for the mode.
Send(t, i) ==
    /\ ~answered /\ awaited = None /\ Free(t)
    /\ M!Ask(t, i)
    /\ awaited' = t
    /\ UNCHANGED <<replay, answered>>

Asks(t) == M!CallStep(t) /\ UNCHANGED <<replay, client>>

\* 503: the client tries again later.
TurnAway(t) ==
    /\ call[t].step = "refused"
    /\ M!Answered(t)
    /\ awaited' = Forget(t)
    /\ UNCHANGED <<replay, answered>>

Admit(t) == M!Passes(t) /\ R!Enter(t) /\ UNCHANGED client

Executes(t) == R!AttemptStep(t) /\ UNCHANGED <<maintenance, faults, client>>
ExecutionFails(t) == R!ExecutionFails(t) /\ M!Fault /\ UNCHANGED <<maintenance, client>>

\* The answer reaches the client, if that still waits for it.
Answer(t) ==
    /\ R!Leave(t)
    /\ M!Answered(t)
    /\ answered' = (answered \/ (awaited = t /\ attempt[t] \in {"ok", "replayed", "unavailable"}))
    /\ awaited' = Forget(t)

GivesUp ==
    /\ awaited # None
    /\ M!Fault \/ (Free(awaited) /\ UNCHANGED faults)
    /\ awaited' = None
    /\ UNCHANGED <<maintenance, replay, answered>>

Changes ==
    /\ \E i \in Instances : M!Toggle(i) \/ M!DropMemo(i) \/ M!DeleteSnapshot(i)
    /\ UNCHANGED <<replay, client>>

Tick == M!Tick /\ UNCHANGED <<replay, client>>

Expire == (R!LockExpires \/ R!ResponseExpires) /\ UNCHANGED <<maintenance, faults, client>>

\* Everything an instance was doing is lost; Redis and the database stay.
Restart(i) ==
    /\ M!Fault
    /\ M!Stop(i)
    /\ R!Stop({t \in Attempts : call[t].at = i})
    /\ UNCHANGED client

Next ==
    \/ \E t \in Attempts :
           \/ \E i \in Instances : Send(t, i)
           \/ Asks(t) \/ TurnAway(t) \/ Admit(t)
           \/ Executes(t) \/ ExecutionFails(t)
           \/ Answer(t)
    \/ GivesUp
    \/ Changes
    \/ Tick
    \/ Expire
    \/ \E i \in Instances : Restart(i)

Spec == Init /\ [][Next]_vars

Handles(t) == Asks(t) \/ TurnAway(t) \/ Admit(t) \/ Executes(t) \/ Answer(t)

\* Time passes, what an instance has begun it goes on with, locks expire, and
\* the client's queue keeps trying.
FairSpec ==
    /\ Spec
    /\ WF_vars(Tick)
    /\ \A t \in Attempts : WF_vars(Handles(t))
    /\ WF_vars(R!LockExpires /\ UNCHANGED <<maintenance, faults, client>>)
    /\ WF_vars(GivesUp \/ \E t \in Attempts, i \in Instances : Send(t, i))

-----------------------------------------------------------------------------
(* Properties *)

SettingTakesHold == M!SettingTakesHold
OneExecutionAtATime == R!OneExecutionAtATime

\* The guard stands before the interceptor: an attempt is inside the interceptor
\* exactly while the instance that admitted its request works on it, whichever way
\* it is answered, refused or cut off.
OnlyTheAdmittedRun ==
    \A t \in Attempts : attempt[t] # "idle" <=> call[t].step = "admitted"

\* What happens in front of it leaves the interceptor what it is on its own.
ImplementsReplay == R!Spec

\* Once the institution stays open the client learns that its mutation is done,
\* whatever stopped, expired or was still cached as closed on the way.
ClientIsAnswered == <>[]~enabled => <>answered

\* "the compact terminal marker makes later retries fail closed instead of running
\* the completed mutation again"
\* (src/backend/src/common/interceptors/idempotency.interceptor.ts:111).
CompletedIsNotRunAgain ==
    [][\A t \in Attempts : R!Acquire(t) /\ lock' = t => response = "nothing"]_vars
=============================================================================
