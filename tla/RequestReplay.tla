--------------------------- MODULE RequestReplay ---------------------------
(***************************************************************************)
(* The idempotency interceptor, for one Idempotency-Key: the attempts of a *)
(* client at one mutation, the stored response they share and the lock     *)
(* under which one of them executes it.                                    *)
(*                                                                         *)
(* All attempts at a mutation carry the same body, so the comparison of    *)
(* fingerprints is left out.  No mutation runs as long as its lock lives:  *)
(* only a lock whose holder stopped expires.                               *)
(***************************************************************************)
CONSTANTS
    Attempts,    \* requests with the key
    None,
    Orphan       \* a lock whose holder stopped

VARIABLES
    response,    \* what is stored: nothing, a response, or the marker of one too large
    lock,        \* who holds the lock
    attempt      \* how far each attempt is

vars == <<response, lock, attempt>>

Steps == {"idle", "entered", "missed", "contended", "running", "executed", "stored"}
Outcomes == {"ok", "replayed", "unavailable", "busy", "error"}

TypeOK ==
    /\ response \in {"nothing", "response", "marker"}
    /\ lock \in Attempts \cup {None, Orphan}
    /\ attempt \in [Attempts -> Steps \cup Outcomes]

Init ==
    /\ response = "nothing"
    /\ lock = None
    /\ attempt = [t \in Attempts |-> "idle"]

Goes(t, from, to) ==
    /\ attempt[t] = from
    /\ attempt' = [attempt EXCEPT ![t] = to]

Enter(t) == Goes(t, "idle", "entered") /\ UNCHANGED <<response, lock>>

Replay == IF response = "marker" THEN "unavailable" ELSE "replayed"

\* The stored response is replayed ...
LookUp(t) ==
    /\ Goes(t, "entered", IF response = "nothing" THEN "missed" ELSE Replay)
    /\ UNCHANGED <<response, lock>>

\* ... or the lock is taken, and the mutation executed ...
Acquire(t) ==
    /\ IF lock = None
       THEN Goes(t, "missed", "running") /\ lock' = t
       ELSE Goes(t, "missed", "contended") /\ UNCHANGED lock
    /\ UNCHANGED response

AnyLock == None                                             \* faulty: whoever is refused releases
LockRefused == lock

\* ... and under another's lock either its response is there by now, or this
\* attempt is refused.
LookAgain(t) ==
    /\ Goes(t, "contended", IF response = "nothing" THEN "busy" ELSE Replay)
    /\ lock' = IF response = "nothing" THEN LockRefused ELSE lock
    /\ UNCHANGED response

Execute(t) ==
    /\ Goes(t, "running", "executed")
    /\ UNCHANGED <<response, lock>>

\* The handler throws, and what it did is rolled back: the lock is given up.
ExecutionFails(t) ==
    /\ Goes(t, "running", "error")
    /\ lock' = None
    /\ UNCHANGED response

\* A body that is too large leaves a marker.
Store(t) ==
    /\ Goes(t, "executed", "stored")
    /\ response' \in {"response", "marker"}
    /\ UNCHANGED lock

Unlock(t) ==
    /\ Goes(t, "stored", "ok")
    /\ lock' = None
    /\ UNCHANGED response

\* The answer is sent.
Leave(t) ==
    /\ attempt[t] \in Outcomes
    /\ attempt' = [attempt EXCEPT ![t] = "idle"]
    /\ UNCHANGED <<response, lock>>

\* The attempts of a process that stops are gone, what is in Redis stays.
Stop(stopped) ==
    /\ attempt' = [t \in Attempts |-> IF t \in stopped THEN "idle" ELSE attempt[t]]
    /\ lock' = IF lock \in stopped THEN Orphan ELSE lock
    /\ UNCHANGED response

\* Locks and responses expire; a lock outlives any attempt that still holds it.
LockExpires == lock = Orphan /\ lock' = None /\ UNCHANGED <<response, attempt>>

ResponseExpires ==
    /\ response # "nothing"
    /\ response' = "nothing"
    /\ UNCHANGED <<lock, attempt>>

AttemptStep(t) ==
    \/ LookUp(t) \/ Acquire(t) \/ LookAgain(t)
    \/ Execute(t) \/ Store(t) \/ Unlock(t)

Next ==
    \/ \E t \in Attempts : Enter(t) \/ AttemptStep(t) \/ ExecutionFails(t) \/ Leave(t)
    \/ \E stopped \in SUBSET Attempts : Stop(stopped)
    \/ LockExpires \/ ResponseExpires

Spec == Init /\ [][Next]_vars

-----------------------------------------------------------------------------
(* Properties *)

\* Two attempts are never inside the mutation together, and the one that is has
\* the lock: no refusal, failure or restart lets a second one in beside it.
OneExecutionAtATime ==
    \A t \in Attempts : attempt[t] \in {"running", "executed", "stored"} => lock = t
=============================================================================
