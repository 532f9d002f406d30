-------------------------- MODULE MaintenanceMode --------------------------
(***************************************************************************)
(* Whether the institution is closed for maintenance.  The settings row    *)
(* decides; each instance of the backend asks it through a snapshot in     *)
(* Redis and a memo of its own, both of which expire.  A change deletes    *)
(* the snapshot, while calls that read the row before it may still publish *)
(* what they read.  A call that can read neither lets the request through. *)
(*                                                                         *)
(* Time is counted in ticks.  Messages and the estimated end are left out, *)
(* and the staff who are exempt, for whom nobody asks.                     *)
(***************************************************************************)
EXTENDS Integers

CONSTANTS
    Calls,           \* requests that ask whether they may pass
    Instances,       \* processes of the backend
    SnapshotTtl,     \* ticks a snapshot lives
    MemoTtl,         \* ticks a memo lives
    FetchTime,       \* ticks a call takes at most
    MaxToggles,      \* bound: changes of the setting
    MaxFaults,       \* bound: failures of Redis or the database
    None

VARIABLES
    enabled,       \* the settings row
    invalidating,  \* what the instance that wrote it still has to drop
    snapshot,      \* maintenance:state in Redis
    memo,          \* the memo of each instance
    call,          \* the calls of current()
    since,         \* history: ticks since the row last changed, up to the bound
    toggles, faults

setting == <<enabled, invalidating, since, toggles>>
vars == <<setting, snapshot, memo, call, faults>>

\* How old an answer may be: fetched, published, kept, memorised at the last moment.
Staleness == FetchTime + SnapshotTtl + MemoTtl

\* "open" marks what a failure decided.
Entry(ttl) == [value : BOOLEAN, open : BOOLEAN, left : 0..ttl]
NoEntry == [value |-> FALSE, open |-> FALSE, left |-> 0]
Call == [step : {"idle", "asked", "reading", "writing", "passed", "refused", "admitted"},
         at : Instances \cup {None}, age : 0..FetchTime, value : BOOLEAN, open : BOOLEAN]
InProgress(c) == call[c].step \in {"asked", "reading", "writing"}

TypeOK ==
    /\ enabled \in BOOLEAN
    /\ invalidating \in [Instances -> {"nothing", "memo", "snapshot"}]
    /\ snapshot \in Entry(SnapshotTtl)
    /\ memo \in [Instances -> Entry(MemoTtl)]
    /\ call \in [Calls -> Call]
    /\ since \in 0..Staleness + 1
    /\ toggles \in 0..MaxToggles /\ faults \in 0..MaxFaults

IdleCall == [step |-> "idle", at |-> None, age |-> 0, value |-> FALSE, open |-> FALSE]

Init ==
    /\ enabled \in BOOLEAN
    /\ invalidating = [i \in Instances |-> "nothing"]
    /\ snapshot = NoEntry
    /\ memo = [i \in Instances |-> NoEntry]
    /\ call = [c \in Calls |-> IdleCall]
    /\ since = 0 /\ toggles = 0 /\ faults = 0

Fault == faults < MaxFaults /\ faults' = faults + 1

-----------------------------------------------------------------------------
(* current() *)

Decide(row) == [row EXCEPT !.step = IF row.value THEN "refused" ELSE "passed"]

\* A memo answers at once.
Ask(c, i) ==
    /\ call[c].step = "idle"
    /\ call' = [call EXCEPT ![c] =
           IF memo[i].left > 0
           THEN Decide([IdleCall EXCEPT !.at = i, !.value = memo[i].value, !.open = memo[i].open])
           ELSE [IdleCall EXCEPT !.at = i, !.step = "asked"]]
    /\ UNCHANGED <<setting, snapshot, memo, faults>>

\* What a call found out is its instance's memo, dated from when it began.
Memorise(c, value, open) ==
    /\ memo' = [memo EXCEPT ![call[c].at] =
                    [value |-> value, open |-> open,
                     left |-> IF call[c].age < MemoTtl THEN MemoTtl - call[c].age ELSE 0]]
    /\ call' = [call EXCEPT ![c] = Decide([@ EXCEPT !.value = value, !.open = open])]

LookUp(c) ==
    /\ call[c].step = "asked"
    /\ IF snapshot.left > 0
       THEN Memorise(c, snapshot.value, FALSE)
       ELSE call' = [call EXCEPT ![c].step = "reading"] /\ UNCHANGED memo
    /\ UNCHANGED <<setting, snapshot, faults>>

ReadSettings(c) ==
    /\ call[c].step = "reading"
    /\ call' = [call EXCEPT ![c].step = "writing", ![c].value = enabled]
    /\ UNCHANGED <<setting, snapshot, memo, faults>>

\* The snapshot may be missed by a write that fails; the call has its answer.  The copy
\* the process keeps then, for as long as a snapshot lives, is left out.
Publish(c) ==
    /\ call[c].step = "writing"
    /\ \/ /\ snapshot' = [value |-> call[c].value, open |-> FALSE, left |-> SnapshotTtl]
          /\ UNCHANGED faults
       \/ Fault /\ UNCHANGED snapshot
    /\ Memorise(c, call[c].value, FALSE)
    /\ UNCHANGED setting

\* The settings cannot be read: the request passes, and so do others for a while.
FailsOpen(c) ==
    /\ call[c].step = "reading"
    /\ Fault
    /\ Memorise(c, FALSE, TRUE)
    /\ UNCHANGED <<setting, snapshot>>

\* The request passes on to what the guard protects, and is answered.
Passes(c) ==
    /\ call[c].step = "passed"
    /\ call' = [call EXCEPT ![c] = [IdleCall EXCEPT !.step = "admitted", !.at = call[c].at]]
    /\ UNCHANGED <<setting, snapshot, memo, faults>>

Answered(c) ==
    /\ call' = [call EXCEPT ![c] = IdleCall]
    /\ UNCHANGED <<setting, snapshot, memo, faults>>

-----------------------------------------------------------------------------
(* The setting *)

Toggle(i) ==
    /\ toggles < MaxToggles /\ toggles' = toggles + 1
    /\ invalidating[i] = "nothing"
    /\ enabled' = ~enabled
    /\ since' = 0
    /\ invalidating' = [invalidating EXCEPT ![i] = "memo"]
    /\ UNCHANGED <<snapshot, memo, call, faults>>

DropMemo(i) ==
    /\ invalidating[i] = "memo"
    /\ memo' = [memo EXCEPT ![i] = NoEntry]
    /\ invalidating' = [invalidating EXCEPT ![i] = "snapshot"]
    /\ UNCHANGED <<enabled, since, toggles, snapshot, call, faults>>

\* Best effort: the deletion may not reach Redis.
DeleteSnapshot(i) ==
    /\ invalidating[i] = "snapshot"
    /\ \/ snapshot' = NoEntry /\ UNCHANGED faults
       \/ Fault /\ UNCHANGED snapshot
    /\ invalidating' = [invalidating EXCEPT ![i] = "nothing"]
    /\ UNCHANGED <<enabled, since, toggles, memo, call>>

Ageless(entry) == entry                                     \* faulty: cached without an expiry
Older(entry) == IF entry.left <= 1 THEN NoEntry ELSE [entry EXCEPT !.left = @ - 1]

Tick ==
    /\ \A c \in Calls : InProgress(c) => call[c].age < FetchTime
    /\ snapshot' = Older(snapshot)
    /\ memo' = [i \in Instances |-> Older(memo[i])]
    /\ call' = [c \in Calls |-> IF InProgress(c) THEN [call[c] EXCEPT !.age = @ + 1] ELSE call[c]]
    /\ since' = IF since > Staleness THEN since ELSE since + 1
    /\ UNCHANGED <<enabled, invalidating, toggles, faults>>

\* The memo of an instance that stops, its calls and its invalidation are lost.
Stop(i) ==
    /\ memo' = [memo EXCEPT ![i] = NoEntry]
    /\ call' = [c \in Calls |-> IF call[c].at = i THEN IdleCall ELSE call[c]]
    /\ invalidating' = [invalidating EXCEPT ![i] = "nothing"]
    /\ UNCHANGED <<enabled, since, toggles, snapshot>>

CallStep(c) == LookUp(c) \/ ReadSettings(c) \/ Publish(c) \/ FailsOpen(c)

-----------------------------------------------------------------------------
(* Properties *)

Decided(c, step) == call[c].step # step /\ call'[c].step = step

\* A change of the setting takes hold: once the row has been as it is for Staleness
\* ticks, no request passes a closed institution but by a failure and none is
\* refused by an open one, whichever calls were reading the row when it changed
\* and whether or not the snapshot could be deleted.
SettingTakesHold ==
    [][\A c \in Calls : since > Staleness =>
          /\ Decided(c, "passed") /\ enabled => call'[c].open
          /\ Decided(c, "refused") => enabled]_vars
=============================================================================
