----------------------- MODULE RequestPipelineProofs -----------------------
(***************************************************************************)
(* Proofs about RequestPipeline, for every set of attempts and instances   *)
(* and every value of the time bounds.                                     *)
(***************************************************************************)
EXTENDS RequestPipeline, TLAPS

\* What the interceptor's actions preserve.
ReplaySafe == R!TypeOK /\ R!OneExecutionAtATime

ReplayVars == <<response, lock, attempt>>

\* A step of one attempt in the interceptor: who takes the lock found it free, and
\* who gives it up had it.
LEMMA AttemptStepSafe ==
    ASSUME ReplaySafe, NEW t \in Attempts, R!AttemptStep(t) \/ R!ExecutionFails(t)
    PROVE  ReplaySafe'
<1> USE DEF ReplaySafe, R!TypeOK, R!OneExecutionAtATime, R!Goes, R!Steps, R!Outcomes
<1>1. CASE R!LookUp(t)
    BY <1>1 DEF R!LookUp, R!Replay
<1>2. CASE R!Acquire(t)
    BY <1>2, PipelineAssumption DEF R!Acquire
<1>3. CASE R!LookAgain(t)
    BY <1>3 DEF R!LookAgain, R!Replay, R!LockRefused
<1>4. CASE R!Execute(t)
    BY <1>4 DEF R!Execute
<1>5. CASE R!Store(t)
    BY <1>5 DEF R!Store
<1>6. CASE R!Unlock(t)
    BY <1>6 DEF R!Unlock
<1>7. CASE R!ExecutionFails(t)
    BY <1>7 DEF R!ExecutionFails
<1> QED BY <1>1, <1>2, <1>3, <1>4, <1>5, <1>6, <1>7 DEF R!AttemptStep

\* Entering and leaving touch neither the lock nor an attempt that executes.
LEMMA EnterLeaveSafe ==
    ASSUME ReplaySafe, NEW t \in Attempts, R!Enter(t) \/ R!Leave(t)
    PROVE  ReplaySafe'
BY DEF ReplaySafe, R!TypeOK, R!OneExecutionAtATime, R!Enter, R!Leave, R!Goes, R!Steps, R!Outcomes

\* Only a lock without a living holder expires.
LEMMA ExpirySafe ==
    ASSUME ReplaySafe, R!LockExpires \/ R!ResponseExpires
    PROVE  ReplaySafe'
BY PipelineAssumption
DEF ReplaySafe, R!TypeOK, R!OneExecutionAtATime, R!LockExpires, R!ResponseExpires

\* The attempts of an instance that stops are gone before their lock is orphaned.
LEMMA StopSafe ==
    ASSUME ReplaySafe, NEW stopped \in SUBSET Attempts, R!Stop(stopped)
    PROVE  ReplaySafe'
BY DEF ReplaySafe, R!TypeOK, R!OneExecutionAtATime, R!Stop, R!Steps, R!Outcomes

LEMMA ReplaySafeInit == Init => ReplaySafe
BY DEF Init, R!Init, ReplaySafe, R!TypeOK, R!OneExecutionAtATime, R!Steps

LEMMA ReplaySafeStutter == ReplaySafe /\ UNCHANGED ReplayVars => ReplaySafe'
BY DEF ReplaySafe, R!TypeOK, R!OneExecutionAtATime, ReplayVars

\* Every step of the composition is a step of the interceptor or leaves it alone.
LEMMA ReplaySafeStep == ReplaySafe /\ [Next]_vars => ReplaySafe'
<1> SUFFICES ASSUME ReplaySafe, [Next]_vars PROVE ReplaySafe'
    OBVIOUS
<1> USE DEF replay, ReplayVars
<1>1. ASSUME NEW t \in Attempts, NEW i \in Instances, Send(t, i) PROVE ReplaySafe'
    BY <1>1, ReplaySafeStutter DEF Send
<1>2. ASSUME NEW t \in Attempts, Asks(t) \/ TurnAway(t) PROVE ReplaySafe'
    BY <1>2, ReplaySafeStutter DEF Asks, TurnAway
<1>3. ASSUME NEW t \in Attempts, Admit(t) \/ Answer(t) PROVE ReplaySafe'
    BY <1>3, EnterLeaveSafe DEF Admit, Answer
<1>4. ASSUME NEW t \in Attempts, Executes(t) \/ ExecutionFails(t) PROVE ReplaySafe'
    BY <1>4, AttemptStepSafe DEF Executes, ExecutionFails
<1>5. CASE GivesUp \/ Changes \/ Tick
    BY <1>5, ReplaySafeStutter DEF GivesUp, Changes, Tick
<1>6. CASE Expire
    BY <1>6, ExpirySafe DEF Expire
<1>7. ASSUME NEW i \in Instances, Restart(i) PROVE ReplaySafe'
  <2>1. {t \in Attempts : call[t].at = i} \in SUBSET Attempts
      OBVIOUS
  <2> QED BY <1>7, <2>1, StopSafe DEF Restart
<1>8. CASE UNCHANGED vars
    BY <1>8, ReplaySafeStutter DEF vars
<1> QED BY <1>1, <1>2, <1>3, <1>4, <1>5, <1>6, <1>7, <1>8 DEF Next

-----------------------------------------------------------------------------
\* However attempts, failures, restarts and expirations interleave, two attempts
\* are never inside the mutation together, and the one that is has the lock.
THEOREM MutualExclusion == Spec => []OneExecutionAtATime
<1>1. ReplaySafe => OneExecutionAtATime
    BY DEF ReplaySafe, OneExecutionAtATime
<1> QED BY <1>1, ReplaySafeInit, ReplaySafeStep, PTL DEF Spec

-----------------------------------------------------------------------------
(* The maintenance mode *)

\* What contradicts the setting is young: a call that has read the row before it
\* changed, the snapshot such a call published, and the memo made of either.
StaleIsYoung ==
    /\ \A c \in Attempts :
          call[c].step = "writing" /\ call[c].value # enabled => since <= call[c].age
    /\ snapshot.left > 0 /\ snapshot.value # enabled =>
          since + snapshot.left <= FetchTime + SnapshotTtl
    /\ \A i \in Instances : memo[i].left > 0 /\ ~memo[i].open /\ memo[i].value # enabled =>
          since + memo[i].left <= M!Staleness

\* Only letting requests through is decided by a failure.
OpenIsOpen == \A i \in Instances : memo[i].open => ~memo[i].value

Asking == \A c \in Attempts : call[c].step # "idle" => call[c].at \in Instances

ModeSafe == M!TypeOK /\ StaleIsYoung /\ OpenIsOpen /\ Asking

\* What an action may decide, ages and all.
Timely == \A c \in Attempts : since > M!Staleness =>
    /\ M!Decided(c, "passed") /\ enabled => call'[c].open
    /\ M!Decided(c, "refused") => enabled

ModeVars == <<enabled, invalidating, snapshot, memo, call, since, toggles, faults>>

LEMMA NoEntryType ==
    /\ M!NoEntry \in M!Entry(SnapshotTtl) /\ M!NoEntry \in M!Entry(MemoTtl)
    /\ M!NoEntry.left = 0 /\ ~M!NoEntry.open
BY PipelineAssumption DEF M!NoEntry, M!Entry

LEMMA IdleCallType == M!IdleCall \in M!Call /\ M!IdleCall.step = "idle"
BY PipelineAssumption DEF M!IdleCall, M!Call

LEMMA StalenessType == M!Staleness \in Nat /\ M!Staleness = FetchTime + SnapshotTtl + MemoTtl
BY PipelineAssumption DEF M!Staleness

LEMMA ModeSafeInit == Init => ModeSafe
BY PipelineAssumption, NoEntryType, IdleCallType, StalenessType
DEF Init, M!Init, ModeSafe, M!TypeOK, StaleIsYoung, OpenIsOpen, Asking

LEMMA ModeSafeStutter == ModeSafe /\ UNCHANGED ModeVars => ModeSafe' /\ Timely
BY DEF ModeSafe, M!TypeOK, StaleIsYoung, OpenIsOpen, Asking, ModeVars, Timely, M!Decided

\* A memo or a decision made of an answer no older than both allow.
LEMMA MemoriseSafe ==
    ASSUME ModeSafe, NEW c \in Attempts, NEW value \in BOOLEAN, NEW open \in BOOLEAN,
           M!InProgress(c), M!Memorise(c, value, open),
           open => ~value,
           ~open /\ value # enabled => since + MemoTtl - call[c].age <= M!Staleness
                                       /\ since <= M!Staleness
    PROVE  /\ memo' \in [Instances -> M!Entry(MemoTtl)]
           /\ call' \in [Attempts -> M!Call]
           /\ \A i \in Instances : memo'[i].left > 0 /\ ~memo'[i].open /\ memo'[i].value # enabled =>
                 since + memo'[i].left <= M!Staleness
           /\ \A i \in Instances : memo'[i].open => ~memo'[i].value
           /\ \A k \in Attempts :
                 call'[k].step = "writing" => call'[k] = call[k]
           /\ \A k \in Attempts : call'[k].step # "idle" => call'[k].at \in Instances
           /\ Timely
<1> DEFINE entry == [value |-> value, open |-> open,
                     left |-> IF call[c].age < MemoTtl THEN MemoTtl - call[c].age ELSE 0]
           decided == M!Decide([call[c] EXCEPT !.value = value, !.open = open])
<1>1. call \in [Attempts -> M!Call] /\ memo \in [Instances -> M!Entry(MemoTtl)]
      /\ call[c].at \in Instances /\ call[c].age \in 0..FetchTime /\ call[c] \in M!Call
    BY DEF ModeSafe, M!TypeOK, Asking, M!InProgress, M!Call
<1>2. memo' = [memo EXCEPT ![call[c].at] = entry]
    BY DEF M!Memorise
<1>3. entry \in M!Entry(MemoTtl)
    BY <1>1, PipelineAssumption DEF M!Entry
<1>4. call' = [call EXCEPT ![c] = decided]
    BY <1>1 DEF M!Memorise
<1>5. decided \in M!Call /\ decided.step = (IF value THEN "refused" ELSE "passed")
      /\ decided.open = open /\ decided.at = call[c].at
    BY <1>1 DEF M!Decide, M!Call
<1>6. memo' \in [Instances -> M!Entry(MemoTtl)] /\ call' \in [Attempts -> M!Call]
    BY <1>1, <1>2, <1>3, <1>4, <1>5
<1>7. \A i \in Instances : memo'[i].left > 0 /\ ~memo'[i].open /\ memo'[i].value # enabled =>
         since + memo'[i].left <= M!Staleness
  <2> SUFFICES ASSUME NEW i \in Instances,
                      memo'[i].left > 0, ~memo'[i].open, memo'[i].value # enabled
               PROVE  since + memo'[i].left <= M!Staleness
      OBVIOUS
  <2>1. CASE i = call[c].at
    <3>1. memo'[i] = entry
        BY <2>1, <1>1, <1>2
    <3>2. entry.left = MemoTtl - call[c].age /\ ~open /\ value # enabled
        BY <3>1
    <3> QED BY <3>1, <3>2, <1>1, PipelineAssumption, StalenessType DEF ModeSafe, M!TypeOK
  <2>2. CASE i # call[c].at
      BY <2>2, <1>1, <1>2 DEF ModeSafe, StaleIsYoung
  <2> QED BY <2>1, <2>2
<1>8. \A i \in Instances : memo'[i].open => ~memo'[i].value
    BY <1>1, <1>2 DEF ModeSafe, OpenIsOpen
<1>9. \A k \in Attempts : call'[k].step = "writing" => call'[k] = call[k]
    BY <1>1, <1>4, <1>5
<1>10. \A k \in Attempts : call'[k].step # "idle" => call'[k].at \in Instances
    BY <1>1, <1>4, <1>5 DEF ModeSafe, Asking
<1>11. Timely
    BY <1>1, <1>4, <1>5, StalenessType DEF Timely, M!Decided, ModeSafe, M!TypeOK
<1> QED BY <1>6, <1>7, <1>8, <1>9, <1>10, <1>11

\* Every action of MaintenanceMode keeps what is stale young and decides in time.
LEMMA AskSafe ==
    ASSUME ModeSafe, NEW c \in Attempts, NEW i \in Instances, M!Ask(c, i)
    PROVE  ModeSafe' /\ Timely
<1>1. /\ call \in [Attempts -> M!Call] /\ memo[i] \in M!Entry(MemoTtl)
      /\ since \in Nat /\ enabled \in BOOLEAN
    BY StalenessType DEF ModeSafe, M!TypeOK
<1>2. PICK row \in M!Call :
        /\ call' = [call EXCEPT ![c] = row] /\ row.step # "writing" /\ row.at = i
        /\ \/ row.step = "asked"
           \/ /\ memo[i].left > 0
              /\ row.step = IF memo[i].value THEN "refused" ELSE "passed"
              /\ row.open = memo[i].open
  <2> DEFINE row == IF memo[i].left > 0
                    THEN M!Decide([M!IdleCall EXCEPT !.at = i, !.value = memo[i].value,
                                                     !.open = memo[i].open])
                    ELSE [M!IdleCall EXCEPT !.at = i, !.step = "asked"]
  <2>1. call' = [call EXCEPT ![c] = row]
      BY DEF M!Ask
  <2>2. memo[i].value \in BOOLEAN /\ memo[i].open \in BOOLEAN
      BY <1>1 DEF M!Entry
  <2>3. /\ row \in M!Call /\ row.step # "writing" /\ row.at = i
        /\ \/ row.step = "asked"
           \/ /\ memo[i].left > 0
              /\ row.step = IF memo[i].value THEN "refused" ELSE "passed"
              /\ row.open = memo[i].open
    <3>1. CASE memo[i].left > 0
        BY <3>1, <2>2, IdleCallType DEF M!Decide, M!Call
    <3>2. CASE ~(memo[i].left > 0)
        BY <3>2, IdleCallType DEF M!Call
    <3> QED BY <3>1, <3>2
  <2> HIDE DEF row
  <2> QED BY <2>1, <2>3
<1>3. ModeSafe'
    BY <1>1, <1>2, StalenessType
    DEF M!Ask, M!setting, ModeSafe, M!TypeOK, StaleIsYoung, OpenIsOpen, Asking
<1>4. Timely
  <2> SUFFICES ASSUME NEW k \in Attempts, since > M!Staleness
               PROVE  /\ M!Decided(k, "passed") /\ enabled => call'[k].open
                      /\ M!Decided(k, "refused") => enabled
      BY DEF Timely
  <2>1. CASE k # c
      BY <2>1, <1>1, <1>2 DEF M!Decided
  <2>2. CASE k = c
    <3>1. memo[i].left > 0 /\ ~memo[i].open => memo[i].value = enabled
        BY <1>1, PipelineAssumption, StalenessType DEF ModeSafe, StaleIsYoung, M!Entry
    <3>2. memo[i].open => ~memo[i].value
        BY DEF ModeSafe, OpenIsOpen
    <3>3. memo[i].left > 0 /\ memo[i].value => enabled
        BY <3>1, <3>2
    <3>4. call'[c] = row
        BY <1>1, <1>2
    <3> QED BY <2>2, <1>1, <1>2, <3>1, <3>3, <3>4 DEF M!Decided
  <2> QED BY <2>1, <2>2
<1> QED BY <1>3, <1>4

LEMMA CallStepSafe ==
    ASSUME ModeSafe, NEW c \in Attempts, M!CallStep(c)
    PROVE  ModeSafe' /\ Timely
<1> USE DEF M!setting
<1>1. /\ call \in [Attempts -> M!Call] /\ memo \in [Instances -> M!Entry(MemoTtl)]
      /\ since \in Nat /\ enabled \in BOOLEAN /\ call[c].age \in 0..FetchTime
      /\ snapshot \in M!Entry(SnapshotTtl)
    BY StalenessType DEF ModeSafe, M!TypeOK, M!Call
<1>2. CASE M!LookUp(c) /\ snapshot.left > 0
  <2>1. M!Memorise(c, snapshot.value, FALSE) /\ M!InProgress(c)
      BY <1>2 DEF M!LookUp, M!InProgress
  <2>2. snapshot.value # enabled =>
           since + MemoTtl - call[c].age <= M!Staleness /\ since <= M!Staleness
      BY <1>1, <1>2, PipelineAssumption, StalenessType DEF ModeSafe, StaleIsYoung, M!Entry
  <2>3. snapshot.value \in BOOLEAN
      BY <1>1 DEF M!Entry
  <2> QED BY <2>1, <2>2, <2>3, <1>2, MemoriseSafe
          DEF M!LookUp, ModeSafe, M!TypeOK, StaleIsYoung, OpenIsOpen, Asking
<1>3. CASE M!LookUp(c) /\ ~(snapshot.left > 0)
  <2>1. call' = [call EXCEPT ![c].step = "reading"] /\ UNCHANGED <<memo, M!setting, snapshot, faults>>
      BY <1>3 DEF M!LookUp
  <2>2. call[c].step = "asked"
      BY <1>3 DEF M!LookUp
  <2> QED BY <1>1, <2>1, <2>2
          DEF ModeSafe, M!TypeOK, M!Call, StaleIsYoung, OpenIsOpen, Asking, Timely, M!Decided
<1>4. CASE M!ReadSettings(c)
    BY <1>1, <1>4
    DEF M!ReadSettings, ModeSafe, M!TypeOK, M!Call, StaleIsYoung, OpenIsOpen, Asking, Timely, M!Decided
<1>5. CASE M!Publish(c)
  <2>1. M!Memorise(c, call[c].value, FALSE) /\ M!InProgress(c)
      BY <1>5 DEF M!Publish, M!InProgress
  <2>2. call[c].value # enabled => since <= call[c].age
      BY <1>5 DEF M!Publish, ModeSafe, StaleIsYoung
  <2>3. call[c].value # enabled =>
           since + MemoTtl - call[c].age <= M!Staleness /\ since <= M!Staleness
      BY <1>1, <2>2, PipelineAssumption, StalenessType
  <2>4. call[c].value \in BOOLEAN
      BY <1>1 DEF M!Call
  <2>5. /\ snapshot' \in M!Entry(SnapshotTtl) /\ faults' \in 0..MaxFaults
        /\ snapshot'.left > 0 /\ snapshot'.value # enabled =>
              since + snapshot'.left <= FetchTime + SnapshotTtl
    <3>1. CASE snapshot' = [value |-> call[c].value, open |-> FALSE, left |-> SnapshotTtl]
               /\ UNCHANGED faults
      <4>1. snapshot' \in M!Entry(SnapshotTtl)
          BY <3>1, <2>4, PipelineAssumption DEF M!Entry
      <4>2. snapshot'.value = call[c].value /\ snapshot'.left = SnapshotTtl
          BY <3>1
      <4>3. call[c].value # enabled => since + SnapshotTtl <= FetchTime + SnapshotTtl
          BY <1>1, <2>2, PipelineAssumption
      <4> QED BY <3>1, <4>1, <4>2, <4>3 DEF ModeSafe, M!TypeOK
    <3>2. CASE M!Fault /\ UNCHANGED snapshot
        BY <1>1, <3>2, PipelineAssumption DEF M!Fault, ModeSafe, M!TypeOK, StaleIsYoung
    <3> QED BY <1>5, <3>1, <3>2 DEF M!Publish
  <2> QED BY <2>1, <2>3, <2>4, <2>5, <1>5, MemoriseSafe
          DEF M!Publish, ModeSafe, M!TypeOK, StaleIsYoung, OpenIsOpen, Asking
<1>6. CASE M!FailsOpen(c)
  <2>1. M!Memorise(c, FALSE, TRUE) /\ M!InProgress(c)
      BY <1>6 DEF M!FailsOpen, M!InProgress
  <2>2. faults' \in 0..MaxFaults
      BY <1>6, PipelineAssumption DEF M!FailsOpen, M!Fault, ModeSafe, M!TypeOK
  <2> QED BY <2>1, <2>2, <1>6, MemoriseSafe
          DEF M!FailsOpen, ModeSafe, M!TypeOK, StaleIsYoung, OpenIsOpen, Asking
<1> QED BY <1>2, <1>3, <1>4, <1>5, <1>6 DEF M!CallStep

LEMMA AnsweredSafe ==
    ASSUME ModeSafe, NEW c \in Attempts, M!Passes(c) \/ M!Answered(c)
    PROVE  ModeSafe' /\ Timely
<1>1. call \in [Attempts -> M!Call] /\ UNCHANGED <<M!setting, snapshot, memo, faults>>
    BY DEF M!Passes, M!Answered, ModeSafe, M!TypeOK
<1>2. PICK row \in M!Call :
        /\ call' = [call EXCEPT ![c] = row]
        /\ row.step \in {"idle", "admitted"} /\ (row.step = "admitted" => row.at \in Instances)
  <2>1. CASE M!Passes(c)
    <3>1. call[c].at \in Instances /\ call' = [call EXCEPT ![c] =
                [M!IdleCall EXCEPT !.step = "admitted", !.at = call[c].at]]
        BY <2>1 DEF M!Passes, ModeSafe, Asking
    <3>2. [M!IdleCall EXCEPT !.step = "admitted", !.at = call[c].at] \in M!Call
        BY <3>1, IdleCallType DEF M!Call
    <3> QED BY <3>1, <3>2, IdleCallType DEF M!Call
  <2>2. CASE M!Answered(c)
      BY <2>2, IdleCallType DEF M!Answered
  <2> QED BY <2>1, <2>2
<1>3. \A k \in Attempts : k # c => call'[k] = call[k]
    BY <1>1, <1>2
<1>4. call'[c] = row /\ call' \in [Attempts -> M!Call]
    BY <1>1, <1>2
<1> QED BY <1>1, <1>2, <1>3, <1>4
        DEF M!setting, ModeSafe, M!TypeOK, StaleIsYoung, OpenIsOpen, Asking, Timely, M!Decided

\* A change of the setting makes stale what was fresh, at age nought.
LEMMA ChangeSafe ==
    ASSUME ModeSafe, NEW i \in Instances, M!Toggle(i) \/ M!DropMemo(i) \/ M!DeleteSnapshot(i)
    PROVE  ModeSafe' /\ Timely
<1>1. CASE M!Toggle(i)
  <2>1. toggles' \in 0..MaxToggles /\ since' \in 0..M!Staleness + 1
      BY <1>1, PipelineAssumption, StalenessType DEF M!Toggle, ModeSafe, M!TypeOK
  <2>2. StaleIsYoung'
    <3>1. \A c \in Attempts : call[c].age >= 0
        BY DEF ModeSafe, M!TypeOK, M!Call
    <3>2. snapshot.left <= FetchTime + SnapshotTtl
        BY PipelineAssumption DEF ModeSafe, M!TypeOK, M!Entry
    <3>3. \A k \in Instances : memo[k].left <= M!Staleness
        BY PipelineAssumption, StalenessType DEF ModeSafe, M!TypeOK, M!Entry
    <3>4. snapshot.left \in Nat /\ \A k \in Instances : memo[k].left \in Nat
        BY DEF ModeSafe, M!TypeOK, M!Entry
    <3> QED BY <1>1, <3>1, <3>2, <3>3, <3>4 DEF M!Toggle, StaleIsYoung
  <2>3. Timely
      BY <1>1 DEF M!Toggle, Timely, M!Decided
  <2> QED BY <1>1, <2>1, <2>2, <2>3
          DEF M!Toggle, ModeSafe, M!TypeOK, OpenIsOpen, Asking
<1>2. CASE M!DropMemo(i)
    BY <1>2, NoEntryType
    DEF M!DropMemo, ModeSafe, M!TypeOK, StaleIsYoung, OpenIsOpen, Asking, Timely, M!Decided
<1>3. CASE M!DeleteSnapshot(i)
    BY <1>3, NoEntryType, PipelineAssumption
    DEF M!DeleteSnapshot, M!Fault, ModeSafe, M!TypeOK, StaleIsYoung, OpenIsOpen, Asking,
        Timely, M!Decided
<1> QED BY <1>1, <1>2, <1>3

LEMMA OlderType ==
    ASSUME NEW ttl \in Nat, NEW entry \in M!Entry(ttl)
    PROVE  /\ M!Older(entry) \in M!Entry(ttl)
           /\ M!Older(entry).left > 0 =>
                 M!Older(entry) = [entry EXCEPT !.left = @ - 1]
           /\ M!Older(entry).open => entry.open /\ M!Older(entry).value = entry.value
BY DEF M!Older, M!NoEntry, M!Entry

\* Whatever is stale grows older no faster than the setting.
LEMMA TickSafe == ModeSafe /\ M!Tick => ModeSafe' /\ Timely
<1> SUFFICES ASSUME ModeSafe, M!Tick PROVE ModeSafe' /\ Timely
    OBVIOUS
<1>1. /\ snapshot' = M!Older(snapshot) /\ snapshot \in M!Entry(SnapshotTtl)
      /\ memo' = [i \in Instances |-> M!Older(memo[i])] /\ memo \in [Instances -> M!Entry(MemoTtl)]
      /\ UNCHANGED <<enabled, invalidating, toggles, faults>>
    BY DEF M!Tick, ModeSafe, M!TypeOK
<1>2. snapshot' \in M!Entry(SnapshotTtl) /\ memo' \in [Instances -> M!Entry(MemoTtl)]
    BY <1>1, OlderType, PipelineAssumption
<1>3. since \in Nat /\ since' \in 0..M!Staleness + 1
      /\ since' = IF since > M!Staleness THEN since ELSE since + 1
    BY StalenessType DEF M!Tick, ModeSafe, M!TypeOK
<1>4. /\ call' = [c \in Attempts |-> IF M!InProgress(c) THEN [call[c] EXCEPT !.age = @ + 1] ELSE call[c]]
      /\ \A c \in Attempts : M!InProgress(c) => call[c].age < FetchTime
      /\ call \in [Attempts -> M!Call]
    BY DEF M!Tick, ModeSafe, M!TypeOK
<1>5. call' \in [Attempts -> M!Call]
    BY <1>4, PipelineAssumption DEF M!Call
<1>6. \A c \in Attempts : /\ call'[c].step = call[c].step /\ call'[c].at = call[c].at
                          /\ call'[c].value = call[c].value
    BY <1>4 DEF M!Call
<1>7. \A c \in Attempts :
         call'[c].step = "writing" /\ call'[c].value # enabled' => since' <= call'[c].age
  <2> SUFFICES ASSUME NEW c \in Attempts, call'[c].step = "writing", call'[c].value # enabled'
               PROVE  since' <= call'[c].age
      OBVIOUS
  <2>1. M!InProgress(c) /\ call[c].value # enabled /\ call[c].step = "writing"
      BY <1>1, <1>6 DEF M!InProgress
  <2>2. since <= call[c].age
      BY <2>1 DEF ModeSafe, StaleIsYoung
  <2>3. call'[c].age = call[c].age + 1 /\ call[c].age \in Nat
      BY <2>1, <1>4 DEF M!Call
  <2>4. since' <= since + 1
      BY <1>3
  <2> QED BY <2>2, <2>3, <2>4, <1>3
<1>8. snapshot'.left > 0 /\ snapshot'.value # enabled' =>
         since' + snapshot'.left <= FetchTime + SnapshotTtl
  <2> SUFFICES ASSUME snapshot'.left > 0, snapshot'.value # enabled'
               PROVE  since' + snapshot'.left <= FetchTime + SnapshotTtl
      OBVIOUS
  <2>1. snapshot' = [snapshot EXCEPT !.left = @ - 1]
      BY <1>1, OlderType, PipelineAssumption
  <2>2. snapshot.left \in Nat /\ snapshot'.left = snapshot.left - 1 /\ snapshot'.value = snapshot.value
      BY <1>1, <2>1 DEF M!Entry
  <2>3. since + snapshot.left <= FetchTime + SnapshotTtl
      BY <1>1, <2>2 DEF ModeSafe, StaleIsYoung
  <2> QED BY <2>2, <2>3, <1>3, PipelineAssumption
<1>9. \A i \in Instances :
         memo'[i].left > 0 /\ ~memo'[i].open /\ memo'[i].value # enabled' =>
            since' + memo'[i].left <= M!Staleness
  <2> SUFFICES ASSUME NEW i \in Instances,
                      memo'[i].left > 0, ~memo'[i].open, memo'[i].value # enabled'
               PROVE  since' + memo'[i].left <= M!Staleness
      OBVIOUS
  <2>1. memo'[i] = M!Older(memo[i]) /\ memo[i] \in M!Entry(MemoTtl)
      BY <1>1
  <2>2. memo'[i] = [memo[i] EXCEPT !.left = @ - 1]
      BY <2>1, OlderType, PipelineAssumption
  <2>3. /\ memo[i].left \in Nat /\ memo'[i].left = memo[i].left - 1
        /\ memo'[i].value = memo[i].value /\ memo'[i].open = memo[i].open
      BY <2>1, <2>2 DEF M!Entry
  <2>4. since + memo[i].left <= M!Staleness
      BY <1>1, <2>3 DEF ModeSafe, StaleIsYoung
  <2> QED BY <2>3, <2>4, <1>3, StalenessType
<1>10. OpenIsOpen'
    BY <1>1, OlderType, PipelineAssumption DEF ModeSafe, OpenIsOpen
<1>11. Asking' /\ Timely
    BY <1>6 DEF ModeSafe, Asking, Timely, M!Decided
<1>12. M!TypeOK'
    BY <1>1, <1>2, <1>3, <1>5 DEF ModeSafe, M!TypeOK
<1> QED BY <1>7, <1>8, <1>9, <1>10, <1>11, <1>12 DEF ModeSafe, StaleIsYoung

\* What a stopped instance forgets was nothing but answers.
LEMMA InstanceStopSafe ==
    ASSUME ModeSafe, NEW i \in Instances, M!Stop(i), M!Fault
    PROVE  ModeSafe' /\ Timely
BY NoEntryType, IdleCallType, PipelineAssumption
DEF M!Stop, M!Fault, ModeSafe, M!TypeOK, StaleIsYoung, OpenIsOpen, Asking,
    Timely, M!Decided

LEMMA FaultSafe == ModeSafe /\ M!Fault /\ UNCHANGED maintenance => ModeSafe' /\ Timely
BY PipelineAssumption
DEF M!Fault, maintenance, ModeSafe, M!TypeOK, StaleIsYoung, OpenIsOpen, Asking, Timely, M!Decided

LEMMA ModeSafeStep == ModeSafe /\ [Next]_vars => ModeSafe' /\ Timely
<1> SUFFICES ASSUME ModeSafe, [Next]_vars PROVE ModeSafe' /\ Timely
    OBVIOUS
<1> USE DEF maintenance, ModeVars
<1>1. ASSUME NEW t \in Attempts, NEW i \in Instances, Send(t, i) PROVE ModeSafe' /\ Timely
    BY <1>1, AskSafe DEF Send
<1>2. ASSUME NEW t \in Attempts, Asks(t) PROVE ModeSafe' /\ Timely
    BY <1>2, CallStepSafe DEF Asks
<1>3. ASSUME NEW t \in Attempts, TurnAway(t) \/ Admit(t) \/ Answer(t) PROVE ModeSafe' /\ Timely
    BY <1>3, AnsweredSafe DEF TurnAway, Admit, Answer
<1>4. ASSUME NEW t \in Attempts, Executes(t) \/ ExecutionFails(t) PROVE ModeSafe' /\ Timely
    BY <1>4, ModeSafeStutter, FaultSafe DEF Executes, ExecutionFails
<1>5. CASE GivesUp \/ Expire
    BY <1>5, ModeSafeStutter, FaultSafe DEF GivesUp, Expire
<1>6. CASE Changes
    BY <1>6, ChangeSafe DEF Changes
<1>7. CASE Tick
    BY <1>7, TickSafe DEF Tick
<1>8. ASSUME NEW i \in Instances, Restart(i) PROVE ModeSafe' /\ Timely
    BY <1>8, InstanceStopSafe DEF Restart
<1>9. CASE UNCHANGED vars
    BY <1>9, ModeSafeStutter DEF vars
<1> QED BY <1>1, <1>2, <1>3, <1>4, <1>5, <1>6, <1>7, <1>8, <1>9 DEF Next

-----------------------------------------------------------------------------
\* A change of the setting takes hold within Staleness ticks in every request,
\* for every lifetime of the snapshot and of the memos.
THEOREM ChangeTakesHold == Spec => SettingTakesHold
<1>1. ModeSafe /\ [Next]_vars => [Timely]_M!vars
    BY ModeSafeStep
<1> QED BY <1>1, ModeSafeInit, ModeSafeStep, PTL DEF Spec, SettingTakesHold, M!SettingTakesHold, Timely

-----------------------------------------------------------------------------
(* The two together *)

\* Redis, both instances' caches, the locks and the client keep their types.
THEOREM PipelineTypeCorrect == Spec => []TypeOK
<1> DEFINE Client == awaited \in Attempts \cup {None} /\ answered \in BOOLEAN
<1>1. Init => Client
    BY DEF Init
<1>2. Client /\ [Next]_vars => Client'
  <2> SUFFICES ASSUME Client, [Next]_vars PROVE Client'
      OBVIOUS
  <2>1. ASSUME NEW t \in Attempts, NEW i \in Instances, Send(t, i) PROVE Client'
      BY <2>1 DEF Send
  <2>2. ASSUME NEW t \in Attempts,
               Asks(t) \/ TurnAway(t) \/ Admit(t) \/ Executes(t) \/ ExecutionFails(t)
        PROVE  Client'
      BY <2>2 DEF Asks, TurnAway, Admit, Executes, ExecutionFails, client, Forget
  <2>3. ASSUME NEW t \in Attempts, Answer(t) PROVE Client'
      BY <2>3 DEF Answer, Forget
  <2>4. CASE GivesUp \/ Changes \/ Tick \/ Expire \/ \E i \in Instances : Restart(i)
      BY <2>4 DEF GivesUp, Changes, Tick, Expire, Restart, client
  <2>5. CASE UNCHANGED vars
      BY <2>5 DEF vars, client
  <2> QED BY <2>1, <2>2, <2>3, <2>4, <2>5 DEF Next
<1>3. ReplaySafe /\ ModeSafe /\ Client => TypeOK
    BY DEF ReplaySafe, ModeSafe, TypeOK
<1> QED BY <1>1, <1>2, <1>3, ReplaySafeInit, ReplaySafeStep, ModeSafeInit, ModeSafeStep, PTL
        DEF Spec

\* A call of current() never admits by itself, and what it holds of others stays.
LEMMA CallStepAdmits ==
    ASSUME ModeSafe, NEW c \in Attempts, M!CallStep(c)
    PROVE  /\ call[c].step # "admitted" /\ call'[c].step # "admitted"
           /\ \A k \in Attempts \ {c} : call'[k] = call[k]
<1>1. call \in [Attempts -> M!Call]
    BY DEF ModeSafe, M!TypeOK
<1>2. ASSUME NEW value, NEW open, M!InProgress(c), M!Memorise(c, value, open)
      PROVE  /\ call'[c].step # "admitted"
             /\ \A k \in Attempts \ {c} : call'[k] = call[k]
    BY <1>1, <1>2 DEF M!Memorise, M!Decide, M!Call
<1>3. M!InProgress(c) /\ call[c].step # "admitted"
    BY DEF M!CallStep, M!LookUp, M!ReadSettings, M!Publish, M!FailsOpen, M!InProgress
<1>4. CASE M!LookUp(c)
    BY <1>1, <1>2, <1>3, <1>4 DEF M!LookUp, M!Call
<1>5. CASE M!ReadSettings(c)
    BY <1>1, <1>3, <1>5 DEF M!ReadSettings, M!Call
<1>6. CASE M!Publish(c)
    BY <1>2, <1>3, <1>6 DEF M!Publish
<1>7. CASE M!FailsOpen(c)
    BY <1>2, <1>3, <1>7 DEF M!FailsOpen
<1> QED BY <1>3, <1>4, <1>5, <1>6, <1>7 DEF M!CallStep

LEMMA AdmittedInit == Init => OnlyTheAdmittedRun
<1>1. M!IdleCall.step = "idle"
    BY DEF M!IdleCall
<1>2. Init => \A t \in Attempts : attempt[t] = "idle" /\ call[t] = M!IdleCall
    BY DEF Init, M!Init, R!Init
<1> QED BY <1>1, <1>2 DEF OnlyTheAdmittedRun

LEMMA AdmittedStep ==
    ASSUME ReplaySafe, ModeSafe, OnlyTheAdmittedRun, [Next]_vars
    PROVE  OnlyTheAdmittedRun'
<1> USE DEF OnlyTheAdmittedRun
<1>1. call \in [Attempts -> M!Call] /\ attempt \in [Attempts -> R!Steps \cup R!Outcomes]
    BY DEF ModeSafe, M!TypeOK, ReplaySafe, R!TypeOK
<1>2. ASSUME NEW t \in Attempts, NEW i \in Instances, Send(t, i) PROVE OnlyTheAdmittedRun'
  <2>1. /\ call[t].step = "idle" /\ UNCHANGED attempt
        /\ call'[t].step # "admitted" /\ \A k \in Attempts \ {t} : call'[k] = call[k]
      BY <1>1, <1>2 DEF Send, M!Ask, M!Decide, M!IdleCall, replay
  <2> QED BY <2>1
<1>3. ASSUME NEW t \in Attempts, Asks(t) PROVE OnlyTheAdmittedRun'
    BY <1>3, CallStepAdmits DEF Asks, replay
<1>4. ASSUME NEW t \in Attempts, TurnAway(t) PROVE OnlyTheAdmittedRun'
    BY <1>1, <1>4 DEF TurnAway, M!Answered, M!IdleCall, replay
<1>5. ASSUME NEW t \in Attempts, Admit(t) PROVE OnlyTheAdmittedRun'
    BY <1>1, <1>5 DEF Admit, M!Passes, M!IdleCall, R!Enter, R!Goes
<1>6. ASSUME NEW t \in Attempts, Executes(t) \/ ExecutionFails(t) PROVE OnlyTheAdmittedRun'
  <2>1. /\ UNCHANGED call /\ attempt[t] # "idle" /\ attempt'[t] # "idle"
        /\ \A k \in Attempts \ {t} : attempt'[k] = attempt[k]
    <3>1. CASE ExecutionFails(t)
        BY <1>1, <3>1 DEF ExecutionFails, R!ExecutionFails, R!Goes, maintenance
    <3>2. CASE Executes(t)
        BY <1>1, <3>2 DEF Executes, R!AttemptStep, R!LookUp, R!Acquire, R!LookAgain, R!Execute,
                          R!Store, R!Unlock, R!Replay, R!Goes, maintenance
    <3> QED BY <1>6, <3>1, <3>2
  <2> QED BY <2>1
<1>7. ASSUME NEW t \in Attempts, Answer(t) PROVE OnlyTheAdmittedRun'
    BY <1>1, <1>7 DEF Answer, R!Leave, M!Answered, M!IdleCall
<1>8. CASE GivesUp \/ Changes \/ Expire
    BY <1>8 DEF GivesUp, Changes, Expire, M!Toggle, M!DropMemo, M!DeleteSnapshot, R!LockExpires,
                R!ResponseExpires, maintenance, replay
<1>9. CASE Tick
  <2>1. \A c \in Attempts : call'[c].step = call[c].step
      BY <1>1, <1>9 DEF Tick, M!Tick, M!Call
  <2> QED BY <1>9, <2>1 DEF Tick, replay
<1>10. ASSUME NEW i \in Instances, Restart(i) PROVE OnlyTheAdmittedRun'
    BY <1>10 DEF Restart, M!Stop, M!IdleCall, R!Stop
<1>11. CASE UNCHANGED vars
    BY <1>11 DEF vars, maintenance, replay
<1> QED BY <1>2, <1>3, <1>4, <1>5, <1>6, <1>7, <1>8, <1>9, <1>10, <1>11 DEF Next

\* No attempt gets into the interceptor past the guard, and no request that the
\* guard let through stays outside it: a restart cuts both off together.
THEOREM GuardComesFirst == Spec => []OnlyTheAdmittedRun
BY AdmittedInit, AdmittedStep, ReplaySafeInit, ReplaySafeStep, ModeSafeInit, ModeSafeStep, PTL
DEF Spec

LEMMA ReplayStep == [Next]_vars => [R!Next]_R!vars
<1> SUFFICES ASSUME [Next]_vars PROVE R!Next \/ UNCHANGED R!vars
    OBVIOUS
<1> USE DEF R!vars, replay
<1>1. ASSUME NEW t \in Attempts,
             Asks(t) \/ TurnAway(t) \/ \E i \in Instances : Send(t, i)
      PROVE  UNCHANGED R!vars
    BY <1>1 DEF Asks, TurnAway, Send
<1>2. ASSUME NEW t \in Attempts,
             Admit(t) \/ Executes(t) \/ ExecutionFails(t) \/ Answer(t)
      PROVE  R!Next
    BY <1>2 DEF Admit, Executes, ExecutionFails, Answer, R!Next
<1>3. CASE GivesUp \/ Changes \/ Tick \/ UNCHANGED vars
    BY <1>3 DEF GivesUp, Changes, Tick, vars
<1>4. CASE Expire
    BY <1>4 DEF Expire, R!Next
<1>5. ASSUME NEW i \in Instances, Restart(i) PROVE R!Next
  <2>1. {t \in Attempts : call[t].at = i} \in SUBSET Attempts
      OBVIOUS
  <2> QED BY <1>5, <2>1 DEF Restart, R!Next
<1> QED BY <1>1, <1>2, <1>3, <1>4, <1>5 DEF Next

\* Every step of the pipeline is one the interceptor could take on its own, or
\* leaves it alone: neither the guard nor the client reaches into its state.
THEOREM PipelineImplementsReplay == Spec => ImplementsReplay
<1>1. Init => R!Init
    BY DEF Init
<1> QED BY <1>1, ReplayStep, PTL DEF Spec, ImplementsReplay, R!Spec
=============================================================================
