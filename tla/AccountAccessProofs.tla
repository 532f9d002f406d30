------------------------ MODULE AccountAccessProofs ------------------------
(***************************************************************************)
(* Proofs about AccountAccess, for every set of login requests and devices *)
(* and every number of interventions.                                      *)
(***************************************************************************)
EXTENDS AccountAccess, TLAPS

\* The steps of a login at which its row may exist.
AfterInsert == {"after", "replace", "keep", "bind", "done"}

\* A row, a password change by it and a binding belong to a login that has inserted it.
RowsAreInserted ==
    \A l \in Logins : session[l] # NoRow \/ change[l] \/ binding[l] # None =>
        login[l].step \in AfterInsert

\* What a login was told of the account is no newer than the account, and what is
\* still current was read after the last revocation.
CurrentIsUnrevoked ==
    \A l \in Logins :
       /\ login[l].step = "bump" =>
             /\ login[l].seen <= user.authVersion
             /\ login[l].seen = user.authVersion => login[l].decided = revoked
       /\ login[l].step = "insert" =>
             /\ Generation(l) <= user.authVersion
             /\ Generation(l) = user.authVersion => login[l].decided = revoked
       /\ session[l] = user.authVersion => login[l].decided = revoked
       /\ change[l] /\ session[l] # NoRow => login[l].decided = revoked

\* The login that has, or is about to insert, a row of the current generation.
Holds(l) ==
    \/ session[l] = user.authVersion
    \/ login[l].step = "insert" /\ Generation(l) = user.authVersion

OneHolder == role = "student" => \A l, k \in Logins : Holds(l) /\ Holds(k) => l = k

IInv == TypeOK /\ RowsAreInserted /\ CurrentIsUnrevoked /\ OneHolder

USE DEF NoRow

-----------------------------------------------------------------------------
LEMMA NewLoginType == NewLogin \in Login /\ NewLogin.step = "new"
BY DEF NewLogin, Login

LEMMA InitInvariant == Init => IInv
<1> SUFFICES ASSUME Init PROVE IInv
    OBVIOUS
<1>1. TypeOK
    BY NewLoginType, AccessAssumption DEF Init, TypeOK, User
<1>2. RowsAreInserted
    BY DEF Init, RowsAreInserted
<1>3. CurrentIsUnrevoked /\ OneHolder
    BY NewLoginType DEF Init, CurrentIsUnrevoked, OneHolder, Holds
<1> QED BY <1>1, <1>2, <1>3 DEF IInv

LEMMA TypeFacts ==
    ASSUME IInv
    PROVE  /\ login \in [Logins -> Login] /\ user \in User
           /\ session \in [Logins -> {NoRow} \cup 0..user.authVersion]
           /\ user.authVersion \in Nat /\ revoked \in Nat /\ interventions \in Nat
           /\ \A l \in Logins : login[l] \in Login /\ login[l].seen \in Nat /\ Generation(l) \in Nat
BY AccessAssumption DEF IInv, TypeOK, User, Login, Generation

-----------------------------------------------------------------------------
(* The steps of a login *)

\* Before its row exists a login only advances, and may fail.
LEMMA EarlySteps ==
    ASSUME IInv, NEW l \in Logins,
           (\E d \in Devices \cup {None} : PassesGate(l, d)) \/ VerifiesPassword(l)
    PROVE  IInv'
<1>1. /\ UNCHANGED <<role, user, session, change, binding, revoked, interventions>>
      /\ login[l].step \in {"new", "gated"}
    BY DEF PassesGate, VerifiesPassword
<1>2. PICK row \in Login : login' = [login EXCEPT ![l] = row]
                           /\ row.step \in {"gated", "verified", "failed"}
  <2>1. CASE \E d \in Devices \cup {None} : PassesGate(l, d)
    <3>1. PICK d \in Devices \cup {None} : PassesGate(l, d)
        BY <2>1
    <3>2. [NewLogin EXCEPT !.step = "gated", !.device = d, !.password = user.password] \in Login
        BY TypeFacts, NewLoginType DEF Login, User
    <3> QED BY <3>1, <3>2, NewLoginType DEF PassesGate, Login
  <2>2. CASE VerifiesPassword(l)
    <3> DEFINE row == [login[l] EXCEPT
                           !.step = IF login[l].password = user.password THEN "verified" ELSE "failed",
                           !.verified = revoked]
    <3>1. row \in Login /\ row.step \in {"gated", "verified", "failed"}
        BY TypeFacts DEF Login
    <3>2. login' = [login EXCEPT ![l] = row]
        BY <2>2, TypeFacts DEF VerifiesPassword
    <3> HIDE DEF row
    <3> QED BY <3>1, <3>2
  <2> QED BY <2>1, <2>2
<1>3. TypeOK'
    BY <1>1, <1>2, TypeFacts DEF IInv, TypeOK
<1>4. session[l] = NoRow /\ ~change[l] /\ binding[l] = None
    BY <1>1 DEF IInv, RowsAreInserted, AfterInsert, TypeOK
<1>5. RowsAreInserted'
    BY <1>1, <1>2, <1>4, TypeFacts DEF IInv, RowsAreInserted
<1>6. CurrentIsUnrevoked'
    BY <1>1, <1>2, <1>4, TypeFacts DEF IInv, CurrentIsUnrevoked, Generation
<1>7. OneHolder'
    BY <1>1, <1>2, <1>4, TypeFacts DEF IInv, OneHolder, Holds, Generation
<1> QED BY <1>3, <1>5, <1>6, <1>7 DEF IInv

\* What the hook reads is current.
LEMMA BeforeCreateStep == ASSUME IInv, NEW l \in Logins, BeforeCreate(l) PROVE IInv'
<1>1. /\ UNCHANGED <<role, user, session, change, binding, revoked, interventions>>
      /\ login[l].step = "verified"
    BY DEF BeforeCreate
<1>2. PICK row \in Login :
         /\ login' = [login EXCEPT ![l] = row]
         /\ row.step = IF ~user.active THEN "failed" ELSE IF role = "student" THEN "bump" ELSE "insert"
         /\ row.seen = user.authVersion /\ row.decided = revoked
  <2> DEFINE step == IF ~user.active THEN "failed" ELSE IF role = "student" THEN "bump" ELSE "insert"
             row == [login[l] EXCEPT !.step = step, !.seen = user.authVersion, !.decided = revoked]
  <2>1. row \in Login /\ row.step = step /\ row.seen = user.authVersion /\ row.decided = revoked
      BY TypeFacts DEF Login
  <2>2. login' = [login EXCEPT ![l] = row]
      BY TypeFacts DEF BeforeCreate
  <2> HIDE DEF row
  <2> QED BY <2>1, <2>2
<1>3. TypeOK'
    BY <1>1, <1>2, TypeFacts DEF IInv, TypeOK
<1>4. session[l] = NoRow /\ ~change[l] /\ binding[l] = None
    BY <1>1 DEF IInv, RowsAreInserted, AfterInsert, TypeOK
<1>5. RowsAreInserted'
    BY <1>1, <1>2, <1>4, TypeFacts DEF IInv, RowsAreInserted
<1>6. CurrentIsUnrevoked'
    BY <1>1, <1>2, <1>4, TypeFacts DEF IInv, CurrentIsUnrevoked, Generation
<1>7. OneHolder'
    BY <1>1, <1>2, <1>4, TypeFacts DEF IInv, OneHolder, Holds, Generation
<1> QED BY <1>3, <1>5, <1>6, <1>7 DEF IInv

\* The login that advances authVersion from what it read is the only holder.
LEMMA BumpStep == ASSUME IInv, NEW l \in Logins, BumpVersion(l) PROVE IInv'
<1>1. /\ UNCHANGED <<role, session, change, binding, revoked, interventions>>
      /\ login[l].step = "bump"
      /\ user' \in User /\ user'.authVersion = user.authVersion + 1
    BY TypeFacts DEF BumpVersion, User
<1>2. /\ login' \in [Logins -> Login]
      /\ login'[l] = [login[l] EXCEPT !.step = "insert"]
      /\ \A k \in Logins : k # l => login'[k] = login[k]
    BY TypeFacts DEF BumpVersion, Login
<1>3. session[l] = NoRow /\ ~change[l] /\ binding[l] = None /\ login[l].seen <= user.authVersion
      /\ (login[l].seen = user.authVersion => login[l].decided = revoked)
    BY <1>1 DEF IInv, RowsAreInserted, AfterInsert, TypeOK, CurrentIsUnrevoked
<1>4. \A k \in Logins : session[k] # user'.authVersion
    BY <1>1, TypeFacts
<1>5. \A k \in Logins : k # l => Generation(k)' = Generation(k)
    BY <1>1, <1>2 DEF Generation
<1>6. /\ login'[l].step = "insert" /\ login'[l].decided = login[l].decided
      /\ Generation(l)' = Generation(l)
      /\ Generation(l) <= user'.authVersion
      /\ Generation(l) = user'.authVersion => login[l].seen = user.authVersion
    BY <1>1, <1>2, <1>3, TypeFacts DEF Generation, Login
<1>7. TypeOK'
    BY <1>1, <1>2, TypeFacts DEF IInv, TypeOK
<1>8. RowsAreInserted'
    BY <1>1, <1>2, <1>3 DEF IInv, RowsAreInserted
<1>9. CurrentIsUnrevoked'
  <2> SUFFICES ASSUME NEW k \in Logins
               PROVE  /\ login'[k].step = "bump" =>
                            /\ login'[k].seen <= user'.authVersion
                            /\ login'[k].seen = user'.authVersion => login'[k].decided = revoked'
                      /\ login'[k].step = "insert" =>
                            /\ Generation(k)' <= user'.authVersion
                            /\ Generation(k)' = user'.authVersion => login'[k].decided = revoked'
                      /\ session'[k] = user'.authVersion => login'[k].decided = revoked'
                      /\ change'[k] /\ session'[k] # NoRow => login'[k].decided = revoked'
      BY DEF CurrentIsUnrevoked
  <2>1. CASE k = l
      BY <2>1, <1>1, <1>3, <1>4, <1>6
  <2>2. CASE k # l
    <3>1. login[k].step = "bump" => login[k].seen < user'.authVersion
        BY <1>1, TypeFacts DEF IInv, CurrentIsUnrevoked
    <3>2. login[k].step = "insert" => Generation(k) < user'.authVersion
        BY <1>1, TypeFacts DEF IInv, CurrentIsUnrevoked
    <3>3. change[k] /\ session[k] # NoRow => login[k].decided = revoked
        BY DEF IInv, CurrentIsUnrevoked
    <3> QED BY <2>2, <3>1, <3>2, <3>3, <1>1, <1>2, <1>4, <1>5, TypeFacts
  <2> QED BY <2>1, <2>2
<1>10. OneHolder'
  <2>1. \A k \in Logins : k # l => ~Holds(k)'
    <3> SUFFICES ASSUME NEW k \in Logins, k # l PROVE ~Holds(k)'
        OBVIOUS
    <3>1. login[k].step = "insert" => Generation(k) < user'.authVersion
        BY <1>1, TypeFacts DEF IInv, CurrentIsUnrevoked
    <3> QED BY <3>1, <1>1, <1>2, <1>4, <1>5, TypeFacts DEF Holds
  <2> QED BY <2>1 DEF OneHolder
<1> QED BY <1>7, <1>8, <1>9, <1>10 DEF IInv

\* The row is inserted by a login that holds the current generation, or is stale.
LEMMA InsertStep == ASSUME IInv, NEW l \in Logins, InsertSession(l) PROVE IInv'
<1>1. /\ UNCHANGED <<role, user, change, binding, revoked, interventions>>
      /\ login[l].step = "insert"
    BY DEF InsertSession
<1>2. /\ login' \in [Logins -> Login]
      /\ login'[l] = [login[l] EXCEPT !.step = "after"]
      /\ \A k \in Logins : k # l => login'[k] = login[k]
      /\ login'[l].step = "after" /\ login'[l].decided = login[l].decided
    BY TypeFacts DEF InsertSession, Login
<1>3. /\ Generation(l) <= user.authVersion
      /\ Generation(l) = user.authVersion => login[l].decided = revoked
      /\ session[l] = NoRow /\ ~change[l] /\ binding[l] = None
    BY <1>1 DEF IInv, CurrentIsUnrevoked, RowsAreInserted, AfterInsert, TypeOK
<1>4. session' \in [Logins -> {NoRow} \cup 0..user'.authVersion]
      /\ session'[l] = Generation(l) /\ \A k \in Logins : k # l => session'[k] = session[k]
    BY <1>1, <1>3, TypeFacts DEF InsertSession
<1>5. TypeOK'
    BY <1>1, <1>2, <1>4 DEF IInv, TypeOK
<1>6. RowsAreInserted'
    BY <1>1, <1>2, <1>4 DEF IInv, RowsAreInserted, AfterInsert
<1>7. \A k \in Logins : k # l => Generation(k)' = Generation(k)
    BY <1>1, <1>2 DEF Generation
<1>8. CurrentIsUnrevoked'
  <2> SUFFICES ASSUME NEW k \in Logins
               PROVE  /\ login'[k].step = "bump" =>
                            /\ login'[k].seen <= user'.authVersion
                            /\ login'[k].seen = user'.authVersion => login'[k].decided = revoked'
                      /\ login'[k].step = "insert" =>
                            /\ Generation(k)' <= user'.authVersion
                            /\ Generation(k)' = user'.authVersion => login'[k].decided = revoked'
                      /\ session'[k] = user'.authVersion => login'[k].decided = revoked'
                      /\ change'[k] /\ session'[k] # NoRow => login'[k].decided = revoked'
      BY DEF CurrentIsUnrevoked
  <2>1. CASE k = l
      BY <2>1, <1>1, <1>2, <1>3, <1>4
  <2>2. CASE k # l
      BY <2>2, <1>1, <1>2, <1>4, <1>7 DEF IInv, CurrentIsUnrevoked
  <2> QED BY <2>1, <2>2
<1>9. \A k \in Logins : Holds(k)' => Holds(k)
    BY <1>1, <1>2, <1>4, <1>7 DEF Holds
<1>10. OneHolder'
    BY <1>1, <1>9 DEF IInv, OneHolder
<1> QED BY <1>5, <1>6, <1>8, <1>10 DEF IInv

-----------------------------------------------------------------------------
(* Steps that at most delete rows *)

\* Who deletes rows, advances a login whose row is inserted, or lets a valid
\* session begin a change, keeps the invariant.
LEMMA ShrinkStep ==
    ASSUME IInv,
           role' = role, user' \in User, user'.authVersion = user.authVersion,
           revoked' = revoked,
           interventions' \in 0..MaxInterventions, interventions' >= interventions,
           session' \in [Logins -> {NoRow} \cup 0..user.authVersion],
           \A l \in Logins : session'[l] \in {session[l], NoRow},
           login' \in [Logins -> Login],
           \A l \in Logins : \/ login'[l] = login[l]
                             \/ /\ login[l].step \in AfterInsert /\ login'[l].step \in AfterInsert
                                /\ login'[l].decided = login[l].decided,
           change' \in [Logins -> BOOLEAN],
           \A l \in Logins : change'[l] => change[l] \/ Valid(l),
           binding' \in [Logins -> Devices \cup {None}],
           \A l \in Logins : binding'[l] # None => login'[l].step \in AfterInsert
    PROVE  IInv'
<1>1. TypeOK'
    BY AccessAssumption, TypeFacts DEF IInv, TypeOK
<1>2. RowsAreInserted'
  <2> SUFFICES ASSUME NEW l \in Logins, session'[l] # NoRow \/ change'[l] \/ binding'[l] # None
               PROVE  login'[l].step \in AfterInsert
      BY DEF RowsAreInserted
  <2>1. session[l] # NoRow \/ change[l] \/ binding'[l] # None
      BY DEF Valid
  <2> QED BY <2>1 DEF IInv, RowsAreInserted
<1>3. \A l \in Logins : login'[l].step = "insert" => Generation(l)' = Generation(l)
    BY DEF Generation, AfterInsert
<1>4. CurrentIsUnrevoked'
  <2> SUFFICES ASSUME NEW l \in Logins
               PROVE  /\ login'[l].step = "bump" =>
                            /\ login'[l].seen <= user'.authVersion
                            /\ login'[l].seen = user'.authVersion => login'[l].decided = revoked'
                      /\ login'[l].step = "insert" =>
                            /\ Generation(l)' <= user'.authVersion
                            /\ Generation(l)' = user'.authVersion => login'[l].decided = revoked'
                      /\ session'[l] = user'.authVersion => login'[l].decided = revoked'
                      /\ change'[l] /\ session'[l] # NoRow => login'[l].decided = revoked'
      BY DEF CurrentIsUnrevoked
  <2>1. login'[l].step \in {"bump", "insert"} => login'[l] = login[l]
      BY DEF AfterInsert
  <2>2. login'[l].decided = login[l].decided
      OBVIOUS
  <2>3. session'[l] = user.authVersion => session[l] = user.authVersion
      BY TypeFacts
  <2>4. change'[l] /\ session'[l] # NoRow => login[l].decided = revoked
      BY DEF IInv, CurrentIsUnrevoked, Valid
  <2> QED BY <2>1, <2>2, <2>3, <2>4, <1>3 DEF IInv, CurrentIsUnrevoked
<1>5. \A l \in Logins : Holds(l)' => Holds(l)
  <2> SUFFICES ASSUME NEW l \in Logins, Holds(l)' PROVE Holds(l)
      OBVIOUS
  <2>1. CASE session'[l] = user'.authVersion
      BY <2>1, TypeFacts DEF Holds
  <2>2. CASE login'[l].step = "insert" /\ Generation(l)' = user'.authVersion
      BY <2>2, <1>3 DEF Holds, AfterInsert
  <2> QED BY <2>1, <2>2 DEF Holds
<1>6. OneHolder'
    BY <1>5 DEF IInv, OneHolder
<1> QED BY <1>1, <1>2, <1>4, <1>6 DEF IInv

\* What a login does once its row is inserted.
LEMMA LateSteps ==
    ASSUME IInv, NEW l \in Logins,
           AfterCreate(l) \/ ReplaceOthers(l) \/ LoginAnswered(l) \/ BindingWritten(l)
    PROVE  IInv'
<1>1. login[l].step \in AfterInsert
    BY DEF AfterCreate, ReplaceOthers, LoginAnswered, BindingWritten, AfterInsert, IInv, RowsAreInserted
<1>2. /\ UNCHANGED <<role, change, revoked, interventions>>
      /\ user' \in User /\ user'.authVersion = user.authVersion
    BY TypeFacts DEF AfterCreate, ReplaceOthers, LoginAnswered, BindingWritten, IInv, TypeOK, User
<1>3. \E step \in AfterInsert : login' = [login EXCEPT ![l].step = step]
    BY DEF AfterCreate, ReplaceOthers, LoginAnswered, BindingWritten, AfterInsert
<1>4. /\ login' \in [Logins -> Login]
      /\ login'[l].step \in AfterInsert /\ login'[l].decided = login[l].decided
      /\ \A k \in Logins : k # l => login'[k] = login[k]
    BY <1>3, TypeFacts DEF Login, AfterInsert
<1>5. /\ session' \in [Logins -> {NoRow} \cup 0..user.authVersion]
      /\ \A k \in Logins : session'[k] \in {session[k], NoRow}
    BY TypeFacts DEF AfterCreate, ReplaceOthers, LoginAnswered, BindingWritten, NoSessions
<1>6. /\ binding' \in [Logins -> Devices \cup {None}]
      /\ \A k \in Logins : k # l => binding'[k] = binding[k]
    BY TypeFacts DEF AfterCreate, ReplaceOthers, LoginAnswered, BindingWritten, IInv, TypeOK, Login
<1>7. \A k \in Logins : binding'[k] # None => login'[k].step \in AfterInsert
    BY <1>1, <1>4, <1>6 DEF IInv, RowsAreInserted
<1>8. change \in [Logins -> BOOLEAN] /\ interventions \in 0..MaxInterventions
    BY DEF IInv, TypeOK
<1> QED BY <1>1, <1>2, <1>4, <1>5, <1>6, <1>7, <1>8, TypeFacts, ShrinkStep

LEMMA OwnerSteps ==
    ASSUME IInv, NEW l \in Logins,
           SignOut(l) \/ (\E d \in Devices : AcceptedScan(l, d)) \/ ChangePasswordRead(l)
              \/ UnregisterDevice(l)
    PROVE  IInv'
<1>1. /\ UNCHANGED <<role, login, revoked>>
      /\ user' \in User /\ user'.authVersion = user.authVersion
    BY TypeFacts DEF SignOut, AcceptedScan, ChangePasswordRead, UnregisterDevice, User
<1>2. interventions' \in 0..MaxInterventions /\ interventions' >= interventions
    BY TypeFacts, AccessAssumption
    DEF SignOut, AcceptedScan, ChangePasswordRead, UnregisterDevice, Intervene, IInv, TypeOK
<1>3. /\ session' \in [Logins -> {NoRow} \cup 0..user.authVersion]
      /\ \A k \in Logins : session'[k] \in {session[k], NoRow}
    BY TypeFacts DEF SignOut, AcceptedScan, ChangePasswordRead, UnregisterDevice, NoSessions
<1>4. /\ change' \in [Logins -> BOOLEAN]
      /\ \A k \in Logins : change'[k] => change[k] \/ Valid(k)
    BY DEF SignOut, AcceptedScan, ChangePasswordRead, UnregisterDevice, IInv, TypeOK
<1>5. /\ binding' \in [Logins -> Devices \cup {None}]
      /\ \A k \in Logins : binding'[k] # None => login[k].step \in AfterInsert
    BY DEF SignOut, AcceptedScan, ChangePasswordRead, UnregisterDevice, AfterInsert,
           IInv, TypeOK, RowsAreInserted
<1> QED BY <1>1, <1>2, <1>3, <1>4, <1>5, TypeFacts, ShrinkStep

LEMMA ReleaseSteps == ASSUME IInv, CooldownElapses \/ ReleaseDevice PROVE IInv'
<1>1. /\ UNCHANGED <<role, login, change, binding, revoked>>
      /\ user' \in User /\ user'.authVersion = user.authVersion
    BY TypeFacts DEF CooldownElapses, ReleaseDevice, User
<1>2. interventions' \in 0..MaxInterventions /\ interventions' >= interventions
    BY TypeFacts, AccessAssumption DEF CooldownElapses, ReleaseDevice, Intervene, IInv, TypeOK
<1>3. /\ session' \in [Logins -> {NoRow} \cup 0..user.authVersion]
      /\ \A k \in Logins : session'[k] \in {session[k], NoRow}
    BY TypeFacts DEF CooldownElapses, ReleaseDevice, NoSessions
<1>4. /\ change \in [Logins -> BOOLEAN] /\ binding \in [Logins -> Devices \cup {None}]
      /\ \A k \in Logins : binding[k] # None => login[k].step \in AfterInsert
    BY DEF IInv, TypeOK, RowsAreInserted
<1> QED BY <1>1, <1>2, <1>3, <1>4, TypeFacts, ShrinkStep

-----------------------------------------------------------------------------
(* Steps that advance authVersion *)

\* Whoever advances authVersion leaves at most the changing session current.
LEMMA AdvanceStep ==
    ASSUME IInv, NEW kept \in SUBSET Logins,
           \A l, k \in kept : l = k,
           UNCHANGED <<role, login, binding>>,
           user' \in User, user'.authVersion = user.authVersion + 1,
           interventions' \in 0..MaxInterventions, revoked' \in 0..interventions',
           session' = [l \in Logins |-> IF l \in kept THEN user'.authVersion ELSE NoRow],
           \A l \in kept : session[l] # NoRow /\ login[l].decided = revoked',
           change' \in [Logins -> BOOLEAN], \A l \in Logins : change'[l] => change[l]
    PROVE  IInv'
<1>1. TypeOK'
    BY TypeFacts DEF IInv, TypeOK
<1>2. RowsAreInserted'
    BY DEF IInv, RowsAreInserted
<1>3. \A l \in Logins : Generation(l)' = Generation(l)
    BY DEF Generation
<1>4. \A l \in Logins : /\ login[l].step = "bump" => login[l].seen < user'.authVersion
                        /\ login[l].step = "insert" => Generation(l) < user'.authVersion
    BY TypeFacts DEF IInv, CurrentIsUnrevoked
<1>5. \A l \in Logins : session'[l] # NoRow => l \in kept
    OBVIOUS
<1>6. CurrentIsUnrevoked'
  <2> SUFFICES ASSUME NEW l \in Logins
               PROVE  /\ login'[l].step = "bump" =>
                            /\ login'[l].seen <= user'.authVersion
                            /\ login'[l].seen = user'.authVersion => login'[l].decided = revoked'
                      /\ login'[l].step = "insert" =>
                            /\ Generation(l)' <= user'.authVersion
                            /\ Generation(l)' = user'.authVersion => login'[l].decided = revoked'
                      /\ session'[l] = user'.authVersion => login'[l].decided = revoked'
                      /\ change'[l] /\ session'[l] # NoRow => login'[l].decided = revoked'
      BY DEF CurrentIsUnrevoked
  <2>1. session'[l] = user'.authVersion => session'[l] # NoRow
      BY TypeFacts
  <2>2. session'[l] # NoRow => login'[l].decided = revoked'
      BY <1>5
  <2> QED BY <1>3, <1>4, <2>1, <2>2, TypeFacts
<1>7. \A l \in Logins : Holds(l)' => l \in kept
  <2> SUFFICES ASSUME NEW l \in Logins, Holds(l)' PROVE l \in kept
      OBVIOUS
  <2>1. ~(login'[l].step = "insert" /\ Generation(l)' = user'.authVersion)
      BY <1>3, <1>4, TypeFacts
  <2>2. session'[l] = user'.authVersion
      BY <2>1 DEF Holds
  <2> QED BY <1>5, <2>2, TypeFacts
<1>8. OneHolder'
    BY <1>7 DEF OneHolder
<1> QED BY <1>1, <1>2, <1>6, <1>8 DEF IInv

LEMMA ChangePasswordStep == ASSUME IInv, NEW l \in Logins, ChangePasswordWrite(l) PROVE IInv'
<1> DEFINE kept == IF session[l] = NoRow THEN {} ELSE {l}
<1>1. user' \in User /\ user'.authVersion = user.authVersion + 1
  <2>1. PICK row \in User :
           /\ row.authVersion = user.authVersion
           /\ user' = [row EXCEPT !.authVersion = row.authVersion + 1]
    <3>1. [user EXCEPT !.password = user.password + 1] \in User
        BY TypeFacts DEF User
    <3>2. /\ [user EXCEPT !.password = user.password + 1].authVersion = user.authVersion
          /\ user' = [[user EXCEPT !.password = user.password + 1]
                        EXCEPT !.authVersion = user.authVersion + 1]
        BY TypeFacts DEF User, ChangePasswordWrite
    <3> QED BY <3>1, <3>2
  <2> QED BY <2>1, TypeFacts DEF User
<1>2. UNCHANGED <<role, login, binding, revoked, interventions>>
    BY DEF ChangePasswordWrite
<1>3. session' = [k \in Logins |-> IF k \in kept THEN user'.authVersion ELSE NoRow]
    BY <1>1 DEF ChangePasswordWrite, NoSessions
<1>4. change[l] /\ (session[l] # NoRow => login[l].decided = revoked)
    BY DEF ChangePasswordWrite, IInv, CurrentIsUnrevoked
<1>5. change' \in [Logins -> BOOLEAN] /\ \A k \in Logins : change'[k] => change[k]
    BY DEF ChangePasswordWrite, IInv, TypeOK
<1>6. interventions' \in 0..MaxInterventions /\ revoked' \in 0..interventions'
    BY <1>2 DEF IInv, TypeOK
<1>7. kept \in SUBSET Logins /\ \A i, k \in kept : i = k
    OBVIOUS
<1>8. \A k \in kept : session[k] # NoRow /\ login[k].decided = revoked'
    BY <1>2, <1>4
<1> HIDE DEF kept
<1> QED BY <1>1, <1>2, <1>3, <1>5, <1>6, <1>7, <1>8, AdvanceStep

LEMMA RevocationStep ==
    ASSUME IInv, ResetPassword \/ \E active \in BOOLEAN : SetStatus(active)
    PROVE  IInv'
<1>1. user' \in User /\ user'.authVersion = user.authVersion + 1
  <2>1. PICK row \in User : row.authVersion = user.authVersion /\ user' = Revoked(row)
    <3>1. CASE ResetPassword
      <4>1. /\ [user EXCEPT !.password = @ + 1] \in User
            /\ [user EXCEPT !.password = @ + 1].authVersion = user.authVersion
          BY TypeFacts DEF User
      <4> QED BY <3>1, <4>1 DEF ResetPassword
    <3>2. ASSUME NEW active \in BOOLEAN, SetStatus(active)
          PROVE  \E row \in User : row.authVersion = user.authVersion /\ user' = Revoked(row)
      <4>1. /\ [user EXCEPT !.active = active] \in User
            /\ [user EXCEPT !.active = active].authVersion = user.authVersion
          BY TypeFacts DEF User
      <4> QED BY <3>2, <4>1 DEF SetStatus
    <3> QED BY <3>1, <3>2
  <2> QED BY <2>1, TypeFacts DEF Revoked, User
<1>2. UNCHANGED <<role, login, change, binding>>
    BY DEF ResetPassword, SetStatus
<1>3. session' = [l \in Logins |-> IF l \in {} THEN user'.authVersion ELSE NoRow]
    BY DEF ResetPassword, SetStatus, NoSessions
<1>4. interventions' \in 0..MaxInterventions /\ revoked' \in 0..interventions'
  <2>1. Intervene /\ revoked' = revoked + 1
      BY DEF ResetPassword, SetStatus
  <2> QED BY <2>1, AccessAssumption DEF Intervene, IInv, TypeOK
<1>5. change \in [Logins -> BOOLEAN]
    BY DEF IInv, TypeOK
<1>6. {} \in SUBSET Logins
    OBVIOUS
<1> QED BY <1>1, <1>2, <1>3, <1>4, <1>5, <1>6, AdvanceStep

-----------------------------------------------------------------------------
LEMMA StutterStep == IInv /\ UNCHANGED vars => IInv'
BY DEF IInv, TypeOK, RowsAreInserted, CurrentIsUnrevoked, OneHolder, Holds, Generation, vars

LEMMA NextInvariant == IInv /\ [Next]_vars => IInv'
<1> SUFFICES ASSUME IInv, [Next]_vars PROVE IInv'
    OBVIOUS
<1>1. ASSUME NEW l \in Logins, NEW d \in Devices \cup {None}, PassesGate(l, d) PROVE IInv'
    BY <1>1, EarlySteps
<1>2. ASSUME NEW l \in Logins, LoginStep(l) PROVE IInv'
    BY <1>2, EarlySteps, BeforeCreateStep, BumpStep, InsertStep, LateSteps DEF LoginStep
<1>3. ASSUME NEW l \in Logins,
             SignOut(l) \/ (\E d \in Devices : AcceptedScan(l, d)) \/ ChangePasswordRead(l)
                \/ UnregisterDevice(l)
      PROVE IInv'
    BY <1>3, OwnerSteps
<1>4. ASSUME NEW l \in Logins, ChangePasswordWrite(l) PROVE IInv'
    BY <1>4, ChangePasswordStep
<1>5. CASE CooldownElapses \/ ReleaseDevice
    BY <1>5, ReleaseSteps
<1>6. CASE ResetPassword \/ \E active \in BOOLEAN : SetStatus(active)
    BY <1>6, RevocationStep
<1>7. CASE UNCHANGED vars
    BY <1>7, StutterStep
<1> QED BY <1>1, <1>2, <1>3, <1>4, <1>5, <1>6, <1>7 DEF Next

-----------------------------------------------------------------------------
\* Every variable keeps its type: no session is of a generation the account has
\* not reached.
THEOREM AccessTypeCorrect == Spec => []TypeOK
<1>1. IInv => TypeOK
    BY DEF IInv
<1> QED BY <1>1, InitInvariant, NextInvariant, PTL DEF Spec

\* However many logins and password changes of a student overlap, at most one
\* session of the account is valid.
THEOREM OnePlaceAtATime == Spec => []SingleActiveSession
<1>1. IInv => SingleActiveSession
    BY DEF IInv, OneHolder, Holds, SingleActiveSession, Valid
<1> QED BY <1>1, InitInvariant, NextInvariant, PTL DEF Spec

\* No session outlasts a reset or a change of status that came after its generation
\* was decided, inserted or not.
THEOREM RevocationIsComplete == Spec => []RevocationReachesDecided
<1>1. IInv => RevocationReachesDecided
    BY DEF IInv, CurrentIsUnrevoked, RevocationReachesDecided, Valid
<1> QED BY <1>1, InitInvariant, NextInvariant, PTL DEF Spec
=============================================================================
