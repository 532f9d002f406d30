--------------------------- MODULE AccountAccess ---------------------------
(***************************************************************************)
(* One account: its password, its authVersion, its sessions and, for a     *)
(* student, the mobile device it is bound to.  A session is valid while    *)
(* its generation is the account's authVersion.  Logins, password changes, *)
(* scans and the interventions of staff interleave between their reads     *)
(* and writes; only what one transaction does is one step.                 *)
(*                                                                         *)
(* The credential check and the session row belong to the authentication   *)
(* library, its hooks to the backend.  A cooldown is in force or not: its  *)
(* length is left out; so is a change of the account's role.               *)
(***************************************************************************)
EXTENDS Integers, FiniteSets

CONSTANTS
    Logins,          \* login requests; each may create the session of its name
    Devices,         \* installation ids the clients send
    MaxInterventions,\* bound: password resets, status changes, device operations
    None

ASSUME AccessAssumption == MaxInterventions \in Nat /\ None \notin Devices

VARIABLES
    role,      \* "student" or "teacher"
    user,      \* the row of the account
    login,     \* the login requests
    session,   \* the generation of each session row, or NoRow
    change,    \* has a session a password change under way (account read, not written)?
    binding,   \* the registerBinding of each session between read and write
    revoked,   \* history: how often staff revoked the account's sessions
    interventions

vars == <<role, user, login, session, change, binding, revoked, interventions>>

NoRow == -1

User == [password : Nat, active : BOOLEAN, authVersion : Nat,
         bound : Devices \cup {None}, cooldown : BOOLEAN]
Login == [step : {"new", "gated", "verified", "bump", "insert", "after", "keep", "replace",
                  "bind", "done", "failed"},
          device : Devices \cup {None},      \* the device, or None in a browser
          password : Nat, seen : Nat,        \* what was typed; the authVersion read
          verified : Nat, decided : Nat]     \* history: revocations until the password was
                                             \* verified, until the generation was decided
NewLogin == [step |-> "new", device |-> None, password |-> 0, seen |-> 0,
             verified |-> 0, decided |-> 0]

TypeOK ==
    /\ role \in {"student", "teacher"}
    /\ user \in User
    /\ login \in [Logins -> Login]
    /\ session \in [Logins -> {NoRow} \cup 0..user.authVersion]
    /\ change \in [Logins -> BOOLEAN]
    /\ binding \in [Logins -> Devices \cup {None}]
    /\ revoked \in 0..interventions
    /\ interventions \in 0..MaxInterventions

Init ==
    /\ role \in {"student", "teacher"}
    /\ user = [password |-> 0, active |-> TRUE, authVersion |-> 0, bound |-> None, cooldown |-> FALSE]
    /\ login = [l \in Logins |-> NewLogin]
    /\ session = [l \in Logins |-> NoRow]
    /\ change = [l \in Logins |-> FALSE]
    /\ binding = [l \in Logins |-> None]
    /\ revoked = 0 /\ interventions = 0

NoSessions == [l \in Logins |-> NoRow]

\* What the authenticator of every request asks of a session.
Valid(l) == session[l] # NoRow /\ user.active /\ session[l] = user.authVersion

-----------------------------------------------------------------------------
(* Logging in *)

\* Credentials and status are in order, and a student's mobile login is not
\* cooled down.
PassesGate(l, device) ==
    /\ login[l].step = "new"
    /\ user.active
    /\ role = "teacher" => device = None
    /\ role = "student" /\ device # None => ~user.cooldown
    /\ login' = [login EXCEPT ![l] = [NewLogin EXCEPT !.step = "gated", !.device = device,
                                                      !.password = user.password]]
    /\ UNCHANGED <<role, user, session, change, binding, revoked, interventions>>

\* The library checks the password again ...
VerifiesPassword(l) ==
    /\ login[l].step = "gated"
    /\ login' = [login EXCEPT
                     ![l].step = IF login[l].password = user.password THEN "verified" ELSE "failed",
                     ![l].verified = revoked]
    /\ UNCHANGED <<role, user, session, change, binding, revoked, interventions>>

\* ... the hook reads the account and decides the generation of the session ...
BeforeCreate(l) ==
    /\ login[l].step = "verified"
    /\ login' = [login EXCEPT
                     ![l].step = IF ~user.active THEN "failed"
                                 ELSE IF role = "student" THEN "bump" ELSE "insert",
                     ![l].seen = user.authVersion,
                     ![l].decided = revoked]
    /\ UNCHANGED <<role, user, session, change, binding, revoked, interventions>>

\* ... which for a student advances authVersion ...
BumpVersion(l) ==
    /\ login[l].step = "bump"
    /\ user' = [user EXCEPT !.authVersion = @ + 1]
    /\ login' = [login EXCEPT ![l].step = "insert"]
    /\ UNCHANGED <<role, session, change, binding, revoked, interventions>>

GenerationIsCurrent(l) == user.authVersion      \* faulty: stamped when the row is written
Generation(l) == IF role = "student" THEN login[l].seen + 1 ELSE login[l].seen

\* ... the row is inserted ...
InsertSession(l) ==
    /\ login[l].step = "insert"
    /\ session' = [session EXCEPT ![l] = Generation(l)]
    /\ login' = [login EXCEPT ![l].step = "after"]
    /\ UNCHANGED <<role, user, change, binding, revoked, interventions>>

\* ... and the second hook compares: a session overtaken meanwhile goes.
AfterCreate(l) ==
    /\ login[l].step = "after"
    /\ login' = [login EXCEPT ![l].step = IF Generation(l) = user.authVersion /\ role = "student"
                                          THEN "replace" ELSE "keep"]
    /\ session' = [session EXCEPT ![l] = IF Generation(l) = user.authVersion THEN @ ELSE NoRow]
    /\ UNCHANGED <<role, user, change, binding, revoked, interventions>>

\* A student's login deletes every other row.
ReplaceOthers(l) ==
    /\ login[l].step = "replace"
    /\ session' = [NoSessions EXCEPT ![l] = session[l]]
    /\ login' = [login EXCEPT ![l].step = "keep"]
    /\ UNCHANGED <<role, user, change, binding, revoked, interventions>>

\* registerBinding reads: a changed device, and no cooldown.
Binds(device) == role = "student" /\ user.bound # device /\ ~user.cooldown

\* A mobile login then registers the device; the client has its token.
LoginAnswered(l) ==
    /\ login[l].step = "keep"
    /\ \/ /\ login[l].device # None /\ Binds(login[l].device)
          /\ binding' = [binding EXCEPT ![l] = login[l].device]
          /\ login' = [login EXCEPT ![l].step = "bind"]
       \/ /\ login[l].device = None \/ ~Binds(login[l].device)
          /\ login' = [login EXCEPT ![l].step = "done"]
          /\ UNCHANGED binding
    /\ UNCHANGED <<role, user, session, change, revoked, interventions>>

\* The binding that was read as needed is written.
BindingWritten(l) ==
    /\ binding[l] # None
    /\ user' = [user EXCEPT !.bound = binding[l]]
    /\ binding' = [binding EXCEPT ![l] = None]
    /\ login' = [login EXCEPT ![l].step = "done"]
    /\ UNCHANGED <<role, session, change, revoked, interventions>>

-----------------------------------------------------------------------------
(* The owner of the account *)

SignOut(l) ==
    /\ Valid(l)
    /\ session' = [session EXCEPT ![l] = NoRow]
    /\ UNCHANGED <<role, user, login, change, binding, revoked, interventions>>

\* A scan of a session: refused while cooled down and unbound.  After it was
\* accepted the device of the evidence is registered, a browser's id too.  The
\* request's authentication, the gate and the read of the binding are one step.
AcceptedScan(l, device) ==
    /\ Valid(l) /\ role = "student" /\ login[l].step = "done"
    /\ login[l].device \in {device, None}
    /\ binding[l] = None
    /\ user.bound # None \/ ~user.cooldown
    /\ Binds(device)
    /\ binding' = [binding EXCEPT ![l] = device]
    /\ UNCHANGED <<role, user, login, session, change, revoked, interventions>>

Intervene == interventions < MaxInterventions /\ interventions' = interventions + 1

\* A password change of a valid session reads the account ...
ChangePasswordRead(l) ==
    /\ Valid(l) /\ ~change[l]
    /\ Intervene
    /\ change' = [change EXCEPT ![l] = TRUE]
    /\ UNCHANGED <<role, user, login, session, binding, revoked>>

\* ... and, the new hash made, sets it: the session, if it has a row still, is
\* carried over to the new authVersion, and every other one deleted.
ChangePasswordWrite(l) ==
    /\ change[l]
    /\ user' = [user EXCEPT !.password = @ + 1, !.authVersion = @ + 1]
    /\ session' = [NoSessions EXCEPT ![l] = IF session[l] = NoRow THEN NoRow ELSE user.authVersion + 1]
    /\ change' = [change EXCEPT ![l] = FALSE]
    /\ UNCHANGED <<role, login, binding, revoked, interventions>>

\* Unregister clears the binding, deletes the sessions and starts the cooldown.
UnregisterDevice(l) ==
    /\ Valid(l) /\ role = "student"
    /\ Intervene
    /\ user' = [user EXCEPT !.bound = None, !.cooldown = TRUE]
    /\ session' = NoSessions
    /\ UNCHANGED <<role, login, change, binding, revoked>>

CooldownElapses ==
    /\ user.cooldown
    /\ user' = [user EXCEPT !.cooldown = FALSE]
    /\ UNCHANGED <<role, login, session, change, binding, revoked, interventions>>

-----------------------------------------------------------------------------
(* Staff *)

KeepsVersion(row) == row                       \* faulty: the rows are deleted, authVersion stays
Revoked(row) == [row EXCEPT !.authVersion = @ + 1]

\* An administrator or the teacher sets a temporary password.
ResetPassword ==
    /\ Intervene
    /\ user' = Revoked([user EXCEPT !.password = @ + 1])
    /\ session' = NoSessions
    /\ revoked' = revoked + 1
    /\ UNCHANGED <<role, login, change, binding>>

SetStatus(active) ==
    /\ Intervene
    /\ user' = Revoked([user EXCEPT !.active = active])
    /\ session' = NoSessions
    /\ revoked' = revoked + 1
    /\ UNCHANGED <<role, login, change, binding>>

\* The teacher's emergency release; sessions go if there was anything to release.
ReleaseDevice ==
    /\ role = "student"
    /\ Intervene
    /\ user' = [user EXCEPT !.bound = None, !.cooldown = FALSE]
    /\ session' = IF user.bound # None \/ user.cooldown THEN NoSessions ELSE session
    /\ UNCHANGED <<role, login, change, binding, revoked>>

-----------------------------------------------------------------------------
LoginStep(l) ==
    \/ VerifiesPassword(l) \/ BeforeCreate(l) \/ BumpVersion(l) \/ InsertSession(l)
    \/ AfterCreate(l) \/ ReplaceOthers(l) \/ LoginAnswered(l) \/ BindingWritten(l)

Next ==
    \/ \E l \in Logins :
           \/ \E device \in Devices \cup {None} : PassesGate(l, device)
           \/ LoginStep(l)
           \/ SignOut(l)
           \/ \E device \in Devices : AcceptedScan(l, device)
           \/ ChangePasswordRead(l) \/ ChangePasswordWrite(l)
           \/ UnregisterDevice(l)
    \/ CooldownElapses
    \/ ResetPassword
    \/ \E active \in BOOLEAN : SetStatus(active)
    \/ ReleaseDevice

Spec == Init /\ [][Next]_vars

-----------------------------------------------------------------------------
(* Properties *)

\* A student's account is signed in at one place: of the sessions that overlapping
\* logins and password changes leave behind, at most one is valid at any time.
SingleActiveSession ==
    role = "student" => \A l, k \in Logins : Valid(l) /\ Valid(k) => l = k

\* A session is valid only if its generation was decided after the last reset or
\* change of status: a login past the hook when staff revoked the sessions, whose
\* row was not there to be deleted, comes to nothing, and enabling the account
\* again does not bring it back.
RevocationReachesDecided == \A l \in Logins : Valid(l) => login[l].decided = revoked

\* "the session revocation below also forces a fresh login"
\* (src/backend/src/users/users.service.ts:394-395): whoever is signed in had the
\* password verified after the last revocation.  The hook does not look at the
\* password, so a reset between the library's check and the hook is not noticed.
RevocationForcesFreshLogin == \A l \in Logins : Valid(l) => login[l].verified = revoked

\* "Never binds while a cooldown is active"
\* (src/backend/src/users/device-binding.service.ts:75).
NeverBindsDuringCooldown ==
    [][user'.bound # user.bound /\ user'.bound # None => ~user.cooldown]_vars
=============================================================================
