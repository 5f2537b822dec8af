------------------------------ MODULE Admins ------------------------------
(***************************************************************************)
(* Administrator accounts and their sessions: the owners' requests that     *)
(* change accounts, the logins that open sessions and migrate a legacy      *)
(* password hash, and the creation of the first owner at start.  Requests   *)
(* are handled concurrently; one SQL statement is one step, and only the    *)
(* bootstrap runs in a transaction.  Passwords are numbered per account in  *)
(* the order they were set: each is hashed with a salt of its own, so two   *)
(* stored hashes are never equal by chance.                                 *)
(***************************************************************************)
EXTENDS Naturals, FiniteSets

CONSTANTS
    Admins,         \* ids of admins (AUTOINCREMENT: never reused)
    Requests,       \* concurrent requests of owners
    Logins,         \* concurrent logins
    Sessions,       \* sessions that may be open at once
    Starters,       \* processes that start on this database
    MaxPasswords,   \* bound: how often the password of an account is changed
    Nothing         \* an omitted value; nobody; no session

ASSUME NothingAssumption == Nothing \notin Admins /\ Nothing \notin Starters
ASSUME MaxPasswordsAssumption == MaxPasswords \in Nat

Roles == {"owner", "operator", "viewer"}
\* What a client may send: the names of earlier versions are still accepted.
RoleInputs == Roles \cup {"super_admin", "support_admin"}

ASSUME NothingIsNoRole == Nothing \notin RoleInputs

VARIABLES
    role,           \* [Admins -> STRING]: admins.role, or that there is no row
    hash,           \* [Admins -> record]: the password it encodes, needs rehash
    chosen,         \* [Admins -> Nat]: history: how often a password was set
    session,        \* [Sessions -> record]: admin_sessions
    missed,         \* SUBSET Admins: history: a deletion of sessions failed
    request,        \* [Requests -> record]: the handler's locals
    login,          \* [Logins -> record]: the login's locals
    starter,        \* [Starters -> STRING]: ensureBootstrapOwner's next step
    writer          \* who holds SQLite's write lock across statements

vars == <<role, hash, chosen, session, missed, request, login, starter, writer>>

Versions == 0 .. MaxPasswords
Hash == [version : Versions, legacy : BOOLEAN]

\* A PUT changes a password, a role or both; a POST creates; a DELETE deletes.
Changes ==
    [kind : {"update"}, target : Admins, password : BOOLEAN, role : RoleInputs \cup {Nothing}]
    \cup [kind : {"create"}, target : Admins, password : {TRUE}, role : RoleInputs]
    \cup [kind : {"delete"}, target : Admins, password : {FALSE}, role : {Nothing}]

Idle == [stage |-> "idle"]
Handling == [stage : {"authorized", "identified", "read", "stored", "allowed", "changed"},
             cookie : Sessions, actor : Admins \cup {Nothing}, change : Changes,
             current : Roles \cup {Nothing}]
Attempts == [admin : Admins, hash : Hash, stage : {"read", "verified"}]

\* verified: the newest password its holder is known to have had; late: a
\* change of the password came between its login's read and its INSERT.
Opened == [admin : Admins, verified : Versions, late : BOOLEAN]

Exists(a) == role[a] \in Roles
Owners == {a \in Admins : role[a] = "owner"}
Live(s) == session[s] # Nothing

TypeOK ==
    /\ role \in [Admins -> Roles \cup {"absent", "deleted"}]
    /\ hash \in [Admins -> Hash]
    /\ chosen \in [Admins -> Versions]
    /\ session \in [Sessions -> Opened \cup {Nothing}]
    /\ missed \subseteq Admins
    /\ request \in [Requests -> Handling \cup {Idle}]
    /\ login \in [Logins -> Attempts \cup {Idle}]
    /\ starter \in [Starters -> {"new", "empty", "started"}]
    /\ writer \in Starters \cup {Nothing}

\* An empty database, or one of an earlier run with an owner; anyone may be
\* signed in.
Init ==
    /\ role \in [Admins -> Roles \cup {"absent"}]
    /\ (\E a \in Admins : Exists(a)) => Owners # {}
    /\ hash \in [Admins -> [version : {0}, legacy : BOOLEAN]]
    /\ \A a \in Admins : ~Exists(a) => ~hash[a].legacy
    /\ chosen = [a \in Admins |-> 0]
    /\ session \in [Sessions -> [admin : {a \in Admins : Exists(a)}, verified : {0},
                                 late : {FALSE}] \cup {Nothing}]
    /\ missed = {}
    /\ request = [r \in Requests |-> Idle]
    /\ login = [l \in Logins |-> Idle]
    /\ starter = [p \in Starters |-> "new"]
    /\ writer = Nothing

\* A write waits for the transaction that holds the lock.
Unlocked == writer = Nothing

\* Variant for the checks: the role is stored as it was sent.
StoredAsSent(sent) == sent

normalizeAdminRole(sent) ==
    CASE sent = "super_admin" -> "owner"
      [] sent = "support_admin" -> "operator"
      [] OTHER -> sent

-----------------------------------------------------------------------------
(* An owner's request.                                                      *)

accounts == <<role, hash, chosen>>
processes == <<login, starter, writer>>

Goto(r, stage) == request' = [request EXCEPT ![r].stage = stage]
Finish(r) == request' = [request EXCEPT ![r] = Idle]

Handles(r, stage) == request[r] # Idle /\ request[r].stage = stage

\* requireSuperAdmin: the session and its account's present role.
Authorize(r) ==
    /\ request[r] = Idle
    /\ \E s \in Sessions, change \in Changes :
        /\ Live(s) /\ session[s].admin \in Owners
        /\ request' = [request EXCEPT ![r] =
               [stage |-> "authorized", cookie |-> s, actor |-> Nothing,
                change |-> change, current |-> Nothing]]
    /\ UNCHANGED <<accounts, session, missed, processes>>

CreateAdmin(r) ==
    /\ Handles(r, "authorized") /\ Unlocked
    /\ LET change == request[r].change IN
        /\ change.kind = "create"
        /\ role[change.target] = "absent"
        /\ role' = [role EXCEPT ![change.target] = normalizeAdminRole(change.role)]
        /\ hash' = [hash EXCEPT ![change.target] = [version |-> 0, legacy |-> FALSE]]
    /\ Finish(r)
    /\ UNCHANGED <<chosen, session, missed, processes>>

\* The username is taken, a statement fails, or the process stops.
AbortRequest(r) ==
    /\ request[r] # Idle
    /\ missed' = IF Handles(r, "stored") THEN missed \cup {request[r].change.target} ELSE missed
    /\ Finish(r)
    /\ UNCHANGED <<accounts, session, processes>>

\* The handlers read the session again and go on when it has gone: then
\* nobody is making the request (session.AdminID is 0).
Identify(r) ==
    /\ Handles(r, "authorized")
    /\ LET change == request[r].change
           own == session[request[r].cookie]
           actor == IF own # Nothing /\ Exists(own.admin) THEN own.admin ELSE Nothing
       IN  /\ change.kind # "create"
           /\ IF change.kind = "delete" /\ change.target = actor THEN Finish(r)
              ELSE request' = [request EXCEPT ![r].stage = "identified", ![r].actor = actor]
    /\ UNCHANGED <<accounts, session, missed, processes>>

ReadTarget(r) ==
    /\ Handles(r, "identified")
    /\ LET target == request[r].change.target IN
        IF Exists(target)
        THEN request' = [request EXCEPT ![r].stage = "read", ![r].current = role[target]]
        ELSE Finish(r)
    /\ UNCHANGED <<accounts, session, missed, processes>>

SetPassword(r) ==
    /\ Handles(r, "read") /\ Unlocked
    /\ LET target == request[r].change.target IN
        /\ request[r].change.password
        /\ chosen[target] < MaxPasswords
        /\ IF Exists(target)
           THEN /\ hash' = [hash EXCEPT ![target] = [version |-> chosen[target] + 1, legacy |-> FALSE]]
                /\ chosen' = [chosen EXCEPT ![target] = @ + 1]
           ELSE UNCHANGED <<hash, chosen>>
    /\ Goto(r, "stored")
    /\ UNCHANGED <<role, session, missed, processes>>

\* Variant for the checks: a request about its own account keeps every session.
OwnAccountKept(r, s) == session[s].admin = request[r].change.target /\ session[s].admin # request[r].actor

\* WHERE admin_id = ? AND id != ?
OtherSessionOfTarget(r, s) == session[s].admin = request[r].change.target /\ s # request[r].cookie

\* The session that changed the password is known to have the new one.
DropOtherSessions(r) ==
    /\ Handles(r, "stored") /\ Unlocked
    /\ LET target == request[r].change.target IN
        session' = [s \in Sessions |->
            IF ~Live(s) \/ session[s].admin # target THEN session[s]
            ELSE IF OtherSessionOfTarget(r, s) THEN Nothing
            ELSE IF s = request[r].cookie
                 THEN [session[s] EXCEPT !.verified = chosen[target], !.late = FALSE]
            ELSE session[s]]
    /\ IF request[r].change.role = Nothing THEN Finish(r)
       ELSE request' = [request EXCEPT ![r].stage = "read", ![r].change.password = FALSE]
    /\ UNCHANGED <<accounts, missed, processes>>

\* The deletion fails; its error is ignored.
LeaveSessions(r) ==
    /\ Handles(r, "stored")
    /\ missed' = missed \cup {request[r].change.target}
    /\ IF request[r].change.role = Nothing THEN Finish(r)
       ELSE request' = [request EXCEPT ![r].stage = "read", ![r].change.password = FALSE]
    /\ UNCHANGED <<accounts, session, processes>>

\* The count is one statement and the write is another.
TakesOwner(change, current) ==
    /\ current = "owner"
    /\ change.kind = "delete" \/ normalizeAdminRole(change.role) # "owner"

CheckOwners(r) ==
    /\ Handles(r, "read")
    /\ LET change == request[r].change
           refused == \/ change.kind = "update" /\ change.role = Nothing
                      \/ change.kind = "update" /\ change.target = request[r].actor
                      \/ TakesOwner(change, request[r].current) /\ Cardinality(Owners) <= 1
       IN  /\ ~change.password
           /\ IF refused THEN Finish(r) ELSE Goto(r, "allowed")
    /\ UNCHANGED <<accounts, session, missed, processes>>

ChangeRole(r) ==
    /\ Handles(r, "allowed") /\ Unlocked
    /\ LET change == request[r].change IN
        /\ change.kind = "update"
        /\ role' = IF Exists(change.target)
                   THEN [role EXCEPT ![change.target] = normalizeAdminRole(change.role)]
                   ELSE role
    /\ Goto(r, "changed")
    /\ UNCHANGED <<hash, chosen, session, missed, processes>>

\* After a change of role the sessions go, or stay when the statement fails: the
\* error is ignored.  A deletion begins with the sessions and stops if it fails.
DropSessions(r) ==
    /\ request[r] # Idle /\ Unlocked
    /\ request[r].stage = (IF request[r].change.kind = "delete" THEN "allowed" ELSE "changed")
    /\ session' = [s \in Sessions |->
           IF Live(s) /\ session[s].admin = request[r].change.target THEN Nothing ELSE session[s]]
    /\ IF request[r].change.kind = "delete" THEN Goto(r, "changed") ELSE Finish(r)
    /\ UNCHANGED <<accounts, missed, processes>>

DeleteAdmin(r) ==
    /\ Handles(r, "changed") /\ Unlocked
    /\ request[r].change.kind = "delete"
    /\ LET target == request[r].change.target IN
        role' = IF Exists(target) THEN [role EXCEPT ![target] = "deleted"] ELSE role
    /\ Finish(r)
    /\ UNCHANGED <<hash, chosen, session, missed, processes>>

-----------------------------------------------------------------------------
(* authenticateAdministrator: the hash is read, verified outside SQLite for  *)
(* as long as the hasher takes, and replaced when it needs to be; then       *)
(* apiLogin inserts the session.                                             *)

ReadHash(l) ==
    /\ login[l] = Idle
    /\ \E a \in Admins :
        /\ Exists(a)
        /\ login' = [login EXCEPT ![l] = [admin |-> a, hash |-> hash[a], stage |-> "read"]]
    /\ UNCHANGED <<accounts, session, missed, request, starter, writer>>

\* Variant for the checks: the replacement is written by id alone.
ReplaceById(l) == Exists(login[l].admin)

\* WHERE id = ? AND password_hash = ?
StillStored(l) == Exists(login[l].admin) /\ hash[login[l].admin] = login[l].hash

Rehash(l) ==
    /\ login[l] # Idle /\ login[l].stage = "read" /\ Unlocked
    /\ login[l].hash.legacy
    /\ hash' = IF StillStored(l)
               THEN [hash EXCEPT ![login[l].admin] = [version |-> login[l].hash.version,
                                                      legacy |-> FALSE]]
               ELSE hash
    /\ login' = [login EXCEPT ![l].stage = "verified"]
    /\ UNCHANGED <<role, chosen, session, missed, request, starter, writer>>

\* A replacement that failed does not stop the login.  Session ids are random:
\* none is used again while a request still carries it.
OpenSession(l) ==
    /\ login[l] # Idle /\ Unlocked
    /\ \E s \in Sessions :
        /\ ~Live(s) /\ \A r \in Requests : request[r] # Idle => request[r].cookie # s
        /\ LET a == login[l].admin
               version == login[l].hash.version
           IN  session' = [session EXCEPT ![s] =
                   [admin |-> a, verified |-> version, late |-> version # chosen[a]]]
    /\ login' = [login EXCEPT ![l] = Idle]
    /\ UNCHANGED <<accounts, missed, request, starter, writer>>

\* A wrong password, a failed statement, or the process stops.
EndLogin(l) ==
    /\ login[l] # Idle
    /\ login' = [login EXCEPT ![l] = Idle]
    /\ UNCHANGED <<accounts, session, missed, request, starter, writer>>

EndSession(s) ==
    /\ Live(s) /\ Unlocked
    /\ session' = [session EXCEPT ![s] = Nothing]
    /\ UNCHANGED <<accounts, missed, request, processes>>

\* The cookie's own session.
Logout(s) == EndSession(s)

\* Its 24 hours are over: the next request with it, or the hourly cleanup.
Expire(s) == EndSession(s)

-----------------------------------------------------------------------------
(* ensureBootstrapOwner: BEGIN IMMEDIATE, count, INSERT, COMMIT.             *)

\* Variant for the checks: BEGIN takes no lock.
LockLater(p) == UNCHANGED writer

BeginImmediate(p) == writer = Nothing /\ writer' = p

\* While another start holds the lock the table is empty, so this one waits.
CountAdmins(p) ==
    /\ starter[p] = "new"
    /\ IF \E a \in Admins : Exists(a)
       THEN /\ starter' = [starter EXCEPT ![p] = "started"]
            /\ UNCHANGED writer
       ELSE /\ BeginImmediate(p)
            /\ starter' = [starter EXCEPT ![p] = "empty"]
    /\ UNCHANGED <<accounts, session, missed, request, login>>

InsertOwner(p) ==
    /\ starter[p] = "empty"
    /\ writer \in {p, Nothing}
    /\ \E a \in Admins :
        /\ role[a] = "absent"
        /\ role' = [role EXCEPT ![a] = "owner"]
        /\ hash' = [hash EXCEPT ![a] = [version |-> 0, legacy |-> FALSE]]
    /\ starter' = [starter EXCEPT ![p] = "started"]
    /\ writer' = Nothing
    /\ UNCHANGED <<chosen, session, missed, request, login>>

\* The password is missing or refused, or the process stops: ROLLBACK.  A
\* process that started may start again later.
StartAgain(p) ==
    /\ starter[p] # "new"
    /\ starter' = [starter EXCEPT ![p] = "new"]
    /\ writer' = IF writer = p THEN Nothing ELSE writer
    /\ UNCHANGED <<accounts, session, missed, request, login>>

-----------------------------------------------------------------------------

Next ==
    \/ \E r \in Requests :
        \/ Authorize(r) \/ CreateAdmin(r) \/ AbortRequest(r) \/ Identify(r) \/ ReadTarget(r)
        \/ SetPassword(r) \/ DropOtherSessions(r) \/ LeaveSessions(r)
        \/ CheckOwners(r) \/ ChangeRole(r) \/ DropSessions(r) \/ DeleteAdmin(r)
    \/ \E l \in Logins : ReadHash(l) \/ Rehash(l) \/ OpenSession(l) \/ EndLogin(l)
    \/ \E s \in Sessions : Logout(s) \/ Expire(s)
    \/ \E p \in Starters : CountAdmins(p) \/ InsertOwner(p) \/ StartAgain(p)

Spec == Init /\ [][Next]_vars

-----------------------------------------------------------------------------
(* Properties                                                                *)

\* An administrator's stored hash accepts the password that was last set for
\* it: a login that migrates the hash it read never brings an older password
\* back (authenticateAdministrator).
AcceptsTheChosenPassword ==
    \A a \in Admins : Exists(a) => hash[a].version = chosen[a]

\* "Invalidate all active sessions for this admin since password changed, except
\* the current one" (handlers_admins.go): a session whose holder is only known to
\* have had an older password is one whose login overlapped the change, or the
\* change is still to delete it, or that deletion failed.
SessionsEndWithThePassword ==
    \A s \in Sessions :
        Live(s) /\ ~session[s].late /\ session[s].verified < chosen[session[s].admin] =>
            \/ session[s].admin \in missed
            \/ \E r \in Requests : Handles(r, "stored") /\ request[r].change.target = session[s].admin

\* The same of every session, one inserted after the change by a login that had
\* read the old hash before it included.  The code does not promise it: apiLogin
\* does not look at the hash again, so this is checked by a configuration of its own.
SessionsRestOnThePassword ==
    \A s \in Sessions :
        Live(s) /\ session[s].verified < chosen[session[s].admin] =>
            \/ session[s].admin \in missed
            \/ \E r \in Requests : Handles(r, "stored") /\ request[r].change.target = session[s].admin

\* "serializes the empty-administrator check and insert ... so parallel startup
\* attempts cannot create two owners": the first owner is inserted only into a
\* database that has no administrator at that moment.
BootstrapOnlyWhenEmpty ==
    [][\A p \in Starters : starter[p] = "empty" /\ starter'[p] = "started" =>
        \A a \in Admins : ~Exists(a)]_vars

\* "Prevent changing role of the last owner", "Prevent deleting the last owner"
\* (handlers_admins.go): as long as there are administrators there is an owner.
OwnerRemains ==
    (\E a \in Admins : Exists(a)) => Owners # {}
=============================================================================
