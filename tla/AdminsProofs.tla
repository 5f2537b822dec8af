--------------------------- MODULE AdminsProofs ---------------------------
(***************************************************************************)
(* Proofs about Admins, for any number of accounts, requests, logins,       *)
(* sessions and starting processes, and any number of password changes.     *)
(***************************************************************************)
EXTENDS Admins, TLAPS

\* What a request's stage says of its change: only a POST is done after the
\* authorization, only a PUT with a password has sessions to delete, and a PUT
\* is allowed only with a role to write.
Sound(q) ==
    q # Idle =>
        /\ q.stage # "authorized" => q.change.kind # "create"
        /\ q.stage = "stored" => q.change.kind = "update"
        /\ q.stage = "allowed" /\ q.change.kind = "update" => q.change.role # Nothing

RequestsAreSound == \A r \in Requests : Sound(request[r])

\* An id that was never used has had no password.
UnusedIsUnset == \A a \in Admins : role[a] = "absent" => chosen[a] = 0

\* A start that found the table empty holds the write lock, and the table
\* stays empty as long as it does.
EmptyIsLocked ==
    \A p \in Starters : starter[p] = "empty" => writer = p /\ \A a \in Admins : ~Exists(a)

AdminsInv ==
    /\ TypeOK
    /\ RequestsAreSound
    /\ UnusedIsUnset
    /\ EmptyIsLocked
    /\ AcceptsTheChosenPassword
    /\ SessionsEndWithThePassword

-----------------------------------------------------------------------------
(* Data.                                                                     *)

\* A stored role is one of the three present names.
LEMMA RoleNames ==
  /\ "absent" \notin Roles /\ "deleted" \notin Roles /\ Nothing \notin Roles
  /\ \A sent \in RoleInputs : normalizeAdminRole(sent) \in Roles
  BY NothingIsNoRole DEF Roles, RoleInputs, normalizeAdminRole

\* The fields of a change, and which of them its kind fixes.
LEMMA ChangeFacts ==
  ASSUME NEW change \in Changes
  PROVE  /\ change.kind \in {"update", "create", "delete"} /\ change.target \in Admins
         /\ change.password \in BOOLEAN /\ change.role \in RoleInputs \cup {Nothing}
         /\ change.kind = "create" => change.role \in RoleInputs
         /\ change.kind = "delete" => ~change.password
  BY DEF Changes

\* A PUT whose password is stored goes on as a PUT of the role.
LEMMA PasswordIsDone ==
  ASSUME NEW change \in Changes, change.kind = "update"
  PROVE  LET rest == [change EXCEPT !.password = FALSE] IN
           rest \in Changes /\ rest.kind = "update" /\ rest.target = change.target
  BY DEF Changes

\* The locals of a request at work.
LEMMA HandlingFacts ==
  ASSUME NEW q \in Handling
  PROVE  /\ q # Idle /\ q.change \in Changes /\ q.cookie \in Sessions
         /\ q.stage \in {"authorized", "identified", "read", "stored", "allowed", "changed"}
  BY DEF Handling, Idle

\* A request's next stage leaves the other locals.
LEMMA NextStage ==
  ASSUME NEW q \in Handling,
         NEW stage \in {"identified", "read", "stored", "allowed", "changed"},
         NEW actor \in Admins \cup {Nothing}, NEW current \in Roles \cup {Nothing}
  PROVE  /\ [q EXCEPT !.stage = stage] \in Handling
         /\ [q EXCEPT !.stage = stage, !.actor = actor] \in Handling
         /\ [q EXCEPT !.stage = stage, !.current = current] \in Handling
  BY DEF Handling

-----------------------------------------------------------------------------

\* Initially nobody has changed anything.
LEMMA AdminsInit == Init => AdminsInv
<1> SUFFICES ASSUME Init PROVE AdminsInv
  OBVIOUS
<1>1. TypeOK
  <2>1. role \in [Admins -> Roles \cup {"absent", "deleted"}]
    BY DEF Init
  <2>2. hash \in [Admins -> Hash] /\ chosen \in [Admins -> Versions]
    BY MaxPasswordsAssumption DEF Init, Hash, Versions
  <2>3. session \in [Sessions -> Opened \cup {Nothing}]
    <3>1. [admin : {a \in Admins : Exists(a)}, verified : {0}, late : {FALSE}] \subseteq Opened
      <4>1. 0 \in Versions
        BY MaxPasswordsAssumption DEF Versions
      <4> QED
        BY <4>1 DEF Opened
    <3>2. \A S : session \in [Sessions -> S \cup {Nothing}] /\ S \subseteq Opened =>
            session \in [Sessions -> Opened \cup {Nothing}]
      OBVIOUS
    <3> QED
      BY <3>1, <3>2 DEF Init
  <2> QED
    BY <2>1, <2>2, <2>3 DEF Init, TypeOK
<1>2. RequestsAreSound /\ UnusedIsUnset /\ EmptyIsLocked
  BY DEF Init, RequestsAreSound, Sound, UnusedIsUnset, EmptyIsLocked
<1>3. AcceptsTheChosenPassword
  BY DEF Init, AcceptsTheChosenPassword
<1>4. SessionsEndWithThePassword
  <2> SUFFICES ASSUME NEW s \in Sessions, Live(s), session[s].verified < chosen[session[s].admin]
               PROVE  FALSE
    BY DEF SessionsEndWithThePassword
  <2>1. session[s].verified = 0 /\ session[s].admin \in Admins
    BY DEF Init, Live
  <2> QED
    BY <2>1 DEF Init
<1> QED
  BY <1>1, <1>2, <1>3, <1>4 DEF AdminsInv

-----------------------------------------------------------------------------
(* Steps of requests that write no table.                                    *)

\* Such a step keeps the invariant when the request's new locals are sound and
\* a deletion of sessions that is given up is remembered.
LEMMA RequestMoves ==
  ASSUME AdminsInv, NEW r \in Requests, NEW q \in Handling \cup {Idle}, Sound(q),
         request' = [request EXCEPT ![r] = q], UNCHANGED <<accounts, session, processes>>,
         missed \subseteq missed', missed' \subseteq Admins,
         Handles(r, "stored") => request[r].change.target \in missed'
  PROVE  AdminsInv'
<1>1. TypeOK'
  BY DEF AdminsInv, TypeOK, accounts, processes
<1>2. RequestsAreSound'
  BY DEF AdminsInv, TypeOK, RequestsAreSound
<1>3. UnusedIsUnset' /\ EmptyIsLocked' /\ AcceptsTheChosenPassword'
  BY DEF AdminsInv, UnusedIsUnset, EmptyIsLocked, AcceptsTheChosenPassword, Exists, accounts, processes
<1>4. SessionsEndWithThePassword'
  <2> SUFFICES ASSUME NEW s \in Sessions,
                      Live(s), ~session[s].late, session[s].verified < chosen[session[s].admin],
                      session[s].admin \notin missed'
               PROVE  \E w \in Requests : /\ Handles(w, "stored")'
                                          /\ request'[w].change.target = session[s].admin
    BY DEF SessionsEndWithThePassword, Live, accounts
  <2>1. PICK w \in Requests : Handles(w, "stored") /\ request[w].change.target = session[s].admin
    BY DEF AdminsInv, SessionsEndWithThePassword
  <2>2. w # r
    BY <2>1
  <2>3. request'[w] = request[w]
    BY <2>2 DEF AdminsInv, TypeOK
  <2> QED
    BY <2>1, <2>3 DEF Handles
<1> QED
  BY <1>1, <1>2, <1>3, <1>4 DEF AdminsInv

\* Authorize: the change is one a client may ask for.
LEMMA AuthorizeKeeps ==
  ASSUME AdminsInv, NEW r \in Requests, Authorize(r)
  PROVE  AdminsInv'
<1>1. PICK s \in Sessions, change \in Changes :
        request' = [request EXCEPT ![r] = [stage |-> "authorized", cookie |-> s, actor |-> Nothing,
                                           change |-> change, current |-> Nothing]]
  BY DEF Authorize
<1> DEFINE q == [stage |-> "authorized", cookie |-> s, actor |-> Nothing, change |-> change,
                 current |-> Nothing]
<1>2. q \in Handling
  BY DEF Handling
<1>3. Sound(q)
  BY DEF Sound
<1>4. ~Handles(r, "stored")
  BY DEF Authorize, Handles
<1>5. UNCHANGED <<accounts, session, processes>> /\ missed' = missed
  BY DEF Authorize
<1> HIDE DEF q
<1> QED
  BY <1>1, <1>2, <1>3, <1>4, <1>5, RequestMoves DEF AdminsInv, TypeOK, q

\* AbortRequest, and the refusals: a request that ends is sound.
LEMMA EndKeeps ==
  ASSUME AdminsInv, NEW r \in Requests, Finish(r), UNCHANGED <<accounts, session, processes>>,
         missed \subseteq missed', missed' \subseteq Admins,
         Handles(r, "stored") => request[r].change.target \in missed'
  PROVE  AdminsInv'
<1>1. Sound(Idle)
  BY DEF Sound
<1> QED
  BY <1>1, RequestMoves DEF Finish

\* A request at work has locals of their types.
LEMMA AtWork ==
  ASSUME TypeOK, NEW r \in Requests, request[r] # Idle
  PROVE  request[r] \in Handling
  BY DEF TypeOK

\* AbortRequest: its change of the password, if any, has its sessions left.
LEMMA AbortKeeps ==
  ASSUME AdminsInv, NEW r \in Requests, AbortRequest(r)
  PROVE  AdminsInv'
<1>1. request[r] \in Handling
  BY AtWork DEF AbortRequest, AdminsInv
<1>2. request[r].change.target \in Admins
  BY <1>1, HandlingFacts, ChangeFacts
<1> QED
  BY <1>2, EndKeeps DEF AbortRequest, AdminsInv, TypeOK

\* Identify: a POST has already been done.
LEMMA IdentifyKeeps ==
  ASSUME AdminsInv, NEW r \in Requests, Identify(r)
  PROVE  AdminsInv'
<1>1. request[r] \in Handling /\ request[r].stage = "authorized"
  BY AtWork DEF Identify, Handles, AdminsInv
<1>2. ~Handles(r, "stored")
  BY <1>1 DEF Handles
<1>3. UNCHANGED <<accounts, session, processes>> /\ missed' = missed
  BY DEF Identify
<1>4. CASE Finish(r)
  BY <1>2, <1>3, <1>4, EndKeeps DEF AdminsInv, TypeOK
<1>5. CASE ~Finish(r)
  <2> DEFINE own == session[request[r].cookie]
             actor == IF own # Nothing /\ Exists(own.admin) THEN own.admin ELSE Nothing
             q == [request[r] EXCEPT !.stage = "identified", !.actor = actor]
  <2>1. request[r].change.kind # "create" /\ request' = [request EXCEPT ![r] = q]
    BY <1>5 DEF Identify
  <2>2. actor \in Admins \cup {Nothing}
    BY <1>1, HandlingFacts DEF AdminsInv, TypeOK, Opened
  <2>3. q \in Handling
    <3> HIDE DEF actor
    <3> QED
      BY <1>1, <2>2, NextStage
  <2>4. q.stage = "identified" /\ q.change = request[r].change
    BY <1>1 DEF Handling
  <2>5. Sound(q)
    <3> HIDE DEF q
    <3> QED
      BY <2>1, <2>4 DEF Sound
  <2> HIDE DEF q
  <2> QED
    BY <1>2, <1>3, <2>1, <2>3, <2>5, RequestMoves DEF AdminsInv, TypeOK
<1> QED
  BY <1>4, <1>5

\* ReadTarget: the target's role is read for a PUT or a DELETE.
LEMMA ReadTargetKeeps ==
  ASSUME AdminsInv, NEW r \in Requests, ReadTarget(r)
  PROVE  AdminsInv'
<1>1. request[r] \in Handling /\ request[r].stage = "identified"
  BY AtWork DEF ReadTarget, Handles, AdminsInv
<1>2. ~Handles(r, "stored")
  BY <1>1 DEF Handles
<1>3. UNCHANGED <<accounts, session, processes>> /\ missed' = missed
  BY DEF ReadTarget
<1>4. CASE ~Exists(request[r].change.target)
  BY <1>2, <1>3, <1>4, EndKeeps DEF ReadTarget, AdminsInv, TypeOK
<1>5. CASE Exists(request[r].change.target)
  <2> DEFINE q == [request[r] EXCEPT !.stage = "read", !.current = role[request[r].change.target]]
  <2>1. request' = [request EXCEPT ![r] = q]
    BY <1>5 DEF ReadTarget
  <2>2. role[request[r].change.target] \in Roles
    BY <1>5 DEF Exists
  <2>3. q \in Handling
    BY <1>1, <2>2, NextStage
  <2>4. q.stage = "read" /\ q.change = request[r].change
    BY <1>1 DEF Handling
  <2>5. request[r].change.kind # "create"
    BY <1>1, HandlingFacts DEF AdminsInv, RequestsAreSound, Sound
  <2>6. Sound(q)
    <3> HIDE DEF q
    <3> QED
      BY <2>4, <2>5 DEF Sound
  <2> HIDE DEF q
  <2> QED
    BY <1>2, <1>3, <2>1, <2>3, <2>6, RequestMoves DEF AdminsInv, TypeOK
<1> QED
  BY <1>4, <1>5

\* CheckOwners: only a PUT that names a role goes on to write it.
LEMMA CheckOwnersKeeps ==
  ASSUME AdminsInv, NEW r \in Requests, CheckOwners(r)
  PROVE  AdminsInv'
<1>1. request[r] \in Handling /\ request[r].stage = "read"
  BY AtWork DEF CheckOwners, Handles, AdminsInv
<1>2. ~Handles(r, "stored")
  BY <1>1 DEF Handles
<1>3. UNCHANGED <<accounts, session, processes>> /\ missed' = missed
  BY DEF CheckOwners
<1>4. CASE Finish(r)
  BY <1>2, <1>3, <1>4, EndKeeps DEF AdminsInv, TypeOK
<1>5. CASE ~Finish(r)
  <2> DEFINE q == [request[r] EXCEPT !.stage = "allowed"]
             refused == \/ request[r].change.kind = "update" /\ request[r].change.role = Nothing
                        \/ request[r].change.kind = "update" /\ request[r].change.target = request[r].actor
                        \/ TakesOwner(request[r].change, request[r].current) /\ Cardinality(Owners) <= 1
  <2>0. IF refused THEN Finish(r) ELSE Goto(r, "allowed")
    BY DEF CheckOwners
  <2>1. request' = [request EXCEPT ![r] = q]
    <3> HIDE DEF refused
    <3> QED
      BY <1>5, <2>0 DEF Goto
  <2>2. request[r].change.kind = "update" => request[r].change.role # Nothing
    <3>1. ~refused
      <4> HIDE DEF refused
      <4> QED
        BY <1>5, <2>0
    <3> QED
      BY <3>1
  <2>3. q \in Handling
    BY <1>1, NextStage
  <2>4. q.stage = "allowed" /\ q.change = request[r].change
    BY <1>1 DEF Handling
  <2>5. request[r].change.kind # "create"
    BY <1>1, HandlingFacts DEF AdminsInv, RequestsAreSound, Sound
  <2>6. Sound(q)
    <3> HIDE DEF q
    <3> QED
      BY <2>2, <2>4, <2>5 DEF Sound
  <2> HIDE DEF q
  <2> QED
    BY <1>2, <1>3, <2>1, <2>3, <2>6, RequestMoves DEF AdminsInv, TypeOK
<1> QED
  BY <1>4, <1>5

\* What is written when the sessions have been dealt with, as one new value.
LEMMA RoleIsNext ==
  ASSUME NEW r \in Requests,
         request' = [request EXCEPT ![r].stage = "read", ![r].change.password = FALSE]
  PROVE  request' = [request EXCEPT ![r] =
           [request[r] EXCEPT !.stage = "read",
                              !.change = [request[r].change EXCEPT !.password = FALSE]]]
  OBVIOUS

\* LeaveSessions: the deletion is given up and remembered.
LEMMA LeaveSessionsKeeps ==
  ASSUME AdminsInv, NEW r \in Requests, LeaveSessions(r)
  PROVE  AdminsInv'
<1>1. request[r] \in Handling /\ request[r].stage = "stored"
  BY AtWork DEF LeaveSessions, Handles, AdminsInv
<1>2. request[r].change.kind = "update"
  BY <1>1, HandlingFacts DEF AdminsInv, RequestsAreSound, Sound
<1>3. request[r].change \in Changes /\ request[r].change.target \in Admins
  BY <1>1, HandlingFacts, ChangeFacts
<1>4. /\ missed' = missed \cup {request[r].change.target}
      /\ UNCHANGED <<accounts, session, processes>>
  BY DEF LeaveSessions
<1>5. CASE request[r].change.role = Nothing
  BY <1>3, <1>4, <1>5, EndKeeps DEF LeaveSessions, AdminsInv, TypeOK
<1>6. CASE request[r].change.role # Nothing
  <2> DEFINE rest == [request[r].change EXCEPT !.password = FALSE]
             q == [request[r] EXCEPT !.stage = "read", !.change = rest]
  <2>1. request' = [request EXCEPT ![r] = q]
    <3>1. request' = [request EXCEPT ![r].stage = "read", ![r].change.password = FALSE]
      BY <1>6 DEF LeaveSessions
    <3> QED
      BY <3>1, RoleIsNext
  <2>2. rest \in Changes /\ rest.kind = "update"
    BY <1>2, <1>3, PasswordIsDone
  <2>3. q \in Handling /\ q.stage = "read" /\ q.change = rest
    <3> HIDE DEF rest
    <3> QED
      BY <1>1, <2>2 DEF Handling
  <2>4. Sound(q)
    <3> HIDE DEF q, rest
    <3> QED
      BY <2>2, <2>3 DEF Sound
  <2> HIDE DEF q
  <2> QED
    BY <1>3, <1>4, <2>1, <2>3, <2>4, RequestMoves DEF AdminsInv, TypeOK
<1> QED
  BY <1>5, <1>6

-----------------------------------------------------------------------------
(* Steps of requests that write.                                             *)

\* A request that ends, or moves to a sound stage, leaves the others as they are.
LEMMA OthersStay ==
  ASSUME TypeOK, RequestsAreSound, NEW r \in Requests, NEW q \in Handling \cup {Idle}, Sound(q),
         request' = [request EXCEPT ![r] = q]
  PROVE  /\ request' \in [Requests -> Handling \cup {Idle}] /\ RequestsAreSound'
         /\ request'[r] = q /\ \A w \in Requests \ {r} : request'[w] = request[w]
  BY DEF TypeOK, RequestsAreSound

\* While sessions and passwords stay, so does what the sessions are owed, if no
\* deletion of sessions has been due in the request that moves.
LEMMA SessionsStay ==
  ASSUME SessionsEndWithThePassword, NEW r \in Requests, ~Handles(r, "stored"),
         \A w \in Requests \ {r} : request'[w] = request[w],
         session' = session, chosen' = chosen, missed' = missed
  PROVE  SessionsEndWithThePassword'
  BY DEF SessionsEndWithThePassword, Handles, Live

\* Nobody that writes finds a start waiting: the lock was free.
LEMMA LockWasFree ==
  ASSUME EmptyIsLocked, Unlocked
  PROVE  \A p \in Starters : starter[p] # "empty"
  BY NothingAssumption DEF EmptyIsLocked, Unlocked

\* CreateAdmin: the account is new, so its first password is its chosen one.
LEMMA CreateAdminKeeps ==
  ASSUME AdminsInv, NEW r \in Requests, CreateAdmin(r)
  PROVE  AdminsInv'
<1> DEFINE a == request[r].change.target
           sent == request[r].change.role
<1>1. request[r] \in Handling /\ request[r].stage = "authorized"
  BY AtWork DEF CreateAdmin, Handles, AdminsInv
<1>2. a \in Admins /\ sent \in RoleInputs
  BY <1>1, HandlingFacts, ChangeFacts DEF CreateAdmin
<1>3. Sound(Idle) /\ request' = [request EXCEPT ![r] = Idle]
  BY DEF Sound, CreateAdmin, Finish
<1>4. /\ role[a] = "absent" /\ Unlocked
      /\ role' = [role EXCEPT ![a] = normalizeAdminRole(sent)]
      /\ hash' = [hash EXCEPT ![a] = [version |-> 0, legacy |-> FALSE]]
      /\ UNCHANGED <<chosen, session, missed, login, starter, writer>>
  BY DEF CreateAdmin, processes
<1> HIDE DEF a, sent
<1>5. normalizeAdminRole(sent) \in Roles
  BY <1>2, RoleNames
<1>6. [version |-> 0, legacy |-> FALSE] \in Hash
  BY MaxPasswordsAssumption DEF Hash, Versions
<1>7. TypeOK'
  BY <1>2, <1>3, <1>4, <1>5, <1>6, OthersStay DEF AdminsInv, TypeOK
<1>8. RequestsAreSound' /\ SessionsEndWithThePassword'
  BY <1>1, <1>3, <1>4, OthersStay, SessionsStay DEF AdminsInv, Handles
<1>9. UnusedIsUnset' /\ AcceptsTheChosenPassword'
  BY <1>2, <1>4, <1>5, RoleNames DEF AdminsInv, TypeOK, UnusedIsUnset, AcceptsTheChosenPassword, Exists
<1>10. EmptyIsLocked'
  BY <1>4, LockWasFree DEF AdminsInv, EmptyIsLocked
<1> QED
  BY <1>7, <1>8, <1>9, <1>10 DEF AdminsInv

\* SetPassword: the sessions of the target are behind until they are deleted.
LEMMA SetPasswordKeeps ==
  ASSUME AdminsInv, NEW r \in Requests, SetPassword(r)
  PROVE  AdminsInv'
<1> DEFINE a == request[r].change.target
           q == [request[r] EXCEPT !.stage = "stored"]
<1>1. request[r] \in Handling /\ request[r].stage = "read"
  BY AtWork DEF SetPassword, Handles, AdminsInv
<1>2. a \in Admins /\ request[r].change.kind = "update"
  BY <1>1, HandlingFacts, ChangeFacts DEF SetPassword, AdminsInv, RequestsAreSound, Sound
<1>3. q \in Handling /\ q.stage = "stored" /\ q.change = request[r].change
  <2>1. q \in Handling
    BY <1>1, NextStage
  <2>2. q.stage = "stored" /\ q.change = request[r].change
    <3>1. DOMAIN request[r] = {"stage", "cookie", "actor", "change", "current"}
      BY <1>1 DEF Handling
    <3> QED
      BY <3>1
  <2> QED
    BY <2>1, <2>2
<1>4. Sound(q) /\ request' = [request EXCEPT ![r] = q]
  BY <1>2, <1>3 DEF Sound, SetPassword, Goto
<1>5. /\ chosen[a] \in Versions /\ chosen[a] < MaxPasswords
      /\ UNCHANGED <<role, session, missed, login, starter, writer>>
  BY <1>2 DEF SetPassword, AdminsInv, TypeOK, processes
<1>6. chosen[a] \in Nat /\ chosen[a] + 1 \in Versions /\ chosen[a] + 1 > chosen[a]
  BY <1>5, MaxPasswordsAssumption DEF Versions
<1>7. q.change.target = a
  BY <1>3
<1>8. CASE ~Exists(a)
  <2>1. hash' = hash /\ chosen' = chosen
    BY <1>8 DEF SetPassword
  <2>2. TypeOK'
    BY <1>3, <1>4, <1>5, <2>1, OthersStay DEF AdminsInv, TypeOK
  <2>3. RequestsAreSound'
    BY <1>3, <1>4, OthersStay DEF AdminsInv
  <2>4. ~Handles(r, "stored") /\ \A w \in Requests \ {r} : request'[w] = request[w]
    BY <1>1, <1>3, <1>4, OthersStay DEF AdminsInv, Handles
  <2>5. SessionsEndWithThePassword'
    BY <1>5, <2>1, <2>4, SessionsStay DEF AdminsInv
  <2>6. UnusedIsUnset' /\ EmptyIsLocked' /\ AcceptsTheChosenPassword'
    BY <1>5, <2>1 DEF AdminsInv, UnusedIsUnset, EmptyIsLocked, AcceptsTheChosenPassword, Exists
  <2> QED
    BY <2>2, <2>3, <2>5, <2>6 DEF AdminsInv
<1>9. CASE Exists(a)
  <2> DEFINE h == [version |-> chosen[a] + 1, legacy |-> FALSE]
  <2>1. hash' = [hash EXCEPT ![a] = h] /\ chosen' = [chosen EXCEPT ![a] = chosen[a] + 1]
    BY <1>9 DEF SetPassword
  <2>2. h \in Hash /\ h.version = chosen[a] + 1
    BY <1>6 DEF Hash
  <2> HIDE DEF h, a, q
  <2>3. TypeOK'
    BY <1>2, <1>3, <1>4, <1>5, <1>6, <2>1, <2>2, OthersStay DEF AdminsInv, TypeOK
  <2>4. RequestsAreSound'
    BY <1>3, <1>4, OthersStay DEF AdminsInv
  <2>5. SessionsEndWithThePassword'
    <3> SUFFICES ASSUME NEW s \in Sessions, Live(s)', ~session'[s].late,
                        session'[s].verified < chosen'[session'[s].admin],
                        session'[s].admin \notin missed'
                 PROVE  \E w \in Requests : /\ Handles(w, "stored")'
                                            /\ request'[w].change.target = session'[s].admin
      BY DEF SessionsEndWithThePassword
    <3>1. request'[r] = q /\ \A w \in Requests \ {r} : request'[w] = request[w]
      BY <1>3, <1>4, OthersStay DEF AdminsInv
    <3>2. CASE session[s].admin = a
      <4>1. Handles(r, "stored")'
        BY <1>3, <3>1, HandlingFacts DEF Handles
      <4> QED
        BY <1>5, <1>7, <3>1, <3>2, <4>1
    <3>3. CASE session[s].admin # a
      <4>1. chosen'[session[s].admin] = chosen[session[s].admin]
        BY <1>5, <2>1, <3>3 DEF AdminsInv, TypeOK, Live, Opened
      <4>2. PICK w \in Requests : Handles(w, "stored") /\ request[w].change.target = session[s].admin
        BY <1>5, <4>1 DEF AdminsInv, SessionsEndWithThePassword, Live
      <4>3. w # r
        BY <1>1, <4>2 DEF Handles
      <4> QED
        BY <1>5, <3>1, <4>2, <4>3 DEF Handles
    <3> QED
      BY <3>2, <3>3
  <2>6. UnusedIsUnset' /\ AcceptsTheChosenPassword'
    BY <1>2, <1>5, <1>9, <2>1, <2>2, RoleNames
       DEF AdminsInv, TypeOK, UnusedIsUnset, AcceptsTheChosenPassword, Exists
  <2>7. EmptyIsLocked'
    BY <1>5 DEF AdminsInv, EmptyIsLocked, Exists
  <2> QED
    BY <2>3, <2>4, <2>5, <2>6, <2>7 DEF AdminsInv
<1> QED
  BY <1>8, <1>9

\* DropOtherSessions: what is left of the target's sessions is the one that
\* changed the password, and it knows the new one.
LEMMA DropOtherSessionsKeeps ==
  ASSUME AdminsInv, NEW r \in Requests, DropOtherSessions(r)
  PROVE  AdminsInv'
<1> DEFINE a == request[r].change.target
           known(s) == [session[s] EXCEPT !.verified = chosen[a], !.late = FALSE]
<1>1. request[r] \in Handling /\ request[r].stage = "stored"
  BY AtWork DEF DropOtherSessions, Handles, AdminsInv
<1>2. request[r].change.kind = "update" /\ request[r].change \in Changes /\ a \in Admins
  BY <1>1, HandlingFacts, ChangeFacts DEF AdminsInv, RequestsAreSound, Sound
<1>3. UNCHANGED <<role, hash, chosen, missed, login, starter, writer>>
  BY DEF DropOtherSessions, accounts, processes
<1>4. \A s \in Sessions :
        session'[s] = IF ~Live(s) \/ session[s].admin # a THEN session[s]
                      ELSE IF OtherSessionOfTarget(r, s) THEN Nothing
                      ELSE IF s = request[r].cookie THEN known(s) ELSE session[s]
  BY DEF DropOtherSessions
<1>5. \A s \in Sessions : Live(s) /\ session[s].admin = a =>
        session'[s] = Nothing \/ (s = request[r].cookie /\ session'[s] = known(s))
  BY <1>4 DEF OtherSessionOfTarget
<1>6. \A s \in Sessions : Live(s) =>
        known(s) \in Opened /\ known(s).admin = session[s].admin /\ known(s).verified = chosen[a]
  BY <1>2 DEF AdminsInv, TypeOK, Live, Opened
<1> HIDE DEF known
<1>7. session' \in [Sessions -> Opened \cup {Nothing}]
  <2>1. \A s \in Sessions : session'[s] \in Opened \cup {Nothing}
    BY <1>4, <1>6 DEF AdminsInv, TypeOK
  <2>2. session' = [s \in Sessions |-> session'[s]]
    BY DEF DropOtherSessions
  <2> QED
    BY <2>1, <2>2
<1>8. PICK q \in Handling \cup {Idle} : Sound(q) /\ request' = [request EXCEPT ![r] = q]
  <2>1. CASE request[r].change.role = Nothing
    BY <2>1 DEF DropOtherSessions, Finish, Sound
  <2>2. CASE request[r].change.role # Nothing
    <3> DEFINE rest == [request[r].change EXCEPT !.password = FALSE]
               q == [request[r] EXCEPT !.stage = "read", !.change = rest]
    <3>1. request' = [request EXCEPT ![r] = q]
      <4>1. request' = [request EXCEPT ![r].stage = "read", ![r].change.password = FALSE]
        BY <2>2 DEF DropOtherSessions
      <4> QED
        BY <4>1, RoleIsNext
    <3>2. rest \in Changes /\ rest.kind = "update"
      BY <1>2, PasswordIsDone
    <3>3. q \in Handling /\ q.stage = "read" /\ q.change = rest
      <4> HIDE DEF rest
      <4> QED
        BY <1>1, <3>2 DEF Handling
    <3>4. Sound(q)
      <4> HIDE DEF q, rest
      <4> QED
        BY <3>2, <3>3 DEF Sound
    <3> HIDE DEF q
    <3> QED
      BY <3>1, <3>3, <3>4
  <2> QED
    BY <2>1, <2>2
<1>9. /\ request' \in [Requests -> Handling \cup {Idle}] /\ RequestsAreSound'
      /\ \A w \in Requests \ {r} : request'[w] = request[w]
  BY <1>8, OthersStay DEF AdminsInv
<1>10. TypeOK'
  BY <1>3, <1>7, <1>9 DEF AdminsInv, TypeOK
<1>11. UnusedIsUnset' /\ EmptyIsLocked' /\ AcceptsTheChosenPassword'
  BY <1>3 DEF AdminsInv, UnusedIsUnset, EmptyIsLocked, AcceptsTheChosenPassword, Exists
<1>12. SessionsEndWithThePassword'
  <2> SUFFICES ASSUME NEW s \in Sessions, Live(s)', ~session'[s].late,
                      session'[s].verified < chosen'[session'[s].admin],
                      session'[s].admin \notin missed'
               PROVE  \E w \in Requests : /\ Handles(w, "stored")'
                                          /\ request'[w].change.target = session'[s].admin
    BY DEF SessionsEndWithThePassword
  <2>1. Live(s)
    BY <1>4 DEF Live
  <2>2. session[s].admin # a
    <3> SUFFICES ASSUME session[s].admin = a PROVE FALSE
      OBVIOUS
    <3>1. session'[s] = known(s)
      BY <1>5, <2>1 DEF Live
    <3>2. session'[s].verified = chosen[a] /\ session'[s].admin = a
      BY <1>6, <2>1, <3>1
    <3>3. chosen[a] \in Nat
      BY <1>2, MaxPasswordsAssumption DEF AdminsInv, TypeOK, Versions
    <3> QED
      BY <1>3, <3>2, <3>3
  <2>3. session'[s] = session[s]
    BY <1>4, <2>2
  <2>4. PICK w \in Requests : Handles(w, "stored") /\ request[w].change.target = session[s].admin
    BY <1>3, <2>1, <2>3 DEF AdminsInv, SessionsEndWithThePassword
  <2>5. w # r
    BY <2>2, <2>4
  <2> QED
    BY <1>9, <2>3, <2>4, <2>5 DEF Handles
<1> QED
  BY <1>9, <1>10, <1>11, <1>12 DEF AdminsInv

\* Every other write of sessions only ends some: what remains owes as before.
LEMMA FewerSessions ==
  ASSUME TypeOK, SessionsEndWithThePassword, NEW ending, session' = [s \in Sessions |->
             IF s \in ending THEN Nothing ELSE session[s]],
         chosen' = chosen, missed' = missed,
         \A w \in Requests : Handles(w, "stored") =>
             Handles(w, "stored")' /\ request'[w].change.target = request[w].change.target
  PROVE  session' \in [Sessions -> Opened \cup {Nothing}] /\ SessionsEndWithThePassword'
<1>1. session' \in [Sessions -> Opened \cup {Nothing}]
  BY DEF TypeOK
<1>2. \A s \in Sessions : Live(s)' => session'[s] = session[s] /\ Live(s)
  BY DEF Live
<1>3. SessionsEndWithThePassword'
  <2> SUFFICES ASSUME NEW s \in Sessions, Live(s), session'[s] = session[s], ~session[s].late,
                      session[s].verified < chosen[session[s].admin], session[s].admin \notin missed
               PROVE  \E w \in Requests : /\ Handles(w, "stored")'
                                          /\ request'[w].change.target = session'[s].admin
    BY <1>2 DEF SessionsEndWithThePassword
  <2>1. PICK w \in Requests : Handles(w, "stored") /\ request[w].change.target = session[s].admin
    BY DEF SessionsEndWithThePassword
  <2> QED
    BY <2>1
<1> QED
  BY <1>1, <1>3

\* ChangeRole: a role is written over a role, and never a missing one.
LEMMA ChangeRoleKeeps ==
  ASSUME AdminsInv, NEW r \in Requests, ChangeRole(r)
  PROVE  AdminsInv'
<1> DEFINE a == request[r].change.target
           sent == request[r].change.role
           q == [request[r] EXCEPT !.stage = "changed"]
<1>1. request[r] \in Handling /\ request[r].stage = "allowed"
  BY AtWork DEF ChangeRole, Handles, AdminsInv
<1>2. /\ a \in Admins /\ request[r].change.kind = "update" /\ sent \in RoleInputs
      /\ request[r].change.kind # "create"
  BY <1>1, HandlingFacts, ChangeFacts DEF ChangeRole, AdminsInv, RequestsAreSound, Sound
<1>3. /\ role' = IF Exists(a) THEN [role EXCEPT ![a] = normalizeAdminRole(sent)] ELSE role
      /\ UNCHANGED <<hash, chosen, session, missed, login, starter, writer>>
  <2>1. role' = IF Exists(a) THEN [role EXCEPT ![a] = normalizeAdminRole(sent)] ELSE role
    BY DEF ChangeRole
  <2>2. UNCHANGED <<hash, chosen, session, missed, processes>>
    BY DEF ChangeRole
  <2> QED
    BY <2>1, <2>2 DEF processes
<1>4. q \in Handling /\ request' = [request EXCEPT ![r] = q]
  BY <1>1, NextStage DEF ChangeRole, Goto
<1>5. q.stage = "changed" /\ q.change = request[r].change
  BY <1>1 DEF Handling
<1>6. Sound(q)
  <2> HIDE DEF q
  <2> QED
    BY <1>2, <1>5 DEF Sound
<1>7. normalizeAdminRole(sent) \in Roles
  BY <1>2, RoleNames
<1>8. ~Handles(r, "stored")
  BY <1>1 DEF Handles
<1> HIDE DEF a, sent, q
<1>9. TypeOK'
  BY <1>2, <1>3, <1>4, <1>6, <1>7, OthersStay DEF AdminsInv, TypeOK
<1>10. RequestsAreSound' /\ SessionsEndWithThePassword'
  BY <1>3, <1>4, <1>6, <1>8, OthersStay, SessionsStay DEF AdminsInv
<1>11. \A b \in Admins : (Exists(b)' <=> Exists(b)) /\ (role'[b] = "absent" <=> role[b] = "absent")
  BY <1>2, <1>3, <1>7, RoleNames DEF AdminsInv, TypeOK, Exists
<1>12. UnusedIsUnset' /\ EmptyIsLocked' /\ AcceptsTheChosenPassword'
  BY <1>3, <1>11 DEF AdminsInv, UnusedIsUnset, EmptyIsLocked, AcceptsTheChosenPassword
<1> QED
  BY <1>9, <1>10, <1>12 DEF AdminsInv

\* DropSessions: the target's sessions end; the request has none to delete.
LEMMA DropSessionsKeeps ==
  ASSUME AdminsInv, NEW r \in Requests, DropSessions(r)
  PROVE  AdminsInv'
<1> DEFINE ending == {s \in Sessions : Live(s) /\ session[s].admin = request[r].change.target}
           q == [request[r] EXCEPT !.stage = "changed"]
<1>1. request[r] \in Handling /\ request[r].stage \in {"allowed", "changed"}
  BY AtWork DEF DropSessions, AdminsInv
<1>2. /\ session' = [s \in Sessions |-> IF s \in ending THEN Nothing ELSE session[s]]
      /\ UNCHANGED <<role, hash, chosen, missed, login, starter, writer>>
  BY DEF DropSessions, accounts, processes
<1>3. PICK p \in Handling \cup {Idle} : Sound(p) /\ request' = [request EXCEPT ![r] = p]
  <2>1. CASE request[r].change.kind = "delete"
    <3>1. q \in Handling
      BY <1>1, NextStage
    <3>2. q.stage = "changed" /\ q.change = request[r].change
      BY <1>1 DEF Handling
    <3>3. Sound(q)
      <4> HIDE DEF q
      <4> QED
        BY <2>1, <3>2 DEF Sound
    <3> QED
      BY <2>1, <3>1, <3>3 DEF DropSessions, Goto
  <2>2. CASE request[r].change.kind # "delete"
    BY <2>2 DEF DropSessions, Finish, Sound
  <2> QED
    BY <2>1, <2>2
<1>4. /\ request' \in [Requests -> Handling \cup {Idle}] /\ RequestsAreSound'
      /\ \A w \in Requests \ {r} : request'[w] = request[w]
  BY <1>3, OthersStay DEF AdminsInv
<1>5. \A w \in Requests : Handles(w, "stored") =>
        Handles(w, "stored")' /\ request'[w].change.target = request[w].change.target
  BY <1>1, <1>4 DEF Handles
<1> HIDE DEF ending
<1>6. session' \in [Sessions -> Opened \cup {Nothing}] /\ SessionsEndWithThePassword'
  BY <1>2, <1>5, FewerSessions DEF AdminsInv
<1>7. TypeOK'
  BY <1>2, <1>4, <1>6 DEF AdminsInv, TypeOK
<1>8. UnusedIsUnset' /\ EmptyIsLocked' /\ AcceptsTheChosenPassword'
  BY <1>2 DEF AdminsInv, UnusedIsUnset, EmptyIsLocked, AcceptsTheChosenPassword, Exists
<1> QED
  BY <1>4, <1>6, <1>7, <1>8 DEF AdminsInv

\* DeleteAdmin: the id does not come back.
LEMMA DeleteAdminKeeps ==
  ASSUME AdminsInv, NEW r \in Requests, DeleteAdmin(r)
  PROVE  AdminsInv'
<1> DEFINE a == request[r].change.target
<1>1. request[r] \in Handling /\ ~Handles(r, "stored")
  BY AtWork DEF DeleteAdmin, Handles, AdminsInv
<1>2. a \in Admins
  BY <1>1, HandlingFacts, ChangeFacts
<1>3. /\ role' = IF Exists(a) THEN [role EXCEPT ![a] = "deleted"] ELSE role
      /\ UNCHANGED <<hash, chosen, session, missed, login, starter, writer>>
  BY DEF DeleteAdmin, processes
<1>4. Sound(Idle) /\ request' = [request EXCEPT ![r] = Idle]
  BY DEF Sound, DeleteAdmin, Finish
<1> HIDE DEF a
<1>5. TypeOK'
  BY <1>2, <1>3, <1>4, OthersStay DEF AdminsInv, TypeOK
<1>6. RequestsAreSound' /\ SessionsEndWithThePassword'
  BY <1>1, <1>3, <1>4, OthersStay, SessionsStay DEF AdminsInv
<1>7. \A b \in Admins : (Exists(b)' => Exists(b)) /\ (role'[b] = "absent" => role[b] = "absent")
  BY <1>2, <1>3, RoleNames DEF AdminsInv, TypeOK, Exists
<1>8. UnusedIsUnset' /\ EmptyIsLocked' /\ AcceptsTheChosenPassword'
  BY <1>3, <1>7 DEF AdminsInv, UnusedIsUnset, EmptyIsLocked, AcceptsTheChosenPassword
<1> QED
  BY <1>5, <1>6, <1>8 DEF AdminsInv

-----------------------------------------------------------------------------
(* Logins and sessions.                                                      *)

\* The parts that read accounts and requests only, when neither changes.
LEMMA AccountsStay ==
  ASSUME AdminsInv, UNCHANGED <<accounts, request, starter, writer>>
  PROVE  /\ RequestsAreSound' /\ UnusedIsUnset' /\ EmptyIsLocked' /\ AcceptsTheChosenPassword'
         /\ session' = session /\ missed' = missed => SessionsEndWithThePassword'
  BY DEF AdminsInv, RequestsAreSound, UnusedIsUnset, EmptyIsLocked, AcceptsTheChosenPassword,
     Exists, accounts, SessionsEndWithThePassword, Live, Handles

\* ReadHash and EndLogin write nothing.
LEMMA LoginReads ==
  ASSUME AdminsInv, NEW l \in Logins, ReadHash(l) \/ EndLogin(l)
  PROVE  AdminsInv'
<1>1. UNCHANGED <<accounts, session, missed, request, starter, writer>>
  BY DEF ReadHash, EndLogin
<1>2. login' \in [Logins -> Attempts \cup {Idle}]
  <2>1. CASE EndLogin(l)
    BY <2>1 DEF EndLogin, AdminsInv, TypeOK
  <2>2. CASE ReadHash(l)
    <3>1. PICK a \in Admins :
            login' = [login EXCEPT ![l] = [admin |-> a, hash |-> hash[a], stage |-> "read"]]
      BY <2>2 DEF ReadHash
    <3>2. [admin |-> a, hash |-> hash[a], stage |-> "read"] \in Attempts
      BY DEF AdminsInv, TypeOK, Attempts
    <3> QED
      BY <3>1, <3>2 DEF AdminsInv, TypeOK
  <2> QED
    BY <2>1, <2>2
<1>3. TypeOK'
  BY <1>1, <1>2 DEF AdminsInv, TypeOK, accounts
<1> QED
  BY <1>1, <1>3, AccountsStay DEF AdminsInv

\* Rehash: the compare-and-swap changes only how the stored password is encoded.
LEMMA RehashKeeps ==
  ASSUME AdminsInv, NEW l \in Logins, Rehash(l)
  PROVE  AdminsInv'
<1> DEFINE a == login[l].admin
           h == [version |-> login[l].hash.version, legacy |-> FALSE]
           q == [login[l] EXCEPT !.stage = "verified"]
<1>1. login[l] \in Attempts
  BY DEF Rehash, AdminsInv, TypeOK
<1>2. /\ hash' = IF StillStored(l) THEN [hash EXCEPT ![a] = h] ELSE hash
      /\ login' = [login EXCEPT ![l] = q]
      /\ UNCHANGED <<role, chosen, session, missed, request, starter, writer>>
  BY DEF Rehash
<1>3. a \in Admins /\ h \in Hash /\ h.version = login[l].hash.version /\ q \in Attempts
  BY <1>1 DEF Attempts, Hash
<1>4. StillStored(l) => hash[a].version = h.version
  BY DEF StillStored
<1> HIDE DEF a, h, q
<1>5. TypeOK'
  BY <1>2, <1>3 DEF AdminsInv, TypeOK
<1>6. \A b \in Admins : hash'[b].version = hash[b].version
  BY <1>2, <1>3, <1>4 DEF AdminsInv, TypeOK
<1>7. AcceptsTheChosenPassword'
  BY <1>2, <1>6 DEF AdminsInv, AcceptsTheChosenPassword, Exists
<1>8. RequestsAreSound' /\ UnusedIsUnset' /\ EmptyIsLocked'
  BY <1>2 DEF AdminsInv, RequestsAreSound, UnusedIsUnset, EmptyIsLocked, Exists
<1>9. SessionsEndWithThePassword'
  BY <1>2 DEF AdminsInv, SessionsEndWithThePassword, Live, Handles
<1> QED
  BY <1>5, <1>7, <1>8, <1>9 DEF AdminsInv

\* OpenSession: a session of an older password is one whose login was overtaken.
LEMMA OpenSessionKeeps ==
  ASSUME AdminsInv, NEW l \in Logins, OpenSession(l)
  PROVE  AdminsInv'
<1> DEFINE a == login[l].admin
           version == login[l].hash.version
           new == [admin |-> a, verified |-> version, late |-> version # chosen[a]]
<1>1. login[l] \in Attempts
  BY DEF OpenSession, AdminsInv, TypeOK
<1>2. PICK s \in Sessions : session' = [session EXCEPT ![s] = new]
  BY DEF OpenSession
<1>3. /\ login' = [login EXCEPT ![l] = Idle]
      /\ UNCHANGED <<accounts, missed, request, starter, writer>>
  BY DEF OpenSession
<1>4. a \in Admins /\ version \in Versions
  BY <1>1 DEF Attempts, Hash
<1>5. /\ new \in Opened /\ new.admin = a /\ new.verified = version
      /\ ~new.late => version = chosen[a]
  BY <1>4 DEF Opened
<1>6. new.verified < chosen[a] => new.late
  BY <1>4, <1>5, MaxPasswordsAssumption DEF Versions
<1> HIDE DEF new, a, version
<1>7. TypeOK'
  BY <1>2, <1>3, <1>5 DEF AdminsInv, TypeOK, accounts
<1>8. SessionsEndWithThePassword'
  <2> SUFFICES ASSUME NEW t \in Sessions, Live(t)', ~session'[t].late,
                      session'[t].verified < chosen'[session'[t].admin],
                      session'[t].admin \notin missed'
               PROVE  \E w \in Requests : /\ Handles(w, "stored")'
                                          /\ request'[w].change.target = session'[t].admin
    BY DEF SessionsEndWithThePassword
  <2>1. t # s
    BY <1>2, <1>3, <1>5, <1>6 DEF AdminsInv, TypeOK, accounts
  <2>2. session'[t] = session[t]
    BY <1>2, <2>1 DEF AdminsInv, TypeOK
  <2> QED
    BY <1>3, <2>2 DEF AdminsInv, SessionsEndWithThePassword, Live, Handles, accounts
<1> QED
  BY <1>3, <1>7, <1>8, AccountsStay DEF AdminsInv

\* Logout and Expire: one session fewer.
LEMMA EndSessionKeeps ==
  ASSUME AdminsInv, NEW s \in Sessions, EndSession(s)
  PROVE  AdminsInv'
<1>1. /\ session' = [session EXCEPT ![s] = Nothing]
      /\ UNCHANGED <<accounts, missed, request, processes>>
  BY DEF EndSession
<1>2. session' = [t \in Sessions |-> IF t \in {s} THEN Nothing ELSE session[t]]
  BY <1>1 DEF AdminsInv, TypeOK
<1>3. session' \in [Sessions -> Opened \cup {Nothing}] /\ SessionsEndWithThePassword'
  <2> DEFINE ending == {s}
  <2>1. \A w \in Requests : Handles(w, "stored") =>
          Handles(w, "stored")' /\ request'[w].change.target = request[w].change.target
    BY <1>1 DEF Handles
  <2> HIDE DEF ending
  <2>2. session' = [t \in Sessions |-> IF t \in ending THEN Nothing ELSE session[t]]
    BY <1>2 DEF ending
  <2> QED
    BY <1>1, <2>1, <2>2, FewerSessions DEF AdminsInv, accounts
<1>4. TypeOK'
  BY <1>1, <1>3 DEF AdminsInv, TypeOK, accounts, processes
<1> QED
  BY <1>1, <1>3, <1>4, AccountsStay DEF AdminsInv, processes

-----------------------------------------------------------------------------
(* Starts.                                                                   *)

\* A start that begins its transaction, or rolls it back, changes no account.
LEMMA StarterMoves ==
  ASSUME AdminsInv, NEW p \in Starters, CountAdmins(p) \/ StartAgain(p)
  PROVE  AdminsInv'
<1>1. UNCHANGED <<accounts, session, missed, request, login>>
  BY DEF CountAdmins, StartAgain
<1>2. \/ starter' = [starter EXCEPT ![p] = "new"] /\ writer' = (IF writer = p THEN Nothing ELSE writer)
      \/ starter' = [starter EXCEPT ![p] = "started"] /\ writer' = writer
      \/ /\ starter' = [starter EXCEPT ![p] = "empty"]
         /\ writer = Nothing /\ writer' = p /\ \A a \in Admins : ~Exists(a)
  BY DEF CountAdmins, BeginImmediate, StartAgain
<1>3. starter' \in [Starters -> {"new", "empty", "started"}] /\ writer' \in Starters \cup {Nothing}
  BY <1>2 DEF AdminsInv, TypeOK
<1>4. TypeOK'
  BY <1>1, <1>3 DEF AdminsInv, TypeOK, accounts
<1>5. \A a \in Admins : Exists(a)' <=> Exists(a)
  BY <1>1 DEF Exists, accounts
<1>6. EmptyIsLocked'
  <2> SUFFICES ASSUME NEW o \in Starters, starter'[o] = "empty"
               PROVE  writer' = o /\ \A a \in Admins : ~Exists(a)
    BY <1>5 DEF EmptyIsLocked
  <2>1. CASE o = p
    BY <1>2, <2>1 DEF AdminsInv, TypeOK
  <2>2. CASE o # p
    <3>1. starter[o] = "empty"
      BY <1>2, <2>2 DEF AdminsInv, TypeOK
    <3>2. writer = o /\ \A a \in Admins : ~Exists(a)
      BY <3>1 DEF AdminsInv, EmptyIsLocked
    <3> QED
      BY <1>2, <2>2, <3>2, NothingAssumption
  <2> QED
    BY <2>1, <2>2
<1>7. RequestsAreSound' /\ UnusedIsUnset' /\ AcceptsTheChosenPassword' /\ SessionsEndWithThePassword'
  BY <1>1 DEF AdminsInv, RequestsAreSound, UnusedIsUnset, AcceptsTheChosenPassword, Exists, accounts,
     SessionsEndWithThePassword, Live, Handles
<1> QED
  BY <1>4, <1>6, <1>7 DEF AdminsInv

\* InsertOwner: no other start is waiting to insert one.
LEMMA InsertOwnerKeeps ==
  ASSUME AdminsInv, NEW p \in Starters, InsertOwner(p)
  PROVE  AdminsInv'
<1> DEFINE h == [version |-> 0, legacy |-> FALSE]
<1>1. PICK a \in Admins : /\ role[a] = "absent" /\ role' = [role EXCEPT ![a] = "owner"]
                          /\ hash' = [hash EXCEPT ![a] = h]
  BY DEF InsertOwner
<1>2. /\ starter[p] = "empty" /\ starter' = [starter EXCEPT ![p] = "started"] /\ writer' = Nothing
      /\ UNCHANGED <<chosen, session, missed, request, login>>
  BY DEF InsertOwner
<1>3. h \in Hash /\ h.version = 0
  BY MaxPasswordsAssumption DEF Hash, Versions
<1> HIDE DEF h
<1>4. "owner" \in Roles /\ "owner" # "absent"
  BY DEF Roles
<1>5. TypeOK'
  BY <1>1, <1>2, <1>3, <1>4 DEF AdminsInv, TypeOK
<1>6. \A o \in Starters : starter'[o] # "empty"
  BY <1>2 DEF AdminsInv, TypeOK, EmptyIsLocked
<1>7. EmptyIsLocked'
  BY <1>6 DEF EmptyIsLocked
<1>8. UnusedIsUnset' /\ AcceptsTheChosenPassword'
  BY <1>1, <1>2, <1>3, <1>4 DEF AdminsInv, TypeOK, UnusedIsUnset, AcceptsTheChosenPassword, Exists
<1>9. RequestsAreSound' /\ SessionsEndWithThePassword'
  BY <1>2 DEF AdminsInv, RequestsAreSound, SessionsEndWithThePassword, Live, Handles
<1> QED
  BY <1>5, <1>7, <1>8, <1>9 DEF AdminsInv

-----------------------------------------------------------------------------

\* No step changes the invariant when no variable changes.
LEMMA AdminsStutter == AdminsInv /\ UNCHANGED vars => AdminsInv'
<1> SUFFICES ASSUME AdminsInv, UNCHANGED vars PROVE AdminsInv'
  OBVIOUS
<1>1. TypeOK'
  BY DEF AdminsInv, TypeOK, vars
<1> QED
  BY <1>1, AccountsStay DEF AdminsInv, vars, accounts

\* The inductive invariant holds in every behaviour.
THEOREM AdminsInvariant == Spec => []AdminsInv
<1>1. AdminsInv /\ [Next]_vars => AdminsInv'
  <2> SUFFICES ASSUME AdminsInv, Next PROVE AdminsInv'
    BY AdminsStutter
  <2>1. ASSUME NEW r \in Requests,
               \/ Authorize(r) \/ CreateAdmin(r) \/ AbortRequest(r) \/ Identify(r) \/ ReadTarget(r)
               \/ SetPassword(r) \/ DropOtherSessions(r) \/ LeaveSessions(r)
               \/ CheckOwners(r) \/ ChangeRole(r) \/ DropSessions(r) \/ DeleteAdmin(r)
        PROVE  AdminsInv'
    BY <2>1, AuthorizeKeeps, CreateAdminKeeps, AbortKeeps, IdentifyKeeps, ReadTargetKeeps,
       SetPasswordKeeps, DropOtherSessionsKeeps, LeaveSessionsKeeps, CheckOwnersKeeps,
       ChangeRoleKeeps, DropSessionsKeeps, DeleteAdminKeeps
  <2>2. ASSUME NEW l \in Logins, ReadHash(l) \/ Rehash(l) \/ OpenSession(l) \/ EndLogin(l)
        PROVE  AdminsInv'
    BY <2>2, LoginReads, RehashKeeps, OpenSessionKeeps
  <2>3. ASSUME NEW s \in Sessions, Logout(s) \/ Expire(s)
        PROVE  AdminsInv'
    BY <2>3, EndSessionKeeps DEF Logout, Expire
  <2>4. ASSUME NEW p \in Starters, CountAdmins(p) \/ InsertOwner(p) \/ StartAgain(p)
        PROVE  AdminsInv'
    BY <2>4, StarterMoves, InsertOwnerKeeps
  <2> QED
    BY <2>1, <2>2, <2>3, <2>4 DEF Next
<1> QED
  BY AdminsInit, <1>1, PTL DEF Spec

\* Type correctness of the accounts, the sessions and the locals of requests,
\* logins and starts.
THEOREM AdminsTypes == Spec => []TypeOK
<1>1. AdminsInv => TypeOK
  BY DEF AdminsInv
<1> QED
  BY AdminsInvariant, <1>1, PTL

\* No migration of a hash brings an older password back, however many logins
\* and changes of the password overlap.
THEOREM ChosenPasswordIsAccepted == Spec => []AcceptsTheChosenPassword
<1>1. AdminsInv => AcceptsTheChosenPassword
  BY DEF AdminsInv
<1> QED
  BY AdminsInvariant, <1>1, PTL

\* A session of an older password is one whose login was overtaken, or whose
\* deletion is due or failed.
THEOREM OldSessionsEnd == Spec => []SessionsEndWithThePassword
<1>1. AdminsInv => SessionsEndWithThePassword
  BY DEF AdminsInv
<1> QED
  BY AdminsInvariant, <1>1, PTL

\* However many processes start at once, the first owner is inserted only into
\* a table without administrators.
THEOREM OneBootstrap == Spec => BootstrapOnlyWhenEmpty
<1>1. AdminsInv /\ [Next]_vars =>
        [\A p \in Starters : starter[p] = "empty" /\ starter'[p] = "started" =>
           \A a \in Admins : ~Exists(a)]_vars
  BY DEF AdminsInv, EmptyIsLocked
<1> QED
  BY AdminsInvariant, <1>1, PTL DEF Spec, BootstrapOnlyWhenEmpty
=============================================================================
