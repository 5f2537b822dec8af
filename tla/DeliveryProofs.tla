-------------------------- MODULE DeliveryProofs --------------------------
(***************************************************************************)
(* Proofs about Delivery, for any number of requests, redeemers, devices,   *)
(* rules and templates, and any number of edits.                            *)
(***************************************************************************)
EXTENDS Delivery, FiniteSetTheorems, WellFoundedInduction, TLAPS

\* Past the access check the subscription has been open.
Admits(q) == q.stage \notin {"new", "access", "done"} \/ q.answer = "served"

\* A served answer is in the format its rule names.
FormatHolds(q) ==
    q.answer = "served" /\ q.kind \in {"client", "browser"} /\ q.rule # Nothing =>
        (q.rule.type \in Structured => q.body = "whole")

\* Only a finished request has an answer; the page is for no rule or a rule
\* of browsers, and the details are for the panel.
Sound(q) ==
    /\ q.answer # "none" => q.stage = "done"
    /\ q.stage = "page" /\ q.rule # Nothing => q.rule.type = "browser"
    /\ q.stage = "details" => q.kind = "info"
    /\ FormatHolds(q)

Registers(q) == q.stage \in {"count", "insert"}

\* A registration holds the write lock, its device is new, and when it is to
\* be inserted there is still room.
Registration(r, q) ==
    /\ Registers(q) => writer = r /\ q.device \in Devices /\ q.device[1] \notin Distinct(devices)
    /\ q.stage = "insert" =>
           user.exists /\ available(user.limit, Cardinality(Distinct(devices)))

RequestsAreSound == \A r \in Requests : Sound(request[r])
AdmittedWhileOpen == \A r \in Requests : Admits(request[r]) => r \in entitled
RegistrationsHoldTheLock == \A r \in Requests : Registration(r, request[r])

Given(d) == redeemer[d].stage = "given"

\* Who has the link has the subscription's address, and is the only one.
LinkIsGivenOnce ==
    /\ \A d \in Redeemers : Given(d) => user.used /\ user.sid = redeemer[d].link
    /\ \A d, e \in Redeemers : Given(d) /\ Given(e) => d = e

\* Who has read the row knows an address.
LoadedHasALink == \A d \in Redeemers : redeemer[d].stage # "new" => redeemer[d].link \in Sids

DeliveryInv ==
    /\ TypeOK
    /\ RequestsAreSound
    /\ AdmittedWhileOpen
    /\ RegistrationsHoldTheLock
    /\ IsFiniteSet(Distinct(devices))
    /\ LinkIsGivenOnce
    /\ LoadedHasALink

-----------------------------------------------------------------------------
(* Data.                                                                     *)

Less == {ss \in Nat \X Nat : ss[1] < ss[2]}

\* The library's order on the natural numbers, as a set of pairs.
LEMMA LessIsWellFounded == IsWellFoundedOn(Less, Nat)
  BY ONLY NatLessThanWellFounded, SMT DEF OpToRel, Less

\* A set of natural numbers that is not empty has a least member.
LEMMA LeastNatural ==
  ASSUME NEW S, S \subseteq Nat, S # {}
  PROVE  \E n \in S : \A m \in S : n <= m
<1>1. PICK n \in S : \A m \in S : ~ (<<m, n>> \in Less)
  BY WFMin, LessIsWellFounded
<1>2. ASSUME NEW m \in S PROVE n <= m
  <2>1. m \in Nat /\ n \in Nat /\ <<m, n>> \in Nat \X Nat
    OBVIOUS
  <2>2. ~ (m < n)
    BY <1>1, <2>1 DEF Less
  <2> QED BY <2>1, <2>2
<1> QED BY <1>2

\* The rules are ordered by priority and then by id, so a set of stored rules
\* that is not empty has a first one.
LEMMA FirstIsAMember ==
  ASSUME TypeOK, NEW ids, ids \subseteq Stored, ids # {}
  PROVE  First(ids) \in ids
<1> USE DeliveryAssumption DEF Stored
<1>1. \A i \in ids : i \in Nat /\ rules[i] \in Rule /\ rules[i].priority \in Nat
  BY DEF TypeOK, Rule
<1> DEFINE priorities == {rules[i].priority : i \in ids}
<1>2. priorities \subseteq Nat /\ priorities # {}
  BY <1>1
<1>3. PICK p \in priorities : \A o \in priorities : p <= o
  BY <1>2, LeastNatural
<1> DEFINE least == {i \in ids : rules[i].priority = p}
<1>4. least \subseteq Nat /\ least # {}
  BY <1>1, <1>3
<1>5. PICK i \in least : \A j \in least : i <= j
  BY <1>4, LeastNatural
<1>6. ASSUME NEW j \in ids \ {i} PROVE Before(i, j)
  <2>1. p <= rules[j].priority /\ p \in Nat /\ rules[j].priority \in Nat /\ i \in Nat /\ j \in Nat
    BY <1>1, <1>2, <1>3
  <2>2. CASE rules[j].priority = p
    BY <1>5, <2>1, <2>2 DEF Before
  <2>3. CASE rules[j].priority # p
    BY <2>1, <2>3 DEF Before
  <2> QED BY <2>2, <2>3
<1> QED BY <1>6 DEF First

\* The rule that answers a client is a stored rule or none.
LEMMA MatchingRuleType ==
  ASSUME TypeOK, NEW client
  PROVE  firstMatchingResponseRule(client) \in Rule \cup {Nothing}
<1> DEFINE matching == {i \in Stored : rules[i].enabled /\ client \in rules[i].matches}
<1>1. matching # {} => First(matching) \in matching
  BY FirstIsAMember
<1> QED BY <1>1 DEF firstMatchingResponseRule, TypeOK, Stored

\* The locals of a request.
LEMMA RequestFields ==
  ASSUME DeliveryInv, NEW r \in Requests
  PROVE  /\ request[r] \in Request /\ request[r].stage \in Stages /\ request[r].kind \in Kinds
         /\ request[r].client \in Clients \cup {Nothing}
         /\ request[r].sid \in Sids \cup {Nothing}
         /\ request[r].device \in Devices \cup {Nothing}
         /\ request[r].rule \in Rule \cup {Nothing}
         /\ request[r].body \in {"none", "whole", "torn"}
         /\ request[r].answer \in {"none", "served", "denied", "error"}
         /\ Sound(request[r]) /\ Registration(r, request[r])
         /\ Admits(request[r]) => r \in entitled
  BY DEF DeliveryInv, TypeOK, Request, RequestsAreSound, AdmittedWhileOpen,
         RegistrationsHoldTheLock

\* A request that is refused forgets its locals.
LEMMA Refused ==
  ASSUME NEW answer \in {"denied", "error"}
  PROVE  LET q == [NewRequest EXCEPT !.stage = "done", !.answer = answer] IN
           q \in Request /\ Sound(q) /\ ~Admits(q) /\ ~Registers(q)
  BY DEF NewRequest, Request, Sound, FormatHolds, Admits, Registers, Stages, Kinds

\* One person can be counted.
LEMMA AtMostOne ==
  ASSUME NEW S, \A x, y \in S : x = y
  PROVE  Cardinality(S) <= 1
<1>1. CASE S = {}
  BY <1>1, FS_EmptySet
<1>2. CASE S # {}
  <2>1. PICK x : S = {x}
    BY <1>2
  <2> QED BY <2>1, FS_Singleton
<1> QED BY <1>1, <1>2

-----------------------------------------------------------------------------
(* The requests.                                                             *)

\* The step of a request keeps the invariant if its new locals do, if what it
\* is admitted to was open, and if it takes the write lock only when it is
\* free and gives back only its own.
LEMMA RequestMoves ==
  ASSUME DeliveryInv, Witness, NEW r \in Requests, NEW q \in Request,
         request' = [request EXCEPT ![r] = q],
         Sound(q),
         Admits(q) => r \in entitled \/ (q.stage \notin {"new", "done"} /\ Open),
         Registers(q) => writer' = r /\ q.device \in Devices
                                     /\ q.device[1] \notin Distinct(devices),
         q.stage = "insert" =>
             user.exists /\ available(user.limit, Cardinality(Distinct(devices))),
         \/ writer' = writer
         \/ writer' = r /\ writer = Nothing
         \/ writer' = Nothing /\ writer = r,
         rules' \in [RuleIds -> Rule \cup {Nothing}],
         UNCHANGED <<user, devices, templates, redeemer, editor, edits>>
  PROVE  DeliveryInv'
<1> USE DeliveryAssumption
<1>1. request'[r] = q /\ \A s \in Requests : s # r => request'[s] = request[s]
  BY DEF DeliveryInv, TypeOK
<1>2. entitled \subseteq entitled' /\ entitled' \subseteq Requests
  BY DEF DeliveryInv, TypeOK, Witness
<1>3. TypeOK'
  BY <1>2 DEF DeliveryInv, TypeOK
<1>4. RequestsAreSound'
  BY <1>1 DEF DeliveryInv, RequestsAreSound
<1>5. AdmittedWhileOpen'
  <2>1. Admits(q) => r \in entitled'
    BY <1>1, <1>2 DEF Witness, Open
  <2>2. ASSUME NEW s \in Requests, s # r, Admits(request'[s]) PROVE s \in entitled'
    BY <1>1, <1>2, <2>2 DEF DeliveryInv, AdmittedWhileOpen
  <2> QED BY <1>1, <2>1, <2>2 DEF AdmittedWhileOpen
<1>6. RegistrationsHoldTheLock'
  <2>1. Registration(r, request[r])'
    BY <1>1 DEF Registration
  <2>2. ASSUME NEW s \in Requests, s # r PROVE Registration(s, request[s])'
    <3>1. Registration(s, request[s]) /\ request'[s] = request[s]
      BY <1>1, <2>2 DEF DeliveryInv, RegistrationsHoldTheLock
    <3>2. writer = s => writer' = s
      BY <2>2
    <3> QED BY <3>1, <3>2 DEF Registration, Registers
  <2> QED BY <2>1, <2>2 DEF RegistrationsHoldTheLock
<1>7. IsFiniteSet(Distinct(devices))' /\ LinkIsGivenOnce' /\ LoadedHasALink'
  BY DEF DeliveryInv, LinkIsGivenOnce, LoadedHasALink, Given
<1> QED BY <1>3, <1>4, <1>5, <1>6, <1>7 DEF DeliveryInv

\* A refusal keeps the invariant; it gives back the lock if the request held it.
LEMMA RefuseStep ==
  ASSUME DeliveryInv, Witness, NEW r \in Requests, NEW answer \in {"denied", "error"},
         Refuse(r, answer),
         writer' = writer \/ (writer' = Nothing /\ writer = r),
         rules' \in [RuleIds -> Rule \cup {Nothing}],
         UNCHANGED <<user, devices, templates, redeemer, editor, edits>>
  PROVE  DeliveryInv'
<1> DEFINE q == [NewRequest EXCEPT !.stage = "done", !.answer = answer]
<1>1. q \in Request /\ Sound(q) /\ ~Admits(q) /\ ~Registers(q) /\ q.stage # "insert"
  BY Refused DEF Registers
<1>2. request' = [request EXCEPT ![r] = q]
  BY DEF Refuse
<1> HIDE DEF q
<1> QED BY <1>1, <1>2, RequestMoves

\* A step that only moves on a request that is admitted already keeps the
\* invariant, if the stage it moves to fits.
LEMMA GotoStep ==
  ASSUME DeliveryInv, Witness, NEW r \in Requests, NEW stage \in Stages,
         Goto(r, stage),
         stage \notin {"new", "count", "insert", "done"},
         request[r].answer = "none",
         stage = "page" /\ request[r].rule # Nothing => request[r].rule.type = "browser",
         stage = "details" => request[r].kind = "info",
         stage # "access" => r \in entitled \/ Open,
         UNCHANGED <<stores, redeemer, editor, writer, edits>>
  PROVE  DeliveryInv'
<1> DEFINE q == [request[r] EXCEPT !.stage = stage]
<1>1. q \in Request /\ q.stage = stage /\ q.answer = "none" /\ q.kind = request[r].kind
      /\ q.rule = request[r].rule
  BY RequestFields DEF Request
<1>2. Sound(q) /\ ~Registers(q) /\ (Admits(q) => stage # "access")
  BY <1>1 DEF Sound, FormatHolds, Registers, Admits
<1>3. request' = [request EXCEPT ![r] = q]
  BY DEF Goto
<1>4. rules' \in [RuleIds -> Rule \cup {Nothing}]
  BY DEF DeliveryInv, TypeOK, stores
<1> HIDE DEF q
<1> QED BY <1>1, <1>2, <1>3, <1>4, RequestMoves DEF stores, Registers

\* The stages that follow an admission.
LEMMA AdmittedFits ==
  ASSUME DeliveryInv, NEW r \in Requests
  PROVE  /\ Admitted(r) \in {"details", "render", "page"}
         /\ Admitted(r) = "page" /\ request[r].rule # Nothing => request[r].rule.type = "browser"
         /\ Admitted(r) = "details" => request[r].kind = "info"
  BY DEF Admitted

\* A request at work has no answer yet.
LEMMA Unanswered ==
  ASSUME DeliveryInv, NEW r \in Requests, request[r].stage # "done"
  PROVE  request[r].answer = "none"
  BY RequestFields DEF Sound

\* A new request has been admitted to nothing.
LEMMA ArriveStep ==
  ASSUME DeliveryInv, Witness, NEW r \in Requests, Arrive(r)
  PROVE  DeliveryInv'
<1>1. PICK o \in Offers(r) \cap Offer :
        request' = [request EXCEPT ![r] = [NewRequest EXCEPT !.stage = "access", !.kind = o.kind,
                        !.client = o.client, !.sid = o.sid, !.device = o.device]]
  BY DEF Arrive
<1> DEFINE q == [NewRequest EXCEPT !.stage = "access", !.kind = o.kind,
                        !.client = o.client, !.sid = o.sid, !.device = o.device]
<1>2. q \in Request
  BY DEF NewRequest, Request, Offer, Stages
<1>3. Sound(q) /\ ~Registers(q) /\ ~Admits(q) /\ q.stage # "insert"
  BY DEF NewRequest, Sound, FormatHolds, Registers, Admits
<1>4. rules' \in [RuleIds -> Rule \cup {Nothing}]
  BY DEF DeliveryInv, TypeOK, stores, Arrive
<1>5. UNCHANGED <<user, devices, templates, redeemer, editor, writer, edits>>
  BY DEF Arrive, stores
<1>6. request' = [request EXCEPT ![r] = q]
  BY <1>1
<1> HIDE DEF q
<1> QED BY <1>6, <1>2, <1>3, <1>4, <1>5, RequestMoves

\* Access is granted only to a subscription that is open then.
LEMMA CheckAccessStep ==
  ASSUME DeliveryInv, Witness, NEW r \in Requests, CheckAccess(r)
  PROVE  DeliveryInv'
<1>1. CASE subscriptionAccessAllowed(r)
  <2>1. Open /\ Goto(r, "context") /\ request[r].answer = "none"
    BY <1>1, Unanswered DEF subscriptionAccessAllowed, accessDecision, Found, Open, CheckAccess, At,
         DeliveryInv, TypeOK, User
  <2> QED BY <2>1, GotoStep DEF CheckAccess, Stages
<1>2. CASE ~subscriptionAccessAllowed(r)
  <2>1. Refuse(r, "denied") /\ rules' = rules /\ writer' = writer
        /\ UNCHANGED <<user, devices, templates, redeemer, editor, edits>>
    BY <1>2 DEF CheckAccess, stores
  <2> QED BY <2>1, RefuseStep DEF DeliveryInv, TypeOK
<1> QED BY <1>1, <1>2

\* The row is read again, with the settings.
LEMMA LoadContextStep ==
  ASSUME DeliveryInv, Witness, NEW r \in Requests, LoadContext(r)
  PROVE  DeliveryInv'
<1>1. r \in entitled /\ request[r].answer = "none"
  BY RequestFields, Unanswered DEF LoadContext, At, Admits
<1>2. CASE Found(r)
  BY <1>1, <1>2, GotoStep DEF LoadContext, Stages
<1>3. CASE ~Found(r)
  <2>1. Refuse(r, "denied") /\ rules' = rules /\ writer' = writer
        /\ UNCHANGED <<user, devices, templates, redeemer, editor, edits>>
    BY <1>3 DEF LoadContext, stores
  <2> QED BY <2>1, RefuseStep DEF DeliveryInv, TypeOK
<1> QED BY <1>2, <1>3

\* A rule that cannot be decoded is disabled and the request fails; else the
\* first matching rule decides.
LEMMA ListRulesStep ==
  ASSUME DeliveryInv, Witness, NEW r \in Requests, ListRules(r)
  PROVE  DeliveryInv'
<1> DEFINE broken == {i \in Stored : ~rules[i].readable}
           rule == firstMatchingResponseRule(request[r].client)
           q == [request[r] EXCEPT !.stage = "device", !.rule = rule]
<1>1. TypeOK /\ r \in entitled /\ request[r].answer = "none"
  BY RequestFields, Unanswered DEF ListRules, At, Admits, DeliveryInv
<1>2. UNCHANGED <<user, devices, templates, redeemer, editor, writer, edits>>
  BY DEF ListRules
<1>3. CASE broken # {}
  <2>1. Refuse(r, "error") /\ rules' = [rules EXCEPT ![First(broken)].enabled = FALSE]
    BY <1>3 DEF ListRules
  <2>2. First(broken) \in Stored
    BY <1>1, <1>3, FirstIsAMember
  <2>3. rules[First(broken)] \in Rule /\ rules \in [RuleIds -> Rule \cup {Nothing}]
    BY <1>1, <2>2 DEF TypeOK, Stored
  <2>4. [rules[First(broken)] EXCEPT !.enabled = FALSE] \in Rule
    BY <2>3 DEF Rule
  <2>5. rules' \in [RuleIds -> Rule \cup {Nothing}]
    BY <2>1, <2>2, <2>3, <2>4 DEF Stored
  <2> QED BY <1>2, <2>1, <2>5, RefuseStep
<1>4. CASE broken = {}
  <2>1. rules' = rules /\ rules \in [RuleIds -> Rule \cup {Nothing}]
    BY <1>1, <1>4 DEF ListRules, TypeOK
  <2>2. CASE rule # Nothing /\ rule.type \in {"block", "not-found"}
    <3>1. Refuse(r, "denied")
      BY <1>4, <2>2 DEF ListRules
    <3> QED BY <1>2, <2>1, <3>1, RefuseStep
  <2>3. CASE ~(rule # Nothing /\ rule.type \in {"block", "not-found"})
    <3>1. request' = [request EXCEPT ![r] = q]
      BY <1>4, <2>3 DEF ListRules
    <3>2. rule \in Rule \cup {Nothing}
      BY <1>1, MatchingRuleType
    <3> HIDE DEF rule
    <3>3. q \in Request
      BY <3>2, RequestFields DEF Request, Stages
    <3>4. q.stage = "device" /\ q.answer = "none"
      BY <1>1, RequestFields DEF Request
    <3> HIDE DEF q
    <3>5. Sound(q) /\ ~Registers(q)
      BY <3>4 DEF Sound, FormatHolds, Registers
    <3> QED BY <1>1, <1>2, <2>1, <3>1, <3>3, <3>4, <3>5, RequestMoves DEF Registers
  <2> QED BY <2>2, <2>3
<1> QED BY <1>3, <1>4

\* A client without a device id.
LEMMA WithoutDeviceStep ==
  ASSUME DeliveryInv, Witness, NEW r \in Requests, WithoutDevice(r)
  PROVE  DeliveryInv'
<1>1. r \in entitled /\ request[r].answer = "none"
  BY RequestFields, Unanswered DEF WithoutDevice, At, Admits
<1>2. CASE Goto(r, Admitted(r))
  BY <1>1, <1>2, AdmittedFits, GotoStep DEF WithoutDevice, Stages
<1>3. CASE Refuse(r, "denied")
  <2>1. rules' = rules /\ writer' = writer
        /\ UNCHANGED <<user, devices, templates, redeemer, editor, edits>>
    BY DEF WithoutDevice, stores
  <2> QED BY <1>3, <2>1, RefuseStep DEF DeliveryInv, TypeOK
<1> QED BY <1>2, <1>3 DEF WithoutDevice

\* The write that opens the transaction takes the lock, unless the device is
\* known and there is no more to write.
LEMMA UpdateDeviceStep ==
  ASSUME DeliveryInv, Witness, NEW r \in Requests, UpdateDevice(r)
  PROVE  DeliveryInv'
<1>1. r \in entitled /\ request[r].answer = "none" /\ request[r].device \in Devices
  BY RequestFields, Unanswered DEF UpdateDevice, At, Admits
<1>2. UNCHANGED <<stores, redeemer, editor, edits>> /\ writer = Nothing
  BY DEF UpdateDevice, Unlocked
<1>3. CASE request[r].device[1] \in Distinct(devices)
  BY <1>1, <1>2, <1>3, AdmittedFits, GotoStep DEF UpdateDevice, Stages
<1>4. CASE request[r].device[1] \notin Distinct(devices)
  <2> DEFINE q == [request[r] EXCEPT !.stage = "count"]
  <2>1. request' = [request EXCEPT ![r] = q] /\ writer' = r
    BY <1>4 DEF UpdateDevice, Goto, BeginWriting
  <2>2. q \in Request /\ q.stage = "count" /\ q.answer = "none" /\ q.device = request[r].device
    BY <1>1, RequestFields DEF Request, Stages
  <2>3. rules' \in [RuleIds -> Rule \cup {Nothing}]
        /\ UNCHANGED <<user, devices, templates, redeemer, editor, edits>>
    BY <1>2 DEF DeliveryInv, TypeOK, stores
  <2> HIDE DEF q
  <2>4. Sound(q)
    BY <2>2 DEF Sound, FormatHolds
  <2> QED BY <1>1, <1>2, <1>4, <2>1, <2>2, <2>3, <2>4, RequestMoves
<1> QED BY <1>3, <1>4

\* The count is made under the lock, so what it finds still holds at the INSERT.
LEMMA CountDevicesStep ==
  ASSUME DeliveryInv, Witness, NEW r \in Requests, CountDevices(r)
  PROVE  DeliveryInv'
<1> DEFINE room == available(user.limit, Cardinality(Distinct(devices)))
<1>1. r \in entitled /\ request[r].answer = "none" /\ writer = r
      /\ request[r].device \in Devices /\ request[r].device[1] \notin Distinct(devices)
  BY RequestFields, Unanswered DEF CountDevices, At, Admits, Registration, Registers
<1>2. UNCHANGED <<user, devices, templates, redeemer, editor, edits>>
      /\ rules' \in [RuleIds -> Rule \cup {Nothing}]
  BY DEF CountDevices, stores, DeliveryInv, TypeOK
<1>3. CASE user.exists /\ room
  <2> DEFINE q == [request[r] EXCEPT !.stage = "insert"]
  <2>1. request' = [request EXCEPT ![r] = q] /\ writer' = r
    BY <1>1, <1>3 DEF CountDevices, Goto
  <2>2. q \in Request /\ q.stage = "insert" /\ q.answer = "none" /\ q.device = request[r].device
    BY <1>1, RequestFields DEF Request, Stages
  <2> HIDE DEF q
  <2>3. Sound(q)
    BY <2>2 DEF Sound, FormatHolds
  <2> QED BY <1>1, <1>2, <1>3, <2>1, <2>2, <2>3, RequestMoves
<1>4. CASE ~(user.exists /\ room)
  <2>1. PICK answer \in {"denied", "error"} : Refuse(r, answer) /\ writer' = Nothing
    BY <1>4 DEF CountDevices
  <2> QED BY <1>1, <1>2, <2>1, RefuseStep
<1> QED BY <1>3, <1>4

\* The ids of the devices after one more was written.
LEMMA OneMoreDevice ==
  ASSUME NEW ds, NEW d, d[1] \notin Distinct(ds), IsFiniteSet(Distinct(ds))
  PROVE  /\ IsFiniteSet(Distinct(ds \cup {d}))
         /\ Cardinality(Distinct(ds \cup {d})) = Cardinality(Distinct(ds)) + 1
<1>1. Distinct(ds \cup {d}) = Distinct(ds) \cup {d[1]}
  BY DEF Distinct
<1> QED BY <1>1, FS_AddElement

\* The device is written, and the lock given back.
LEMMA InsertDeviceStep ==
  ASSUME DeliveryInv, Witness, NEW r \in Requests, InsertDevice(r)
  PROVE  DeliveryInv'
<1> USE DeliveryAssumption
<1> DEFINE q == [request[r] EXCEPT !.stage = Admitted(r)]
<1>1. r \in entitled /\ request[r].answer = "none" /\ writer = r /\ writer' = Nothing
      /\ request[r].device \in Devices /\ devices' = devices \cup {request[r].device}
  BY RequestFields, Unanswered DEF InsertDevice, At, Admits, Registration, Registers
<1>2. request' = [request EXCEPT ![r] = q]
  BY DEF InsertDevice, Goto
<1>3. q \in Request /\ q.stage = Admitted(r) /\ q.answer = "none" /\ q.kind = request[r].kind
      /\ q.rule = request[r].rule
  BY <1>1, AdmittedFits, RequestFields DEF Request, Stages
<1>4. request'[r] = q /\ \A s \in Requests : s # r => request'[s] = request[s]
  BY <1>2 DEF DeliveryInv, TypeOK
<1>5. UNCHANGED <<user, rules, templates, redeemer, editor, edits>>
  BY DEF InsertDevice
<1>6. entitled \subseteq entitled' /\ entitled' \subseteq Requests
  BY DEF DeliveryInv, TypeOK, Witness
<1> HIDE DEF q
<1>7. TypeOK'
  BY <1>1, <1>2, <1>3, <1>5, <1>6 DEF DeliveryInv, TypeOK
<1>8. RequestsAreSound'
  <2>1. Sound(q)
    BY <1>3, AdmittedFits DEF Sound, FormatHolds
  <2> QED BY <1>4, <2>1 DEF DeliveryInv, RequestsAreSound
<1>9. AdmittedWhileOpen'
  BY <1>1, <1>4, <1>6 DEF DeliveryInv, AdmittedWhileOpen
<1>10. RegistrationsHoldTheLock'
  <2>1. \A s \in Requests : s # r => ~Registers(request[s])
    BY <1>1, RequestFields DEF Registration
  <2>2. \A s \in Requests : ~Registers(request'[s])
    BY <1>3, <1>4, <2>1, AdmittedFits DEF Registers
  <2> QED BY <2>2 DEF RegistrationsHoldTheLock, Registration, Registers
<1>11. IsFiniteSet(Distinct(devices))'
  <2>1. IsFiniteSet(Distinct(devices)) /\ request[r].device[1] \notin Distinct(devices)
    BY RequestFields DEF DeliveryInv, InsertDevice, At, Registration, Registers
  <2>2. IsFiniteSet(Distinct(devices \cup {request[r].device}))
    BY <2>1, OneMoreDevice
  <2> QED BY <1>1, <2>2
<1>12. LinkIsGivenOnce' /\ LoadedHasALink'
  BY <1>5 DEF DeliveryInv, LinkIsGivenOnce, LoadedHasALink, Given
<1> QED BY <1>7, <1>8, <1>9, <1>10, <1>11, <1>12 DEF DeliveryInv

\* The page asks for access once more; the details read the row once more.
LEMMA ServeStep ==
  ASSUME DeliveryInv, Witness, NEW r \in Requests, ServePage(r) \/ ServeDetails(r)
  PROVE  DeliveryInv'
<1> DEFINE q == [request[r] EXCEPT !.stage = "done", !.answer = "served"]
<1>1. r \in entitled /\ request[r].stage \in {"page", "details"}
      /\ UNCHANGED <<user, devices, templates, redeemer, editor, writer, edits>>
      /\ rules' \in [RuleIds -> Rule \cup {Nothing}]
  BY RequestFields DEF ServePage, ServeDetails, At, Admits, stores, DeliveryInv, TypeOK
<1>2. Refuse(r, "denied") \/ Serve(r)
  BY DEF ServePage, ServeDetails
<1>3. CASE Refuse(r, "denied")
  BY <1>1, <1>3, RefuseStep
<1>4. CASE Serve(r)
  <2>1. request' = [request EXCEPT ![r] = q]
    BY <1>4 DEF Serve
  <2>2. q \in Request /\ q.stage = "done" /\ q.kind = request[r].kind /\ q.rule = request[r].rule
    BY RequestFields DEF Request, Stages
  <2>3. q.rule # Nothing /\ q.kind # "info" => q.rule.type \notin Structured
    BY <1>1, <2>2, RequestFields DEF Sound, Structured
  <2> HIDE DEF q
  <2>4. Sound(q) /\ ~Registers(q) /\ q.stage # "insert"
    BY <2>2, <2>3 DEF Sound, FormatHolds, Registers
  <2> QED BY <1>1, <2>1, <2>2, <2>4, RequestMoves
<1> QED BY <1>2, <1>3, <1>4

\* The keys are generated, or there is none the format can express.
LEMMA GenerateStep ==
  ASSUME DeliveryInv, Witness, NEW r \in Requests, Generate(r)
  PROVE  DeliveryInv'
<1> DEFINE q == [request[r] EXCEPT !.body = "whole",
              !.stage = IF request[r].kind = "body" THEN "done" ELSE "template",
              !.answer = IF request[r].kind = "body" THEN "served" ELSE "none"]
<1>1. r \in entitled
      /\ UNCHANGED <<user, devices, templates, redeemer, editor, writer, edits>>
      /\ rules' \in [RuleIds -> Rule \cup {Nothing}]
  BY RequestFields DEF Generate, At, Admits, stores, DeliveryInv, TypeOK
<1>2. CASE Refuse(r, "denied")
  BY <1>1, <1>2, RefuseStep
<1>3. CASE ~Refuse(r, "denied")
  <2>1. request' = [request EXCEPT ![r] = q]
    BY <1>3 DEF Generate
  <2>2. q \in Request /\ q.body = "whole" /\ q.stage \in {"done", "template"}
        /\ (q.answer # "none" => q.stage = "done")
    BY RequestFields DEF Request, Stages
  <2> HIDE DEF q
  <2>3. Sound(q) /\ ~Registers(q) /\ q.stage # "insert"
    BY <2>2 DEF Sound, FormatHolds, Registers
  <2> QED BY <1>1, <2>1, <2>2, <2>3, RequestMoves
<1> QED BY <1>2, <1>3

\* A structured body is validated after the template was applied.
LEMMA ApplyTemplateStep ==
  ASSUME DeliveryInv, Witness, NEW r \in Requests, ApplyTemplate(r)
  PROVE  DeliveryInv'
<1>0. PICK template \in loadTemplate(request[r].rule) :
        request' = [request EXCEPT ![r].stage = "done",
            ![r].body = IF request[r].rule = Nothing THEN request[r].body
                        ELSE templated(request[r].rule, template, request[r].body),
            ![r].answer =
                IF ValidateStructuredBody(
                    IF request[r].rule = Nothing THEN "plain" ELSE request[r].rule.type,
                    IF request[r].rule = Nothing THEN request[r].body
                    ELSE templated(request[r].rule, template, request[r].body))
                THEN "served" ELSE "denied"]
  BY DEF ApplyTemplate
<1> DEFINE rule == request[r].rule
           body == IF rule = Nothing THEN request[r].body
                   ELSE templated(rule, template, request[r].body)
           type == IF rule = Nothing THEN "plain" ELSE rule.type
           answer == IF ValidateStructuredBody(type, body) THEN "served" ELSE "denied"
           q == [request[r] EXCEPT !.stage = "done", !.body = body, !.answer = answer]
<1>1. r \in entitled
      /\ UNCHANGED <<user, devices, templates, redeemer, editor, writer, edits>>
      /\ rules' \in [RuleIds -> Rule \cup {Nothing}]
  BY RequestFields DEF ApplyTemplate, At, Admits, stores, DeliveryInv, TypeOK
<1>2. request' = [request EXCEPT ![r] = q]
  BY <1>0
<1>3. body \in {"none", "whole", "torn"}
  BY RequestFields DEF templated
<1>4. answer = "served" => ValidateStructuredBody(type, body)
  OBVIOUS
<1>5. answer \in {"served", "denied"}
  OBVIOUS
<1> HIDE DEF body, answer
<1>6. q \in Request /\ q.stage = "done" /\ q.rule = request[r].rule /\ q.body = body
      /\ q.answer = answer
  BY <1>3, <1>5, RequestFields DEF Request, Stages
<1> HIDE DEF q
<1>7. Sound(q) /\ ~Registers(q) /\ q.stage # "insert"
  BY <1>4, <1>6 DEF Sound, FormatHolds, Registers, ValidateStructuredBody
<1> QED BY <1>1, <1>2, <1>6, <1>7, RequestMoves

\* A failure answers with an error, and rolls back a registration.
LEMMA FailRequestStep ==
  ASSUME DeliveryInv, Witness, NEW r \in Requests, FailRequest(r)
  PROVE  DeliveryInv'
<1>1. Refuse(r, "error") /\ rules' = rules /\ (writer' = writer \/ (writer' = Nothing /\ writer = r))
      /\ UNCHANGED <<user, devices, templates, redeemer, editor, edits>>
  BY DEF FailRequest, stores
<1> QED BY <1>1, RefuseStep DEF DeliveryInv, TypeOK

\* Every step of a request keeps the invariant.
LEMMA HandleStep ==
  ASSUME DeliveryInv, Witness, NEW r \in Requests, Handle(r)
  PROVE  DeliveryInv'
BY ArriveStep, CheckAccessStep, LoadContextStep, ListRulesStep, WithoutDeviceStep,
   UpdateDeviceStep, CountDevicesStep, InsertDeviceStep, ServeStep, GenerateStep,
   ApplyTemplateStep, FailRequestStep DEF Handle

-----------------------------------------------------------------------------
(* The redeemers and the administrators.                                     *)

\* While nobody handles a request, what the requests rest on stays: the
\* history only grows, and a registration under way means nothing it counted
\* on has changed.
LEMMA RequestsStay ==
  ASSUME DeliveryInv, Witness, UNCHANGED <<request, writer>>,
         \/ Unlocked
         \/ user'.exists = user.exists /\ user'.limit = user.limit /\ devices' = devices
  PROVE  RequestsAreSound' /\ AdmittedWhileOpen' /\ RegistrationsHoldTheLock'
         /\ entitled' \in SUBSET Requests
<1> USE DeliveryAssumption
<1>1. entitled \subseteq entitled' /\ entitled' \subseteq Requests
  BY DEF DeliveryInv, TypeOK, Witness
<1>2. RequestsAreSound' /\ AdmittedWhileOpen'
  BY <1>1 DEF DeliveryInv, RequestsAreSound, AdmittedWhileOpen
<1>3. RegistrationsHoldTheLock'
  <2>1. CASE Unlocked
    <3>1. \A r \in Requests : ~Registers(request[r])
      BY <2>1 DEF DeliveryInv, RegistrationsHoldTheLock, Registration, Unlocked
    <3> QED BY <3>1 DEF RegistrationsHoldTheLock, Registration, Registers
  <2>2. CASE user'.exists = user.exists /\ user'.limit = user.limit /\ devices' = devices
    BY <2>2 DEF DeliveryInv, RegistrationsHoldTheLock, Registration
  <2> QED BY <2>1, <2>2
<1> QED BY <1>1, <1>2, <1>3

\* What an attempt writes: either nothing, or the claim of an unclaimed code
\* with the address it gives.
LEMMA RedeemEffect ==
  ASSUME DeliveryInv, NEW d \in Redeemers, Redeem(d)
  PROVE  \E to \in Redeemer :
           /\ redeemer' = [redeemer EXCEPT ![d] = to]
           /\ to.stage # "new" => to.link \in Sids
           /\ \/ user' = user /\ to.stage # "given"
              \/ /\ user' \in User /\ user'.exists = user.exists /\ user'.limit = user.limit
                 /\ ~user.used /\ user'.used
                 /\ to.stage = "given" => to.link = user'.sid
<1>1. CASE LoadActivation(d)
  <2> DEFINE to == [stage |-> "loaded", link |-> user.sid]
  <2>1. redeemer' = [redeemer EXCEPT ![d] = to] /\ user' = user
    BY <1>1 DEF LoadActivation, stores, activationSubscriptionID
  <2>2. to \in Redeemer /\ to.link \in Sids
    BY DEF DeliveryInv, TypeOK, User, Redeemer
  <2> QED BY <2>1, <2>2
<1>2. CASE FailRedeemer(d)
  <2>1. NewRedeemer \in Redeemer /\ NewRedeemer.stage = "new"
    BY DEF Redeemer, NewRedeemer
  <2> QED BY <1>2, <2>1 DEF FailRedeemer, stores
<1>3. CASE Claim(d)
  <2> DEFINE to == [redeemer[d] EXCEPT !.stage = "given"]
             claimed == [user EXCEPT !.used = TRUE, !.sid = redeemer[d].link]
  <2>1. NewRedeemer \in Redeemer /\ NewRedeemer.stage = "new"
    BY DEF Redeemer, NewRedeemer
  <2>2. redeemer[d].link \in Sids /\ redeemer[d] \in Redeemer /\ user \in User
    BY <1>3 DEF Claim, DeliveryInv, LoadedHasALink, TypeOK
  <2>3. to \in Redeemer /\ to.link = redeemer[d].link
    BY <2>2 DEF Redeemer
  <2>4. claimed \in User /\ claimed.exists = user.exists /\ claimed.limit = user.limit
        /\ claimed.used /\ claimed.sid = redeemer[d].link
    BY <2>2 DEF User
  <2>5. CASE Unclaimed(user)
    <3>1. user' = claimed /\ ~user.used
      BY <1>3, <2>5 DEF Claim, Unclaimed
    <3>2. redeemer' = [redeemer EXCEPT ![d] = to] \/ redeemer' = [redeemer EXCEPT ![d] = NewRedeemer]
      BY <1>3, <2>5 DEF Claim
    <3> HIDE DEF to, claimed
    <3> QED BY <2>1, <2>2, <2>3, <2>4, <3>1, <3>2
  <2>6. CASE ~Unclaimed(user)
    <3>1. user' = user /\ redeemer' = [redeemer EXCEPT ![d] = NewRedeemer]
      BY <1>3, <2>6 DEF Claim
    <3> QED BY <2>1, <3>1
  <2> QED BY <2>5, <2>6
<1> QED BY <1>1, <1>2, <1>3 DEF Redeem

\* A code is claimed only while it is unclaimed, so nobody has its link yet,
\* and the claim writes the address that is given.
LEMMA RedeemStep ==
  ASSUME DeliveryInv, Witness, NEW d \in Redeemers, Redeem(d)
  PROVE  DeliveryInv'
<1>1. UNCHANGED <<request, writer, devices, rules, templates, editor, edits>>
  BY DEF Redeem, LoadActivation, Claim, FailRedeemer, stores
<1>2. PICK to \in Redeemer :
        /\ redeemer' = [redeemer EXCEPT ![d] = to]
        /\ to.stage # "new" => to.link \in Sids
        /\ \/ user' = user /\ to.stage # "given"
           \/ /\ user' \in User /\ user'.exists = user.exists /\ user'.limit = user.limit
              /\ ~user.used /\ user'.used
              /\ to.stage = "given" => to.link = user'.sid
  BY RedeemEffect
<1>3. redeemer'[d] = to /\ \A e \in Redeemers : e # d => redeemer'[e] = redeemer[e]
  BY <1>2 DEF DeliveryInv, TypeOK
<1>4. RequestsAreSound' /\ AdmittedWhileOpen' /\ RegistrationsHoldTheLock'
      /\ entitled' \in SUBSET Requests
  BY <1>1, <1>2, RequestsStay
<1>5. TypeOK'
  BY <1>1, <1>2, <1>4 DEF DeliveryInv, TypeOK
<1>6. LoadedHasALink' /\ IsFiniteSet(Distinct(devices))'
  BY <1>1, <1>2, <1>3 DEF DeliveryInv, LoadedHasALink
<1>7. LinkIsGivenOnce'
  <2>1. CASE user' = user /\ to.stage # "given"
    BY <1>3, <2>1 DEF DeliveryInv, LinkIsGivenOnce, Given
  <2>2. CASE /\ ~user.used /\ user'.used
             /\ to.stage = "given" => to.link = user'.sid
    <3>1. \A e \in Redeemers : ~Given(e)
      BY <2>2 DEF DeliveryInv, LinkIsGivenOnce
    <3> QED BY <1>3, <2>2, <3>1 DEF LinkIsGivenOnce, Given
  <2> QED BY <1>2, <2>1, <2>2
<1> QED BY <1>4, <1>5, <1>6, <1>7 DEF DeliveryInv

\* A step that leaves the requests and redeemers alone keeps the invariant if
\* it adds no device, keeps the address and the claim, and waits for the
\* registration that holds the lock before it touches what that counted on.
LEMMA AdministratorMoves ==
  ASSUME DeliveryInv, Witness, UNCHANGED <<request, redeemer, writer>>,
         \/ Unlocked
         \/ user'.exists = user.exists /\ user'.limit = user.limit /\ devices' = devices,
         user' \in User, user'.used = user.used, user'.sid = user.sid,
         devices' \subseteq devices,
         rules' \in [RuleIds -> Rule \cup {Nothing}],
         templates' \in [Templates -> Template \cup {Nothing}],
         editor' \in Editor \cup {Nothing},
         edits' \in 0..MaxEdits
  PROVE  DeliveryInv'
<1>1. RequestsAreSound' /\ AdmittedWhileOpen' /\ RegistrationsHoldTheLock'
      /\ entitled' \in SUBSET Requests
  BY RequestsStay
<1>2. TypeOK'
  BY <1>1 DEF DeliveryInv, TypeOK
<1>3. IsFiniteSet(Distinct(devices))'
  <2>1. Distinct(devices') \in SUBSET Distinct(devices)
    BY DEF Distinct
  <2>2. IsFiniteSet(Distinct(devices'))
    BY <2>1, FS_Subset DEF DeliveryInv
  <2> QED BY <2>2
<1>4. LinkIsGivenOnce' /\ LoadedHasALink'
  BY DEF DeliveryInv, LinkIsGivenOnce, LoadedHasALink, Given
<1> QED BY <1>1, <1>2, <1>3, <1>4 DEF DeliveryInv

\* The types before the step.
LEMMA StoreTypes ==
  ASSUME DeliveryInv
  PROVE  /\ user \in User /\ rules \in [RuleIds -> Rule \cup {Nothing}]
         /\ templates \in [Templates -> Template \cup {Nothing}]
         /\ editor \in Editor \cup {Nothing} /\ edits \in 0..MaxEdits
         /\ Edit => edits' \in 0..MaxEdits
  BY DeliveryAssumption DEF DeliveryInv, TypeOK, Edit

\* Changes of the row of the user.
LEMMA UserStep ==
  ASSUME DeliveryInv, Witness, ChangeUser \/ apiUpdateUserHWID \/ DeleteUser \/ Pass
  PROVE  DeliveryInv'
<1>1. UNCHANGED <<request, redeemer, writer, rules, templates, editor>> /\ edits' \in 0..MaxEdits
  BY StoreTypes DEF ChangeUser, apiUpdateUserHWID, DeleteUser, Pass
<1>2. /\ user' \in User /\ user'.used = user.used /\ user'.sid = user.sid
      /\ Unlocked \/ (user'.exists = user.exists /\ user'.limit = user.limit /\ devices' = devices)
      /\ devices' \subseteq devices
  <2>1. CASE ChangeUser
    BY <2>1, StoreTypes DEF ChangeUser, User
  <2>2. CASE apiUpdateUserHWID
    BY <2>2, StoreTypes DEF apiUpdateUserHWID, User
  <2>3. CASE DeleteUser
    BY <2>3, StoreTypes DEF DeleteUser, User
  <2>4. CASE Pass
    BY <2>4, StoreTypes DEF Pass, User
  <2> QED BY <2>1, <2>2, <2>3, <2>4
<1> QED BY <1>1, <1>2, StoreTypes, AdministratorMoves

\* A rule that loses its template is still a rule.
LEMMA EmptiedRule ==
  ASSUME NEW rule \in Rule \cup {Nothing}, NEW t
  PROVE  WithoutTemplate(rule, t) \in Rule \cup {Nothing}
BY DEF WithoutTemplate, Rule

\* What an editor holds is a rule, wherever it is written.
LEMMA SaveRuleKeepsRules ==
  ASSUME DeliveryInv, SaveRule
  PROVE  rules' \in [RuleIds -> Rule \cup {Nothing}]
<1>1. CASE rules' = rules
  BY <1>1, StoreTypes
<1>2. CASE rules' # rules
  <2>1. editor.input \in Rule
    BY StoreTypes DEF SaveRule, Editor
  <2>2. CASE editor.id = Nothing
    BY <1>2, <2>1, <2>2, StoreTypes DEF SaveRule, createRule
  <2>3. CASE editor.id # Nothing
    BY <1>2, <2>1, <2>3, StoreTypes DEF SaveRule, updateRule
  <2> QED BY <2>2, <2>3
<1> QED BY <1>1, <1>2

\* Changes of devices, rules and templates.
LEMMA RowsStep ==
  ASSUME DeliveryInv, Witness,
         \/ SaveRuleBegin \/ SaveRule
         \/ \E d \in Devices : apiDeleteUserHWID(d)
         \/ \E i \in RuleIds : DeleteRule(i)
         \/ \E t \in Templates : CreateTemplate(t) \/ UpdateTemplate(t) \/ DeleteTemplate(t)
  PROVE  DeliveryInv'
<1> USE InputsAreDecoded
<1>1. UNCHANGED <<user, request, redeemer, writer>> /\ edits' \in 0..MaxEdits
  BY StoreTypes DEF SaveRule, apiDeleteUserHWID, SaveRuleBegin, DeleteRule, CreateTemplate,
                    UpdateTemplate, DeleteTemplate, stores
<1>2. devices' \subseteq devices /\ (Unlocked \/ devices' = devices)
  BY DEF SaveRule, apiDeleteUserHWID, SaveRuleBegin, DeleteRule, CreateTemplate, UpdateTemplate,
         DeleteTemplate, stores
<1>3. rules' \in [RuleIds -> Rule \cup {Nothing}]
  <2>1. CASE SaveRule
    BY <2>1, SaveRuleKeepsRules
  <2>2. CASE \E i \in RuleIds : DeleteRule(i)
    BY <2>2, StoreTypes DEF DeleteRule
  <2>3. CASE \E t \in Templates : DeleteTemplate(t)
    BY <2>3, StoreTypes, EmptiedRule DEF DeleteTemplate
  <2>4. CASE rules' = rules
    BY <2>4, StoreTypes
  <2> QED BY <2>1, <2>2, <2>3, <2>4 DEF apiDeleteUserHWID, SaveRuleBegin, CreateTemplate,
                                        UpdateTemplate, stores
<1>4. templates' \in [Templates -> Template \cup {Nothing}]
  <2>1. CASE \E t \in Templates : CreateTemplate(t) \/ UpdateTemplate(t) \/ DeleteTemplate(t)
    BY <2>1, StoreTypes DEF CreateTemplate, UpdateTemplate, DeleteTemplate
  <2>2. CASE templates' = templates
    BY <2>2, StoreTypes
  <2> QED BY <2>1, <2>2 DEF SaveRule, apiDeleteUserHWID, SaveRuleBegin, DeleteRule, stores
<1>5. editor' \in Editor \cup {Nothing}
  <2>1. CASE SaveRuleBegin
    BY <2>1, StoreTypes DEF SaveRuleBegin, Editor
  <2>2. CASE editor' = editor \/ editor' = Nothing
    BY <2>2, StoreTypes
  <2> QED BY <2>1, <2>2 DEF SaveRule, apiDeleteUserHWID, DeleteRule, CreateTemplate, UpdateTemplate,
                            DeleteTemplate
<1> QED BY <1>1, <1>2, <1>3, <1>4, <1>5, StoreTypes, AdministratorMoves

-----------------------------------------------------------------------------
(* The specification.                                                        *)

\* The first state: nobody has asked for anything, no device is known.
LEMMA InitInv == Init => DeliveryInv
<1> SUFFICES ASSUME Init PROVE DeliveryInv
  OBVIOUS
<1> USE InputsAreDecoded, DeliveryAssumption
<1>1. NewRequest \in Request /\ Sound(NewRequest) /\ ~Admits(NewRequest) /\ ~Registers(NewRequest)
      /\ NewRequest.stage # "insert"
  BY DEF NewRequest, Request, Stages, Kinds, Sound, FormatHolds, Admits, Registers
<1>2. NewRedeemer \in Redeemer /\ NewRedeemer.stage = "new"
  BY DEF NewRedeemer, Redeemer
<1>3. \A i \in RuleInputs : [i EXCEPT !.readable = FALSE] \in Rule
  BY DEF Rule
<1>4. TypeOK
  BY <1>1, <1>2, <1>3 DEF Init, TypeOK
<1>5. RequestsAreSound /\ AdmittedWhileOpen /\ RegistrationsHoldTheLock
  BY <1>1 DEF Init, RequestsAreSound, AdmittedWhileOpen, RegistrationsHoldTheLock, Registration
<1>6. IsFiniteSet(Distinct(devices))
  <2>1. Distinct(devices) = {}
    BY DEF Init, Distinct
  <2> QED BY <2>1, FS_EmptySet
<1>7. LinkIsGivenOnce /\ LoadedHasALink
  BY <1>2 DEF Init, LinkIsGivenOnce, LoadedHasALink, Given
<1> QED BY <1>4, <1>5, <1>6, <1>7 DEF DeliveryInv

\* Every step keeps the invariant.
LEMMA NextInv == DeliveryInv /\ [Next]_vars => DeliveryInv'
<1> SUFFICES ASSUME DeliveryInv, [Next]_vars PROVE DeliveryInv'
  OBVIOUS
<1>1. CASE Next
  BY <1>1, HandleStep, RedeemStep, UserStep, RowsStep DEF Next, Administer
<1>2. CASE UNCHANGED vars
  BY <1>2 DEF vars, DeliveryInv, TypeOK, RequestsAreSound, AdmittedWhileOpen,
       RegistrationsHoldTheLock, Registration, LinkIsGivenOnce, LoadedHasALink, Given
<1> QED BY <1>1, <1>2

\* The inductive invariant holds of every state.
THEOREM DeliveryInvariant == Spec => []DeliveryInv
  BY InitInv, NextInv, PTL DEF Spec

\* Type correctness of the rows and of the locals of every request.
THEOREM DeliveryTypes == Spec => []TypeOK
<1>1. DeliveryInv => TypeOK
  BY DEF DeliveryInv
<1> QED BY <1>1, DeliveryInvariant, PTL

\* A request is served, or registers a device, only if the subscription was
\* open while it was handled; a structured answer is in the format its rule
\* names, whatever became of the template: changed, deleted, or not read
\* (AnswersAreSound).
THEOREM AnswersAreEntitled == Spec => []AnswersAreSound
<1>1. DeliveryInv => AnswersAreSound
  BY DEF DeliveryInv, RequestsAreSound, AdmittedWhileOpen, AnswersAreSound, Sound, FormatHolds,
         Admits
<1> QED BY <1>1, DeliveryInvariant, PTL

\* A code is redeemed once, for the subscription's own address (RedeemedOnce).
THEOREM CodesAreRedeemedOnce == Spec => []RedeemedOnce
<1>1. DeliveryInv => RedeemedOnce
  <2> SUFFICES ASSUME DeliveryInv PROVE RedeemedOnce
    OBVIOUS
  <2> DEFINE given == {d \in Redeemers : redeemer[d].stage = "given"}
  <2>1. \A d, e \in given : d = e
    BY DEF DeliveryInv, LinkIsGivenOnce, Given
  <2>2. Cardinality(given) <= 1
    BY <2>1, AtMostOne
  <2>3. \A d \in given : user.used /\ user.sid = redeemer[d].link
    BY DEF DeliveryInv, LinkIsGivenOnce, Given
  <2> QED BY <2>2, <2>3 DEF RedeemedOnce
<1> QED BY <1>1, DeliveryInvariant, PTL

\* Only a registration adds a device.
LEMMA OnlyInsertAdds ==
  ASSUME [Next]_vars
  PROVE  devices' \subseteq devices \/ \E r \in Requests : InsertDevice(r)
<1>1. ASSUME NEW r \in Requests, Handle(r) PROVE devices' = devices \/ InsertDevice(r)
  BY <1>1 DEF Handle, Arrive, CheckAccess, LoadContext, ListRules, WithoutDevice, UpdateDevice,
       CountDevices, ServePage, ServeDetails, Generate, ApplyTemplate, FailRequest, stores
<1>2. ASSUME NEW d \in Redeemers, Redeem(d) PROVE devices' = devices
  BY <1>2 DEF Redeem, LoadActivation, Claim, FailRedeemer, stores
<1>3. ASSUME Administer PROVE devices' \subseteq devices
  BY <1>3 DEF Administer, ChangeUser, apiUpdateUserHWID, DeleteUser, SaveRule, apiDeleteUserHWID,
       SaveRuleBegin, DeleteRule, CreateTemplate, UpdateTemplate, DeleteTemplate, stores
<1> QED BY <1>1, <1>2, <1>3 DEF Next, Pass, vars

\* However many devices register at once, and whatever administrators change
\* meanwhile, one is added only while there is room (DevicesWithinLimit).
THEOREM DevicesFitTheLimit == Spec => DevicesWithinLimit
<1> DEFINE Fits == Distinct(devices') # Distinct(devices) /\ devices \subseteq devices' =>
                     \/ user.limit = 0
                     \/ Cardinality(Distinct(devices')) <= user.limit
<1>1. ASSUME DeliveryInv, [Next]_vars PROVE Fits
  <2>1. CASE devices' \subseteq devices
    <3>1. devices \subseteq devices' => devices' = devices
      BY <2>1
    <3> QED BY <3>1
  <2>2. ASSUME NEW r \in Requests, InsertDevice(r) PROVE Fits
    <3>1. request[r].device[1] \notin Distinct(devices) /\ IsFiniteSet(Distinct(devices))
          /\ available(user.limit, Cardinality(Distinct(devices)))
          /\ devices' = devices \cup {request[r].device}
      BY <1>1, <2>2, RequestFields DEF DeliveryInv, InsertDevice, At, Registration, Registers
    <3>2. Cardinality(Distinct(devices')) = Cardinality(Distinct(devices)) + 1
      BY <3>1, OneMoreDevice
    <3>3. Cardinality(Distinct(devices)) \in Nat /\ user.limit \in Nat
      BY <1>1, <3>1, StoreTypes, FS_CardinalityType, DeliveryAssumption DEF User
    <3> QED BY <3>1, <3>2, <3>3 DEF available
  <2> QED BY <1>1, <2>1, <2>2, OnlyInsertAdds
<1>2. Spec => [][Fits]_vars
  BY <1>1, DeliveryInvariant, PTL DEF Spec
<1> QED BY <1>2 DEF DevicesWithinLimit
=============================================================================
