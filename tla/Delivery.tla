----------------------------- MODULE Delivery -----------------------------
(***************************************************************************)
(* One subscription as its clients see it: the redemption of its activation *)
(* code, the requests that fetch it, the devices they register, the         *)
(* response rules and templates that decide the answer, and the             *)
(* administrators who change all of these meanwhile.                        *)
(*                                                                         *)
(* A request reads the access columns, the row again with the settings, the *)
(* rules, and the template by statements of their own; only the registration*)
(* of a device is a transaction, which takes SQLite's write lock with its   *)
(* first UPDATE.                                                            *)
(***************************************************************************)
EXTENDS Naturals, FiniteSets

CONSTANTS
    Requests,           \* requests of clients, each handled once
    Redeemers,          \* people who enter the activation code
    Hwids, Spellings,   \* a device's id, and the ways it is written
    Sids,               \* subscription ids
    Clients,            \* classes of clients that the rules' conditions tell apart
    Offers(_),          \* what a request may be: its handler, client, id and device
    RuleIds, Templates, \* rows an administrator may have created
    RuleInputs,         \* the rules an administrator may send
    TemplateInputs,     \* the templates an administrator may send
    Limits,             \* values of max_devices
    MaxEdits,           \* bound: edits by administrators
    Nothing

ASSUME DeliveryAssumption ==
    /\ RuleIds \subseteq Nat /\ Limits \subseteq Nat /\ MaxEdits \in Nat
    /\ Nothing \notin Templates \cup Requests \cup RuleIds

VARIABLES
    user,       \* the row of users
    devices,    \* SUBSET Devices: user_devices as written by the clients
    rules,      \* [RuleIds -> rule or Nothing]: response_rules
    templates,  \* [Templates -> template or Nothing]: subscription_templates
    request,    \* [Requests -> record]: the handler's locals
    redeemer,   \* [Redeemers -> record]: redeemActivationCode's locals
    editor,     \* saveResponseRule's locals, between its two statements; a new rule has no id
    writer,     \* the request that holds the write lock
    edits,      \* number of edits so far
    entitled    \* history: requests during which the subscription was open

vars == <<user, devices, rules, templates, request, redeemer, editor, writer, edits, entitled>>
stores == <<user, devices, rules, templates>>

\* A device is an id as it was written; its normalized form is the id alone.
Devices == Hwids \X Spellings
Distinct(ds) == {d[1] : d \in ds}

ResponseTypes == {"browser", "base64", "plain", "xray-json", "mihomo", "sing-box",
                  "block", "not-found"}
Structured == {"xray-json", "mihomo", "sing-box"}
Template == [format : ResponseTypes \ {"browser", "block", "not-found"}, enabled : BOOLEAN,
             sound : BOOLEAN]
Rule == [enabled : BOOLEAN, priority : Nat, type : ResponseTypes,
         template : Templates \cup {Nothing}, matches : SUBSET Clients, readable : BOOLEAN]

ASSUME InputsAreDecoded == RuleInputs \subseteq Rule /\ TemplateInputs \subseteq Template

User == [exists : BOOLEAN, sid : Sids, used : BOOLEAN, limit : Limits,
         status : {"active", "paused", "blocked"}, window : {"early", "open", "over"}]
\* handleSubscription by a VPN client or a browser, serveSubscriptionBody, apiGetSubscriptionInfo
Kinds == {"client", "browser", "body", "info"}
Offer == [kind : Kinds, client : Clients, sid : Sids, device : Devices \cup {Nothing}]
Stages == {"new", "access", "context", "rules", "device", "count", "insert", "render",
           "template", "page", "details", "done"}
Request == [stage : Stages, kind : Kinds, client : Clients \cup {Nothing}, sid : Sids \cup {Nothing},
            device : Devices \cup {Nothing}, rule : Rule \cup {Nothing},
            body : {"none", "whole", "torn"}, answer : {"none", "served", "denied", "error"}]
Redeemer == [stage : {"new", "loaded", "given"}, link : Sids \cup {Nothing}]
NewRedeemer == [stage |-> "new", link |-> Nothing]
Editor == [id : RuleIds \cup {Nothing}, input : Rule]

NewRequest == [stage |-> "new", kind |-> "client", client |-> Nothing, sid |-> Nothing,
               device |-> Nothing, rule |-> Nothing, body |-> "none", answer |-> "none"]

TypeOK ==
    /\ user \in User
    /\ devices \subseteq Devices
    /\ rules \in [RuleIds -> Rule \cup {Nothing}]
    /\ templates \in [Templates -> Template \cup {Nothing}]
    /\ request \in [Requests -> Request]
    /\ redeemer \in [Redeemers -> Redeemer]
    /\ editor \in Editor \cup {Nothing}
    /\ writer \in Requests \cup {Nothing}
    /\ edits \in 0..MaxEdits
    /\ entitled \subseteq Requests

Open == user.exists /\ user.status = "active" /\ user.window = "open"

Stored == {i \in RuleIds : rules[i] # Nothing}

\* The foreign key of response_rules: a rule's template exists.
Refers(rule) == rule.template # Nothing => templates[rule.template] # Nothing

\* A rule of an earlier version may hold JSON that cannot be decoded.
Init ==
    /\ user \in {u \in User : u.exists /\ ~u.used}
    /\ devices = {}
    /\ templates \in [Templates -> TemplateInputs \cup {Nothing}]
    /\ rules \in [RuleIds -> {Nothing} \cup RuleInputs \cup
                             {[i EXCEPT !.readable = FALSE] : i \in RuleInputs}]
    /\ \A i \in Stored : Refers(rules[i])
    /\ request = [r \in Requests |-> NewRequest]
    /\ redeemer = [d \in Redeemers |-> NewRedeemer]
    /\ editor = Nothing /\ writer = Nothing /\ edits = 0 /\ entitled = {}

\* A write waits for the registration that holds the lock.
Unlocked == writer = Nothing

-----------------------------------------------------------------------------
(* prepareSubscriptionDelivery                                              *)

At(r, stage) == request[r].stage = stage
Goto(r, stage) == request' = [request EXCEPT ![r].stage = stage]
Refuse(r, answer) == request' = [request EXCEPT ![r] = [NewRequest EXCEPT !.stage = "done",
                                                                        !.answer = answer]]
Serve(r) == request' = [request EXCEPT ![r].stage = "done", ![r].answer = "served"]
Found(r) == user.exists /\ user.sid = request[r].sid

Arrive(r) ==
    /\ At(r, "new")
    /\ \E o \in Offers(r) \cap Offer :
        request' = [request EXCEPT ![r] = [NewRequest EXCEPT !.stage = "access", !.kind = o.kind,
                        !.client = o.client, !.sid = o.sid, !.device = o.device]]
    /\ UNCHANGED <<stores, redeemer, editor, writer, edits>>

\* Variant for the checks: only a block is looked at.
BlockedOnly(u) == u.status # "blocked"

\* Status, then the start, then the expiry decide.
accessDecision(u) ==
    CASE u.status \in {"blocked", "paused"} -> FALSE
      [] u.window = "early" -> FALSE
      [] u.window = "over" -> FALSE
      [] OTHER -> TRUE

subscriptionAccessAllowed(r) == Found(r) /\ accessDecision(user)

CheckAccess(r) ==
    /\ At(r, "access")
    /\ IF subscriptionAccessAllowed(r) THEN Goto(r, "context") ELSE Refuse(r, "denied")
    /\ UNCHANGED <<stores, redeemer, editor, writer, edits>>

LoadContext(r) ==
    /\ At(r, "context")
    /\ IF Found(r) THEN Goto(r, "rules") ELSE Refuse(r, "denied")
    /\ UNCHANGED <<stores, redeemer, editor, writer, edits>>

Before(i, j) ==
    \/ rules[i].priority < rules[j].priority
    \/ rules[i].priority = rules[j].priority /\ i < j
First(ids) == CHOOSE i \in ids : \A j \in ids \ {i} : Before(i, j)

firstMatchingResponseRule(client) ==
    LET matching == {i \in Stored : rules[i].enabled /\ client \in rules[i].matches} IN
    IF matching = {} THEN Nothing ELSE rules[First(matching)]

\* A rule that cannot be decoded is disabled; the request fails, and so does
\* every later one until the rule is written again.
ListRules(r) ==
    /\ At(r, "rules")
    /\ LET broken == {i \in Stored : ~rules[i].readable}
           rule == firstMatchingResponseRule(request[r].client)
       IN  IF broken # {}
           THEN /\ Unlocked
                /\ rules' = [rules EXCEPT ![First(broken)].enabled = FALSE]
                /\ Refuse(r, "error")
           ELSE /\ UNCHANGED rules
                /\ IF rule # Nothing /\ rule.type \in {"block", "not-found"}
                   THEN Refuse(r, "denied")
                   ELSE request' = [request EXCEPT ![r].stage = "device", ![r].rule = rule]
    /\ UNCHANGED <<user, devices, templates, redeemer, editor, writer, edits>>

\* The handlers differ in what follows an admission.
Admitted(r) ==
    LET rule == request[r].rule IN
    CASE request[r].kind = "info" -> "details"
      [] request[r].kind = "body" -> "render"
      [] request[r].kind \notin {"info", "body"} /\ rule # Nothing ->
             IF rule.type = "browser" THEN "page" ELSE "render"
      [] OTHER -> IF request[r].kind = "browser" THEN "page" ELSE "render"

\* The provider requires an id that the client did not send, or it does not.
WithoutDevice(r) ==
    /\ At(r, "device") /\ request[r].device = Nothing
    /\ Goto(r, Admitted(r)) \/ Refuse(r, "denied")
    /\ UNCHANGED <<stores, redeemer, editor, writer, edits>>

\* Variant for the checks: the transaction does not begin with a write.
BeginReading(r) == UNCHANGED writer

BeginWriting(r) == writer' = r

\* registerDeviceInTransaction: the UPDATE of a known device; it takes the
\* lock even when there is none.
UpdateDevice(r) ==
    /\ At(r, "device") /\ request[r].device # Nothing /\ Unlocked
    /\ IF request[r].device[1] \in Distinct(devices)
       THEN Goto(r, Admitted(r)) /\ UNCHANGED writer
       ELSE Goto(r, "count") /\ BeginWriting(r)
    /\ UNCHANGED <<stores, redeemer, editor, edits>>

available(limit, count) == limit = 0 \/ count < limit

CountDevices(r) ==
    /\ At(r, "count")
    /\ CASE ~user.exists -> Refuse(r, "error") /\ writer' = Nothing
         [] user.exists /\ available(user.limit, Cardinality(Distinct(devices))) ->
                Goto(r, "insert") /\ UNCHANGED writer
         [] OTHER -> Refuse(r, "denied") /\ writer' = Nothing
    /\ UNCHANGED <<stores, redeemer, editor, edits>>

InsertDevice(r) ==
    /\ At(r, "insert")
    /\ devices' = devices \cup {request[r].device}
    /\ Goto(r, Admitted(r))
    /\ writer' = Nothing
    /\ UNCHANGED <<user, rules, templates, redeemer, editor, edits>>

-----------------------------------------------------------------------------
(* What an admitted request is answered with.                               *)

\* renderSubscriptionBrowserPage decides on access once more.
ServePage(r) ==
    /\ At(r, "page")
    /\ IF subscriptionAccessAllowed(r) THEN Serve(r) ELSE Refuse(r, "denied")
    /\ UNCHANGED <<stores, redeemer, editor, writer, edits>>

ServeDetails(r) ==
    /\ At(r, "details")
    /\ IF Found(r) THEN Serve(r) ELSE Refuse(r, "denied")
    /\ UNCHANGED <<stores, redeemer, editor, writer, edits>>

\* No key, or none that the format can express, is a denial.
Generate(r) ==
    /\ At(r, "render")
    /\ \/ Refuse(r, "denied")
       \/ request' = [request EXCEPT ![r].body = "whole",
              ![r].stage = IF request[r].kind = "body" THEN "done" ELSE "template",
              ![r].answer = IF request[r].kind = "body" THEN "served" ELSE "none"]
    /\ UNCHANGED <<stores, redeemer, editor, writer, edits>>

\* A document of another format is not one of this format either.
ValidateStructuredBody(type, body) == type \in Structured => body = "whole"

templated(rule, template, body) ==
    IF template = Nothing \/ ~template.enabled THEN body
    ELSE IF template.sound /\ template.format = rule.type THEN body
    ELSE "torn"

\* A template that is gone, or that cannot be read, is left out: the error of
\* its statement is ignored.
loadTemplate(rule) ==
    IF rule = Nothing \/ rule.template = Nothing THEN {Nothing}
    ELSE {templates[rule.template], Nothing}

ApplyTemplate(r) ==
    /\ At(r, "template")
    /\ \E template \in loadTemplate(request[r].rule) :
       LET rule == request[r].rule
           body == IF rule = Nothing THEN request[r].body
                   ELSE templated(rule, template, request[r].body)
           type == IF rule = Nothing THEN "plain" ELSE rule.type
       IN  request' = [request EXCEPT ![r].stage = "done", ![r].body = body,
               ![r].answer = IF ValidateStructuredBody(type, body) THEN "served" ELSE "denied"]
    /\ UNCHANGED <<stores, redeemer, editor, writer, edits>>

\* A statement fails or the process stops: the transaction rolls back.
FailRequest(r) ==
    /\ request[r].stage \notin {"new", "done"}
    /\ Refuse(r, "error")
    /\ writer' = IF writer = r THEN Nothing ELSE writer
    /\ UNCHANGED <<stores, redeemer, editor, edits>>

-----------------------------------------------------------------------------
(* redeemActivationCode.  Who gets no link may try again.                   *)

\* Every row has an id since the baseline migration, so none is made here.
activationSubscriptionID(stored) == stored

LoadActivation(d) ==
    /\ redeemer[d].stage = "new"
    /\ user.exists /\ ~user.used
    /\ redeemer' = [redeemer EXCEPT ![d] =
           [stage |-> "loaded", link |-> activationSubscriptionID(user.sid)]]
    /\ UNCHANGED <<stores, request, editor, writer, edits>>

\* Variant for the checks: the claim is written by id alone.
ClaimById(u) == u.exists

\* WHERE id = ? AND activation_used_at IS NULL
Unclaimed(u) == u.exists /\ ~u.used

\* The claim may commit while its result is lost: no link is given then, and
\* another attempt finds the code used.
Claim(d) ==
    /\ redeemer[d].stage = "loaded" /\ Unlocked
    /\ user' = IF Unclaimed(user) THEN [user EXCEPT !.used = TRUE, !.sid = redeemer[d].link]
               ELSE user
    /\ \E known \in BOOLEAN :
        redeemer' = [redeemer EXCEPT ![d] =
            IF Unclaimed(user) /\ known THEN [redeemer[d] EXCEPT !.stage = "given"]
            ELSE NewRedeemer]
    /\ UNCHANGED <<devices, rules, templates, request, editor, writer, edits>>

FailRedeemer(d) ==
    /\ redeemer[d].stage = "loaded"
    /\ redeemer' = [redeemer EXCEPT ![d] = NewRedeemer]
    /\ UNCHANGED <<stores, request, editor, writer, edits>>

-----------------------------------------------------------------------------
(* What administrators do meanwhile, and the passing of time.               *)

Edit == edits < MaxEdits /\ edits' = edits + 1

ChangeUser ==
    /\ Edit /\ Unlocked /\ user.exists
    /\ \/ \E status \in {"active", "paused", "blocked"} : user' = [user EXCEPT !.status = status]
       \/ \E window \in {"early", "open", "over"} : user' = [user EXCEPT !.window = window]
    /\ UNCHANGED <<devices, rules, templates, request, redeemer, editor, writer>>

apiUpdateUserHWID ==
    /\ Edit /\ Unlocked /\ user.exists
    /\ \E limit \in Limits : user' = [user EXCEPT !.limit = limit]
    /\ UNCHANGED <<devices, rules, templates, request, redeemer, editor, writer>>

apiDeleteUserHWID(d) ==
    /\ Edit /\ Unlocked /\ d \in devices
    /\ devices' = devices \ {d}
    /\ UNCHANGED <<user, rules, templates, request, redeemer, editor, writer>>

\* One DELETE; the devices go with the row.
DeleteUser ==
    /\ Edit /\ Unlocked /\ user.exists
    /\ user' = [user EXCEPT !.exists = FALSE]
    /\ devices' = {}
    /\ UNCHANGED <<rules, templates, request, redeemer, editor, writer>>

validateRuleTemplate(input) ==
    input.template # Nothing =>
        /\ templates[input.template] # Nothing
        /\ templates[input.template].enabled
        /\ templates[input.template].format = input.type

SaveRuleBegin ==
    /\ Edit /\ editor = Nothing
    /\ \E id \in RuleIds \cup {Nothing}, input \in RuleInputs :
        /\ validateRuleTemplate(input)
        /\ editor' = [id |-> id, input |-> input]
    /\ UNCHANGED <<stores, request, redeemer, writer>>

\* A new row comes after all others; a row that is gone is not updated.
createRule(input) ==
    \E i \in RuleIds : (\A j \in Stored : j < i) /\ rules' = [rules EXCEPT ![i] = input]

updateRule(id, input) == id \in Stored /\ rules' = [rules EXCEPT ![id] = input]

\* The second statement writes the rule, or fails, as it does for a template
\* that has been deleted since.
SaveRule ==
    /\ editor # Nothing /\ Unlocked
    /\ \/ /\ Refers(editor.input)
          /\ IF editor.id = Nothing THEN createRule(editor.input)
             ELSE updateRule(editor.id, editor.input)
       \/ UNCHANGED rules
    /\ editor' = Nothing
    /\ UNCHANGED <<user, devices, templates, request, redeemer, writer, edits>>

DeleteRule(i) ==
    /\ Edit /\ Unlocked /\ i \in Stored
    /\ rules' = [rules EXCEPT ![i] = Nothing]
    /\ UNCHANGED <<user, devices, templates, request, redeemer, editor, writer>>

\* An id is never given twice: a new template is one that no rule names, nor a
\* copy of a rule that a request or an editor holds.
Named(t) ==
    \/ \E i \in Stored : rules[i].template = t
    \/ \E r \in Requests : request[r].stage # "done" /\ request[r].rule # Nothing
                          /\ request[r].rule.template = t
    \/ editor # Nothing /\ editor.input.template = t

CreateTemplate(t) ==
    /\ Edit /\ Unlocked /\ templates[t] = Nothing /\ ~Named(t)
    /\ \E input \in TemplateInputs : templates' = [templates EXCEPT ![t] = input]
    /\ UNCHANGED <<user, devices, rules, request, redeemer, editor, writer>>

\* The rules that use the template are not looked at.
UpdateTemplate(t) ==
    /\ Edit /\ Unlocked /\ templates[t] # Nothing
    /\ \E input \in TemplateInputs : templates' = [templates EXCEPT ![t] = input]
    /\ UNCHANGED <<user, devices, rules, request, redeemer, editor, writer>>

\* ON DELETE SET NULL
WithoutTemplate(rule, t) ==
    IF rule # Nothing /\ rule.template = t THEN [rule EXCEPT !.template = Nothing] ELSE rule

\* The templates of the model are an administrator's: a system template is not
\* deleted.  A rule that uses the template keeps its format and loses it.
DeleteTemplate(t) ==
    /\ Edit /\ Unlocked /\ templates[t] # Nothing
    /\ templates' = [templates EXCEPT ![t] = Nothing]
    /\ rules' = [i \in RuleIds |-> WithoutTemplate(rules[i], t)]
    /\ UNCHANGED <<user, devices, request, redeemer, editor, writer>>

Pass ==
    /\ user.window # "over"
    /\ user' = [user EXCEPT !.window = IF user.window = "early" THEN "open" ELSE "over"]
    /\ UNCHANGED <<devices, rules, templates, request, redeemer, editor, writer, edits>>

-----------------------------------------------------------------------------

Handle(r) ==
    \/ Arrive(r) \/ CheckAccess(r) \/ LoadContext(r) \/ ListRules(r)
    \/ WithoutDevice(r) \/ UpdateDevice(r) \/ CountDevices(r) \/ InsertDevice(r)
    \/ ServePage(r) \/ ServeDetails(r) \/ Generate(r) \/ ApplyTemplate(r) \/ FailRequest(r)

Redeem(d) == LoadActivation(d) \/ Claim(d) \/ FailRedeemer(d)

Administer ==
    \/ ChangeUser \/ apiUpdateUserHWID \/ DeleteUser \/ SaveRuleBegin \/ SaveRule
    \/ \E d \in Devices : apiDeleteUserHWID(d)
    \/ \E i \in RuleIds : DeleteRule(i)
    \/ \E t \in Templates : CreateTemplate(t) \/ UpdateTemplate(t) \/ DeleteTemplate(t)

\* History: the requests during which the subscription has been open.
Witness ==
    entitled' = entitled \cup {r \in Requests : request'[r].stage \notin {"new", "done"} /\ Open'}

Next ==
    /\ (\E r \in Requests : Handle(r)) \/ (\E d \in Redeemers : Redeem(d)) \/ Administer \/ Pass
    /\ Witness

Spec == Init /\ [][Next]_vars

-----------------------------------------------------------------------------
(* Properties                                                               *)

\* "A device is accepted only while there is room" (registerHWID): when a
\* device is added, the devices do not exceed the limit in force, however many
\* clients register at once and whatever administrators change.
DevicesWithinLimit ==
    [][Distinct(devices') # Distinct(devices) /\ devices \subseteq devices' =>
        \/ user.limit = 0
        \/ Cardinality(Distinct(devices')) <= user.limit]_vars

\* A request is served, or registers a device, only if the subscription was
\* open at some moment while it was handled (prepareSubscriptionDelivery); and
\* what a rule promises in a structured format is a document of that format
\* when it is sent, even if its template was changed or deleted, or could not be
\* read, after the rule had been chosen.
AnswersAreSound ==
    \A r \in Requests :
        /\ request[r].answer = "served" \/ request[r].stage \in {"count", "insert"} => r \in entitled
        /\ request[r].answer = "served" /\ request[r].kind \in {"client", "browser"} =>
              (request[r].rule # Nothing =>
                  (request[r].rule.type \in Structured => request[r].body = "whole"))

\* A code is redeemed once: at most one person is given the link, and the link
\* is the subscription's address as long as it exists, also when the result of
\* a claim was lost (claimActivation).
RedeemedOnce ==
    LET given == {d \in Redeemers : redeemer[d].stage = "given"} IN
    /\ Cardinality(given) <= 1
    /\ \A d \in given : user.used /\ user.sid = redeemer[d].link

\* "template is used by a response rule" (templateDeletionErrors): a template
\* that a rule uses is not deleted.  The code does not promise it: the foreign
\* key empties the rule instead, so this is checked by a configuration of its own.
TemplatesInUseStay ==
    [][\A i \in Stored : rules[i].template # Nothing => templates'[rules[i].template] # Nothing]_vars
=============================================================================
