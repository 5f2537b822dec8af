---------------------------- MODULE AtomicPatch ----------------------------
(***************************************************************************)
(* What a PATCH of a subscription promises: it is applied at once to the    *)
(* row as it is at that moment, or it is not applied.  A request is never   *)
(* applied to columns, or read in a time zone, that others have changed     *)
(* since, and never undoes a change it does not name.                       *)
(***************************************************************************)
EXTENDS SubscriptionRow

CONSTANTS
    Requests,       \* PATCH requests
    Patches,        \* what they may ask
    Gone            \* no row: the user was deleted

VARIABLES
    row,            \* Row or Gone
    asked,          \* [Requests -> SUBSET Patches]: what an open request asks
    answer          \* [Requests -> STRING]

vars == <<row, asked, answer>>

Answers == {"done", "invalid", "missing", "conflict", "failed"}

Init ==
    /\ row \in {r \in Row : Consistent(r)}
    /\ asked = [r \in Requests |-> {}]
    /\ answer = [r \in Requests |-> "none"]

Ask(r) ==
    /\ asked[r] = {} /\ answer[r] = "none"
    /\ \E patch \in Patches : asked' = [asked EXCEPT ![r] = {patch}]
    /\ UNCHANGED <<row, answer>>

Answered(r, Allowed) ==
    /\ asked[r] # {}
    /\ asked' = [asked EXCEPT ![r] = {}]
    /\ \E a \in Allowed : answer' = [answer EXCEPT ![r] = a]

\* Who is told of a failure does not know whether the patch was applied.
Apply(r) ==
    /\ row # Gone
    /\ \E patch \in asked[r] : row' = applySubscriptionPatch(patch, row)
    /\ Valid(row')
    /\ Answered(r, {"done", "failed"})

Refuse(r) ==
    /\ \/ Answered(r, {"conflict", "failed"})
       \/ row = Gone /\ Answered(r, {"missing"})
       \/ /\ row # Gone
          /\ \E patch \in asked[r] : ~Valid(applySubscriptionPatch(patch, row))
          /\ Answered(r, {"invalid"})
    /\ UNCHANGED row

\* A PUT, a change of the settings, or the user's deletion.
Change ==
    /\ row # Gone
    /\ row' = Gone \/ (row' \in Row /\ Consistent(row'))
    /\ UNCHANGED <<asked, answer>>

Next == (\E r \in Requests : Ask(r) \/ Apply(r) \/ Refuse(r)) \/ Change

Spec == Init /\ [][Next]_vars
=============================================================================
