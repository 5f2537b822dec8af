------------------------ MODULE MCSubscriptionPatch ------------------------
(***************************************************************************)
(* SubscriptionPatch for TLC: requests that touch the same, different and   *)
(* dependent columns, and a zone an hour from UTC.                          *)
(***************************************************************************)
EXTENDS SubscriptionPatch, TLC

Nothing == [status |-> Unset, reason |-> Unset, starts |-> Unset, expires |-> Unset, note |-> Unset]

\* Block with a reason, lift the block, move either date, set the note, and a
\* reason alone.
SomePatches ==
    LET text == CHOOSE t \in Texts : TRUE IN
    {[Nothing EXCEPT !.status = "blocked", !.reason = text],
     [Nothing EXCEPT !.status = "active", !.note = text],
     [Nothing EXCEPT !.reason = text],
     [Nothing EXCEPT !.starts = 2],
     [Nothing EXCEPT !.expires = 1, !.note = Null]}

SomeZones == {0, 1}

Symmetry == Permutations(Requests)
=============================================================================
