---------------------------- MODULE MCDelivery ----------------------------
(***************************************************************************)
(* Delivery for TLC.  The first request may be of any kind; the others are *)
(* VPN clients with another device, which compete with it for the last     *)
(* place.                                                                  *)
(***************************************************************************)
EXTENDS Delivery, TLC

RuleOf(type, template, clients) ==
    [enabled |-> TRUE, priority |-> 1, type |-> type, template |-> template,
     matches |-> clients, readable |-> TRUE]

MCRuleInputs ==
    {RuleOf("mihomo", t, Clients) : t \in Templates}
    \cup {RuleOf(type, Nothing, Clients) : type \in {"block", "browser"}}

MCTemplateInputs ==
    {[format |-> "mihomo", enabled |-> TRUE, sound |-> TRUE],
     [format |-> "sing-box", enabled |-> TRUE, sound |-> TRUE]}

CONSTANTS r1, h1, h2, s1, c, u
MCOffers(r) ==
    IF r = r1 THEN [kind : Kinds, client : Clients, sid : {s1}, device : {<<h1, u>>}]
                   \cup [kind : {"client"}, client : Clients, sid : {s1}, device : {Nothing}]
    ELSE {[kind |-> "client", client |-> c, sid |-> s1, device |-> <<h2, u>>]}

Symmetry == Permutations(Redeemers)
=============================================================================
