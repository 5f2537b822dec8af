---------------------------- MODULE NewestFetch ----------------------------
(***************************************************************************)
(* What a subscription source promises about the result it shows, without  *)
(* jobs, leases, locks or crashes.  Fetches of a source are numbered in    *)
(* the order they begin.  Only the newest one may change what the source   *)
(* shows, only while the request inputs it used are still the source's,    *)
(* and a published result keeps the status "ok" until a newer fetch begins *)
(* to speak for the source.                                                *)
(***************************************************************************)
EXTENDS Naturals

CONSTANTS
    Sources,    \* identities of sources, never reused
    Inputs,     \* what a fetch depends on: the URL and the effective HWID headers
    NoInput     \* the inputs of a source that was not created yet

VARIABLES
    input,      \* [Sources -> Inputs \cup {NoInput}]: the stored request inputs
    status,     \* [Sources -> Statuses]: the stored import status
    newest,     \* [Sources -> Nat]: how many fetches have begun
    shown       \* [Sources -> [fetch, input]]: the fetch whose keys are stored

absVars == <<input, status, newest, shown>>

Stored == {"ok", "syncing", "error"}
Statuses == Stored \cup {"absent", "deleted"}

Live(s) == status[s] \in Stored

\* Fetch 0 stands for the import that created the source.
Init ==
    /\ input = [s \in Sources |-> NoInput]
    /\ status = [s \in Sources |-> "absent"]
    /\ newest = [s \in Sources |-> 0]
    /\ shown = [s \in Sources |-> [fetch |-> 0, input |-> NoInput]]

Create(s) ==
    /\ status[s] = "absent"
    /\ \E i \in Inputs :
        /\ input' = [input EXCEPT ![s] = i]
        /\ shown' = [shown EXCEPT ![s] = [fetch |-> newest[s], input |-> i]]
    /\ status' = [status EXCEPT ![s] = "ok"]
    /\ UNCHANGED newest

Change(s) ==
    /\ Live(s)
    /\ \E i \in Inputs : input' = [input EXCEPT ![s] = i]
    /\ UNCHANGED <<status, newest, shown>>

Delete(s) ==
    /\ Live(s)
    /\ status' = [status EXCEPT ![s] = "deleted"]
    /\ UNCHANGED <<input, newest, shown>>

Begin(s) ==
    /\ newest' = [newest EXCEPT ![s] = @ + 1]
    /\ UNCHANGED <<input, status, shown>>

\* The newest fetch speaks while its result is not the one shown.
Report(s) ==
    /\ Live(s)
    /\ shown[s].fetch < newest[s]
    /\ \E v \in {"syncing", "error"} : status' = [status EXCEPT ![s] = v]
    /\ UNCHANGED <<input, newest, shown>>

Publish(s) ==
    /\ Live(s)
    /\ shown[s].fetch < newest[s]
    /\ shown' = [shown EXCEPT ![s] = [fetch |-> newest[s], input |-> input[s]]]
    /\ status' = [status EXCEPT ![s] = "ok"]
    /\ UNCHANGED <<input, newest>>

\* A restart ends every synchronisation that was interrupted.
Interrupt ==
    /\ status' = [s \in Sources |-> IF status[s] = "syncing" THEN "error" ELSE status[s]]
    /\ UNCHANGED <<input, newest, shown>>

Next ==
    \/ Interrupt
    \/ \E s \in Sources :
        Create(s) \/ Change(s) \/ Delete(s) \/ Begin(s) \/ Report(s) \/ Publish(s)

Spec == Init /\ [][Next]_absVars
=============================================================================
