----------------------------- MODULE HumanGate -----------------------------
(***************************************************************************)
(* What the human gate of packages/core/trust-domains/gate promises about  *)
(* one irreversible action: it waits for the owner, one approval grants    *)
(* it, and a grant is good for one execution.  Tickets expire, and a grant *)
(* may come to nothing, but nothing ever revives a ticket.                 *)
(***************************************************************************)
EXTENDS Naturals

CONSTANT Tickets

VARIABLES
    ticket,   \* where each ticket stands
    runs      \* how often the action of each ticket was executed

States == {"none", "waiting", "granted", "performed", "void"}

Init ==
    /\ ticket = [t \in Tickets |-> "none"]
    /\ runs = [t \in Tickets |-> 0]

Move(t, from, to) ==
    /\ ticket[t] = from
    /\ ticket' = [ticket EXCEPT ![t] = to]

Ask(t) == Move(t, "none", "waiting") /\ UNCHANGED runs

Grant(t) == Move(t, "waiting", "granted") /\ UNCHANGED runs

Perform(t) ==
    /\ Move(t, "granted", "performed")
    /\ runs' = [runs EXCEPT ![t] = @ + 1]

\* The gate denies the granted action, or its process dies with the grant.
Void(t) == Move(t, "granted", "void") /\ UNCHANGED runs

Next == \E t \in Tickets : Ask(t) \/ Grant(t) \/ Perform(t) \/ Void(t)

Spec == Init /\ [][Next]_<<ticket, runs>>
=============================================================================
