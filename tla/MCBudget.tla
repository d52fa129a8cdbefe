------------------------------ MODULE MCBudget ------------------------------
(* The budget with two overlapping calls and one configuration.            *)
EXTENDS Budget

OneConfig == {[dailyTokenLimit |-> 3, reserveForOwner |-> 1]}
=============================================================================
