------------------------------ MODULE PushDelivery ------------------------------
(* What the recovery ledger promises for a push delivery, however often it is    *)
(* redelivered: each of its targets is settled once and deployed at most once, a *)
(* target counts as deployed only after its deployment exists, and the delivery  *)
(* is closed only when no target it knows is open, and then for good.            *)
EXTENDS Naturals

CONSTANT Key

VARIABLES
    settled,   \* how each target stands: unknown, open, completed or ignored
    deployed,  \* how many deployments the delivery made for each target
    closed     \* whether the delivery is closed

vars == <<settled, deployed, closed>>

Init ==
    /\ settled = [k \in Key |-> "unknown"]
    /\ deployed = [k \in Key |-> 0]
    /\ closed = FALSE

Learn(k) ==
    /\ ~closed /\ settled[k] = "unknown"
    /\ settled' = [settled EXCEPT ![k] = "open"]
    /\ UNCHANGED <<deployed, closed>>

Deploy(k) ==
    /\ deployed[k] = 0
    /\ deployed' = [deployed EXCEPT ![k] = 1]
    /\ UNCHANGED <<settled, closed>>

Settle(k) ==
    /\ ~closed /\ settled[k] = "open"
    /\ \/ deployed[k] = 1 /\ settled' = [settled EXCEPT ![k] = "completed"]
       \/ settled' = [settled EXCEPT ![k] = "ignored"]
    /\ UNCHANGED <<deployed, closed>>

Close ==
    /\ \A k \in Key : settled[k] # "open"
    /\ closed' = TRUE
    /\ UNCHANGED <<settled, deployed>>

Next == Close \/ \E k \in Key : Learn(k) \/ Deploy(k) \/ Settle(k)

Spec == Init /\ [][Next]_vars
================================================================================
