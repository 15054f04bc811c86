----------------------------- MODULE ApprovedAction -----------------------------
(* What approvals promise for each request: it is decided once; the deployment it *)
(* asks for is executed at most once, or the restore it asks for in at most the   *)
(* attempts of its activity, and only after the approval; and a success is        *)
(* reported only while the operation's record says so. The record of a deployment *)
(* keeps its success, that of a restore may lose it again.                       *)
EXTENDS Naturals

CONSTANT Request

VARIABLES
    kind,      \* "deployment" or "restore"
    decision,  \* "pending" until the request is decided
    begun,     \* how often the action was begun
    ended,     \* whether the action's record says that it has succeeded
    reported   \* whether success was reported

vars == <<kind, decision, begun, ended, reported>>

Attempts(k) == IF k = "restore" THEN 2 ELSE 1

Init ==
    /\ kind \in [Request -> {"deployment", "restore"}]
    /\ decision = [r \in Request |-> "pending"]
    /\ begun = [r \in Request |-> 0]
    /\ ended = [r \in Request |-> FALSE]
    /\ reported = [r \in Request |-> FALSE]

Decide(r) ==
    /\ decision[r] = "pending"
    /\ \E d \in {"approved", "rejected", "expired"} : decision' = [decision EXCEPT ![r] = d]
    /\ UNCHANGED <<kind, begun, ended, reported>>

Begin(r) ==
    /\ decision[r] = "approved" /\ begun[r] < Attempts(kind[r])
    /\ begun' = [begun EXCEPT ![r] = @ + 1]
    /\ UNCHANGED <<kind, decision, ended, reported>>

Succeed(r) ==
    /\ decision[r] = "approved" /\ ~ended[r]
    /\ ended' = [ended EXCEPT ![r] = TRUE]
    /\ UNCHANGED <<kind, decision, begun, reported>>

Revoke(r) ==
    /\ kind[r] = "restore" /\ ended[r]
    /\ ended' = [ended EXCEPT ![r] = FALSE]
    /\ UNCHANGED <<kind, decision, begun, reported>>

Report(r) ==
    /\ ended[r] /\ ~reported[r]
    /\ reported' = [reported EXCEPT ![r] = TRUE]
    /\ UNCHANGED <<kind, decision, begun, ended>>

Next == \E r \in Request : Decide(r) \/ Begin(r) \/ Succeed(r) \/ Revoke(r) \/ Report(r)

Spec == Init /\ [][Next]_vars
================================================================================
