---------------------------- MODULE ProviderFeedback ----------------------------
(* The outbox that reports deployment transitions to a Git provider. Each        *)
(* transition of a deployment adds a row to the deployment's target inside the   *)
(* transaction of the transition; processors claim the first open row of a       *)
(* target under a lease, call the provider, and record the outcome under the     *)
(* same lease. The provider is reached by three steps that each look for their   *)
(* own marker before they create anything: the external deployment, the status,  *)
(* the pull request's comment (PreviewComment).                                  *)
(*                                                                             *)
(* Rows are numbered by their sequence, which the target's row lock makes the    *)
(* order of the transitions. The row's lease and the target's are written        *)
(* together with one token and one expiry, so they are one lease here. The time  *)
(* of the next attempt is not kept: a row that waits may be claimed at any time. *)
(* An attempt count above MaxAttempts is as good as MaxAttempts, and that of a    *)
(* row that is no longer open is not kept.                                      *)
EXTENDS PreviewComment, Sequences

CONSTANTS
    Target,       \* deployments, all previews of one pull request
    MaxRows,      \* how many transitions each target reports
    MaxAttempts   \* attempts after which a failure is final

ASSUME AttemptsAssumption == MaxAttempts \in Nat \ {0}
ASSUME RowsAssumption == MaxRows \in [Target -> Nat]

VARIABLES
    rows,      \* the feedback rows of each target, in sequence
    ids,       \* the provider and the external ids each target recorded
    lease,     \* each target's lease, which is that of the row it is for
    work,      \* what each processor is doing
    deps,      \* how many external deployments exist for each target
    statuses   \* the statuses the provider shows for each target

rowVars == <<rows, ids, lease>>
remoteVars == <<deps, statuses>>
vars == <<rows, ids, lease, work, deps, statuses, comment, remote, made, deleted, upsert, faults>>

Closed == {"delivered", "skipped"}
Open == {"pending", "retrying"}
Row == [state : Open \cup Closed \cup {"dead-letter"}, attempts : 0..MaxAttempts]
RemoteSteps == {"deployment", "new deployment", "status", "new status", "comment"}
Outcomes == {"delivered", "retry", "reject", "skip"}
Free == [step |-> "idle", target |-> None, row |-> 0, dep |-> NoId, comment |-> NoId]
NoLease == [holder |-> None, live |-> FALSE]

Init ==
    /\ CommentInit
    /\ rows = [t \in Target |-> <<>>]
    /\ ids = [t \in Target |-> [provider |-> None, dep |-> NoId, comment |-> NoId]]
    /\ lease = [t \in Target |-> NoLease]
    /\ work = [p \in Worker |-> Free]
    /\ deps = [t \in Target |-> 0]
    /\ statuses = [t \in Target |-> <<>>]

(* A transition of the deployment adds its row; the first one fixes the provider. *)
QueueIntent(t) ==
    /\ Len(rows[t]) < MaxRows[t]
    /\ rows' = [rows EXCEPT ![t] = Append(@, [state |-> "pending", attempts |-> 0])]
    /\ \E pr \in Provider :
          ids' = [ids EXCEPT ![t].provider = IF @ = None THEN pr ELSE @]
    /\ UNCHANGED <<lease, work, remoteVars, commentVars, faults>>

ClaimableOutOfOrder(t, i) == rows[t][i].state \in Open /\ ~lease[t].live
ClaimableWhileLeased(t, i) ==
    /\ rows[t][i].state \in Open
    /\ \A j \in 1..(i - 1) : rows[t][j].state \in Closed
ClaimableOnceReleased(t, i) == ClaimableWhileLeased(t, i) /\ lease[t].holder = None

(* The row is open, its lease is free, and no earlier row of the target is open  *)
(* or given up.                                                                 *)
Claimable(t, i) ==
    /\ rows[t][i].state \in Open
    /\ ~lease[t].live
    /\ \A j \in 1..(i - 1) : rows[t][j].state \in Closed

(* The claim returns the external ids the target has recorded by now. *)
Claim(p, t) ==
    /\ work[p].step = "idle"
    /\ \E i \in DOMAIN rows[t] :
          /\ Claimable(t, i)
          /\ LET n == rows[t][i].attempts
             IN  rows' = [rows EXCEPT ![t][i] =
                    [state |-> IF n > 0 THEN "retrying" ELSE "pending",
                     attempts |-> IF n < MaxAttempts THEN n + 1 ELSE n]]
          /\ lease' = [lease EXCEPT ![t] = [holder |-> p, live |-> TRUE]]
          /\ work' = [work EXCEPT ![p] = [step |-> "deployment", target |-> t, row |-> i,
                                          dep |-> ids[t].dep, comment |-> ids[t].comment]]
    /\ UNCHANGED <<ids, remoteVars, commentVars, faults>>

Advance(p, step) == work' = [work EXCEPT ![p].step = step]
Give(p, outcome) ==
    work' = [work EXCEPT ![p].step = outcome, ![p].dep = NoId, ![p].comment = NoId]

(* The recorded external deployment, or one with the marker, or none yet. *)
FindDeployment(p) ==
    LET t == work[p].target
    IN  /\ work[p].step = "deployment"
        /\ \/ work[p].dep # NoId /\ Advance(p, "status")
           \/ /\ work[p].dep = NoId
              /\ \E d \in 1..deps[t] :
                    work' = [work EXCEPT ![p].step = "status", ![p].dep = d]
           \/ work[p].dep = NoId /\ deps[t] = 0 /\ Advance(p, "new deployment")
        /\ UNCHANGED <<rowVars, remoteVars, commentVars, faults>>

(* The external deployment is created; its response may be lost. *)
CreateDeployment(p) ==
    LET t == work[p].target
    IN  /\ work[p].step = "new deployment"
        /\ deps' = [deps EXCEPT ![t] = @ + 1]
        /\ \/ work' = [work EXCEPT ![p].step = "status", ![p].dep = deps[t] + 1]
           \/ "retry" \in Failures /\ Give(p, "retry")
        /\ UNCHANGED <<rowVars, statuses, commentVars, faults>>

StartUpsert(p) ==
    upsert' = [upsert EXCEPT ![p] =
        [step |-> "claim", provider |-> ids[work[p].target].provider, id |-> NoId]]
TheStatus(p) == [dep |-> work[p].dep, row |-> work[p].row]
Shown(t, s) == \E k \in DOMAIN statuses[t] : statuses[t][k] = s
StatusOfDeploymentFound(p) ==
    \E k \in DOMAIN statuses[work[p].target] : statuses[work[p].target][k].dep = work[p].dep
StatusFound(p) == Shown(work[p].target, TheStatus(p))

(* A status with the row's marker, or none yet. *)
FindStatus(p) ==
    /\ work[p].step = "status"
    /\ IF StatusFound(p)
       THEN Advance(p, "comment") /\ StartUpsert(p)
       ELSE Advance(p, "new status") /\ UNCHANGED upsert
    /\ UNCHANGED <<rowVars, remoteVars, comment, remote, made, deleted, faults>>

(* The status is created; its response may be lost. *)
CreateStatus(p) ==
    /\ work[p].step = "new status"
    /\ statuses' = [statuses EXCEPT ![work[p].target] = Append(@, TheStatus(p))]
    /\ \/ Advance(p, "comment") /\ StartUpsert(p)
       \/ "retry" \in Failures /\ Give(p, "retry") /\ UNCHANGED upsert
    /\ UNCHANGED <<rowVars, deps, comment, remote, made, deleted, faults>>

(* A call that fails without effect, or, before any call, a capability that is   *)
(* missing.                                                                     *)
DeliveryFails(p) ==
    /\ work[p].step \in RemoteSteps \ {"comment"}
    /\ \/ \E verdict \in Failures : Give(p, verdict)
       \/ work[p].step = "deployment" /\ Failures # {} /\ Give(p, "skip")
    /\ UNCHANGED <<rowVars, remoteVars, commentVars, faults>>

(* The comment must be the one the claim returned, if it returned one. *)
AnyIdentity(p) == TRUE
StableIdentity(p) == work[p].comment \in {NoId, upsert[p].id}

FinishUpsert(p) ==
    LET result == upsert[p].step
    IN  /\ result \in Verdicts
        /\ IF result = "done" /\ StableIdentity(p)
           THEN work' = [work EXCEPT ![p].step = "delivered", ![p].comment = upsert[p].id]
           ELSE Give(p, IF result = "done" THEN "reject" ELSE result)
        /\ upsert' = [upsert EXCEPT ![p] = Resting]
        /\ UNCHANGED <<rowVars, remoteVars, comment, remote, made, deleted, faults>>

HoldsLease(p) == LET t == work[p].target IN lease[t].live /\ lease[t].holder = p

NewState(p) ==
    LET n == rows[work[p].target][work[p].row].attempts
    IN  CASE work[p].step = "delivered" -> "delivered"
          [] work[p].step = "skip" -> "skipped"
          [] work[p].step = "retry" -> IF n >= MaxAttempts THEN "dead-letter" ELSE "retrying"
          [] work[p].step = "reject" -> "dead-letter"

(* The outcome is recorded, with the ids of a delivery, if the lease is held. *)
Record(p) ==
    LET t == work[p].target
    IN  /\ work[p].step \in Outcomes
        /\ IF HoldsLease(p)
           THEN /\ rows' = [rows EXCEPT ![t][work[p].row] =
                      [state |-> NewState(p),
                       attempts |-> IF NewState(p) = "retrying" THEN @.attempts ELSE 0]]
                /\ lease' = [lease EXCEPT ![t] = NoLease]
                /\ ids' = IF work[p].step = "delivered"
                          THEN [ids EXCEPT ![t].dep = work[p].dep, ![t].comment = work[p].comment]
                          ELSE ids
           ELSE UNCHANGED rowVars
        /\ work' = [work EXCEPT ![p] = Free]
        /\ UNCHANGED <<remoteVars, commentVars, faults>>

Abandoned(t) == lease[t].live /\ work[lease[t].holder].target # t
AtProvider(p) == work[p].step \in RemoteSteps

(* The lease expires. The expiry of a lease whose processor is alive and at work *)
(* is a fault; a Timely one does not befall a processor that calls the provider. *)
LoseLease(t) ==
    /\ lease[t].live
    /\ lease' = [lease EXCEPT ![t].live = FALSE]
    /\ IF Abandoned(t)
       THEN UNCHANGED faults
       ELSE /\ Timely => ~AtProvider(lease[t].holder)
            /\ faults < MaxFaults
            /\ faults' = faults + 1
    /\ UNCHANGED <<rows, ids, work, remoteVars, commentVars>>

(* A processor dies, or a heartbeat that cannot renew aborts its delivery. *)
Crash(p) ==
    /\ work[p].step # "idle"
    /\ faults < MaxFaults
    /\ faults' = faults + 1
    /\ work' = [work EXCEPT ![p] = Free]
    /\ upsert' = [upsert EXCEPT ![p] = Resting]
    /\ UNCHANGED <<rowVars, remoteVars, comment, remote, made, deleted>>

Deliver(p) ==
    \/ FindDeployment(p)
    \/ CreateDeployment(p)
    \/ FindStatus(p)
    \/ CreateStatus(p)
    \/ DeliveryFails(p)
    \/ UpsertStep(p) /\ UNCHANGED <<rowVars, remoteVars, work>>
    \/ FinishUpsert(p)
    \/ Record(p)

Next ==
    \/ \E t \in Target : QueueIntent(t) \/ LoseLease(t)
    \/ \E p \in Worker, t \in Target : Claim(p, t)
    \/ \E p \in Worker : Deliver(p) \/ Crash(p)
    \/ (LoseCommentLease \/ DeleteComment) /\ UNCHANGED <<rowVars, remoteVars, work>>

Spec == Init /\ [][Next]_vars

(* Each monitor polls and works on until its call returns, and time passes: the  *)
(* lease of a processor that died expires.                                      *)
LeaseRunsOut(t) == Abandoned(t) /\ LoseLease(t)
CommentLeaseRunsOut ==
    CommentAbandoned /\ LoseCommentLease /\ UNCHANGED <<rowVars, remoteVars, work>>
Fairness ==
    /\ \A p \in Worker : WF_vars(Deliver(p) \/ \E t \in Target : Claim(p, t))
    /\ \A t \in Target : WF_vars(LeaseRunsOut(t))
    /\ WF_vars(CommentLeaseRunsOut)
LiveSpec == Spec /\ Fairness

--------------------------------------------------------------------------------
(* Properties *)

Steps == RemoteSteps \cup Outcomes \cup {"idle"}
TypeOK ==
    /\ CommentTypeOK
    /\ rows \in [Target -> Seq(Row)]
    /\ ids \in [Target -> [provider : Provider \cup {None}, dep : Nat, comment : Nat]]
    /\ lease \in [Target -> [holder : Worker \cup {None}, live : BOOLEAN]]
    /\ work \in [Worker -> [step : Steps, target : Target \cup {None}, row : Nat,
                            dep : Nat, comment : Nat]]
    /\ deps \in [Target -> Nat]
    /\ statuses \in [Target -> Seq([dep : Nat, row : Nat])]

(* However a delivery is interrupted, repeated or taken over, no deployment gets *)
(* a second external deployment and no pull request a second live comment.       *)
OneExternalIdentity ==
    /\ \A t \in Target : deps[t] <= 1
    /\ \A pr \in Provider : Cardinality(Marked(pr)) <= 1

(* A row recorded as delivered is shown by the provider, on the external         *)
(* deployment the target recorded.                                              *)
DeliveredIsShown ==
    \A t \in Target : \A i \in DOMAIN rows[t] :
        rows[t][i].state = "delivered" => Shown(t, [dep |-> ids[t].dep, row |-> i])

(* Once recorded, a target's external ids are never replaced: a processor whose  *)
(* lease went to another cannot write what it learnt earlier.                    *)
IdentityIsKept ==
    [][\A t \in Target :
          /\ ids[t].dep # NoId => ids'[t].dep = ids[t].dep
          /\ ids[t].comment # NoId => ids'[t].comment = ids[t].comment]_ids

(* The provider sees each deployment's transitions in order, each at most once. *)
Stream == INSTANCE FeedbackStream WITH
    queued <- [t \in Target |-> Len(rows[t])],
    published <- [t \in Target |-> [k \in DOMAIN statuses[t] |-> statuses[t][k].row]]
PublishedInOrder == Stream!Spec

Waiting(t) ==
    \E i \in DOMAIN rows[t] :
        /\ rows[t][i].state \in Open
        /\ \A j \in 1..(i - 1) : rows[t][j].state # "dead-letter"

(* Every reported transition is delivered, skipped or given up, unless one of    *)
(* the same deployment before it was given up: time and again, a deployment has  *)
(* no transition left that waits.                                               *)
EveryTransitionSettles == \A t \in Target : []<>~Waiting(t)
================================================================================
