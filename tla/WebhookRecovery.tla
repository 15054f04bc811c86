---------------------------- MODULE WebhookRecovery ----------------------------
(* The recovery ledger of a push webhook. A provider delivers a push, and the    *)
(* same delivery again when it saw no success. A request that finds the delivery *)
(* unfinished and no attempt live claims it as a new attempt, registers the      *)
(* targets the push has, and handles those that are not settled: it looks for a  *)
(* deployment an earlier attempt made, or makes one and starts its workflow, and *)
(* records the outcome. Every write to the ledger asks for the attempt's lease;  *)
(* creating deployments and starting workflows does not.                        *)
(*                                                                             *)
(* The attempt's token is fresh, so a request at work has the current attempt    *)
(* exactly when it is its holder; when a lease is lost, so is all a request may  *)
(* still write. The deliveries a request does not claim (closed, live, or with   *)
(* another body) change nothing. Statuses no caller writes ("rejected") are left *)
(* out, and so is the poll worker, to which the deployment's row is all there is *)
(* to hand over.                                                                *)
EXTENDS Naturals, FiniteSets

CONSTANTS
    Handler,     \* the requests that are handled at the same time
    Service,     \* the services the project may have
    Project,     \* the target a push has that deploys no service
    Nobody,      \* no handler, no target
    MayRefuse,   \* TRUE: a service may be refused a deployment
    MaxFaults,   \* how many errors, crashes and lost leases a behaviour has
    MaxChanges   \* how often the services that a push deploys change

ASSUME NobodyAssumption == Nobody \notin Handler \cup Service \cup {Project}
ASSUME ProjectAssumption == Project \notin Service
ASSUME BoundsAssumption == MaxFaults \in Nat /\ MaxChanges \in Nat /\ MayRefuse \in BOOLEAN

VARIABLES
    delivery,    \* the status of the delivery
    lease,       \* who holds the current attempt, and whether its lease is unexpired
    target,      \* the status of each of the delivery's targets
    configured,  \* the services the push deploys, as the project is configured
    rows,        \* how many deployments the delivery has for each target
    deployment,  \* the state of the last of them
    workflow,    \* whether the engine has the deployment's workflow
    work,        \* what each request is doing
    faults,      \* how many errors, crashes and lost leases happened
    changes      \* how often the configuration changed

ledgerVars == <<delivery, lease, target>>
deploymentVars == <<rows, deployment, workflow>>
vars == <<delivery, lease, target, configured, rows, deployment, workflow, work, faults, changes>>

Key == Service \cup {Project}
Closed == {"succeeded", "ignored"}
Terminal == {"completed", "ignored"}
Eligible == {"pending", "failed"}
Idle == [step |-> "idle", fresh |-> FALSE, found |-> {}, todo |-> {}, key |-> Nobody,
         outcome |-> "none"]
Unleased == [holder |-> Nobody, live |-> FALSE]

Init ==
    /\ delivery = "new"
    /\ lease = Unleased
    /\ target = [k \in Key |-> "none"]
    /\ configured \in SUBSET Service
    /\ rows = [k \in Key |-> 0]
    /\ deployment = [k \in Key |-> "none"]
    /\ workflow = [k \in Key |-> FALSE]
    /\ work = [h \in Handler |-> Idle]
    /\ faults = 0
    /\ changes = 0

HoldsAttempt(h) == lease.holder = h /\ lease.live
Discovered == IF configured = {} THEN {Project} ELSE configured
Go(h, step) == work' = [work EXCEPT ![h].step = step]
Finish(h) == work' = [work EXCEPT ![h] = Idle]
SetTarget(k, status) ==
    target' = [target EXCEPT ![k] = IF @ \in Terminal THEN @ ELSE status]

--------------------------------------------------------------------------------
(* An unfinished delivery, unless its attempt is live. *)
ReclaimableFailed == delivery \in {"new", "failed", "partial"}
Reclaimable == delivery \notin Closed /\ ~(delivery = "processing" /\ lease.live)

Claim(h) ==
    /\ work[h].step = "idle"
    /\ Reclaimable
    /\ delivery' = "processing"
    /\ lease' = [holder |-> h, live |-> TRUE]
    /\ work' = [work EXCEPT ![h].step = "select", ![h].fresh = (delivery = "new")]
    /\ UNCHANGED <<target, configured, deploymentVars, faults, changes>>

(* Reads the open targets, and what the push deploys now. *)
Select(h) ==
    /\ work[h].step = "select"
    /\ HoldsAttempt(h)
    /\ LET open == {k \in Key : target[k] \in Eligible}
       IN  work' = [work EXCEPT ![h].step = "register", ![h].found = Discovered,
                                ![h].todo = open \cup Discovered]
    /\ UNCHANGED <<ledgerVars, configured, deploymentVars, faults, changes>>

(* Open targets that are gone are retired, then what was found is begun. *)
Register(h) ==
    /\ work[h].step = "register"
    /\ HoldsAttempt(h)
    /\ \E k \in work[h].todo :
          /\ k \in work[h].found => work[h].todo \subseteq work[h].found
          /\ SetTarget(k, IF k \in work[h].found THEN "pending" ELSE "ignored")
          /\ work' = [work EXCEPT ![h].todo = @ \ {k}]
    /\ UNCHANGED <<delivery, lease, configured, deploymentVars, faults, changes>>

(* Reads again what the push deploys, and takes what is to be processed: all of  *)
(* it in the first attempt, the open targets later.                             *)
Refresh(h) ==
    /\ work[h].step = "register" /\ work[h].todo = {}
    /\ HoldsAttempt(h)
    /\ LET all == work[h].fresh \/ \A k \in Key : target[k] = "none"
       IN  work' = [work EXCEPT ![h] = [Idle EXCEPT !.step = "next",
                       !.todo = {k \in Discovered : all \/ target[k] \in Eligible}]]
    /\ UNCHANGED <<ledgerVars, configured, deploymentVars, faults, changes>>

(* The lease is renewed and the target begun. *)
StartTarget(h) ==
    /\ work[h].step = "next"
    /\ HoldsAttempt(h)
    /\ \E k \in work[h].todo :
          /\ SetTarget(k, "pending")
          /\ work' = [work EXCEPT ![h].key = k, ![h].outcome = "ignored",
                                  ![h].step = IF k = Project THEN "record" ELSE "recover"]
    /\ UNCHANGED <<delivery, lease, configured, deploymentVars, faults, changes>>

Have(h, outcome) == work' = [work EXCEPT ![h].step = "record", ![h].outcome = outcome]
RowIsEnough(k) == TRUE
HandedOver(k) == workflow[k]

(* The delivery's deployment for the target, if it has one that has not failed;  *)
(* it is handed over unless its workflow is known.                              *)
Recover(h) ==
    LET k == work[h].key
    IN  /\ work[h].step = "recover"
        /\ \/ deployment[k] \in {"none", "failed"} /\ Go(h, "trigger")
           \/ deployment[k] \in {"queued", "done"} /\ HandedOver(k) /\ Have(h, "completed")
           \/ deployment[k] \in {"queued", "done"} /\ Go(h, "start")
        /\ UNCHANGED <<ledgerVars, configured, deploymentVars, faults, changes>>

(* The unique index on the delivery and the target. *)
NoneStanding(k) == deployment[k] \in {"none", "failed"}
Insertable(k) == rows[k] = 0

(* A new deployment is refused, or its row inserted, unless the index objects.   *)
Trigger(h) ==
    LET k == work[h].key
    IN  /\ work[h].step = "trigger"
        /\ \/ MayRefuse /\ Have(h, "failed") /\ UNCHANGED <<rows, deployment>>
           \/ /\ Insertable(k)
              /\ rows' = [rows EXCEPT ![k] = @ + 1]
              /\ deployment' = [deployment EXCEPT ![k] = "queued"]
              /\ Go(h, "start")
           \/ ~Insertable(k) /\ Go(h, "fail") /\ UNCHANGED <<rows, deployment>>
        /\ UNCHANGED <<ledgerVars, configured, workflow, faults, changes>>

(* The engine starts the workflow or has it already. A start that fails, or      *)
(* whose answer is lost, fails the deployment and the request.                   *)
StartWorkflow(h) ==
    LET k == work[h].key
        started == [workflow EXCEPT ![k] = TRUE]
    IN  /\ work[h].step = "start"
        /\ \/ workflow' = started /\ Have(h, "completed") /\ UNCHANGED <<deployment, faults>>
           \/ /\ faults < MaxFaults
              /\ faults' = faults + 1
              /\ workflow' \in {workflow, started}
              /\ deployment' = [deployment EXCEPT ![k] = IF @ = "queued" THEN "failed" ELSE @]
              /\ Go(h, "fail")
        /\ UNCHANGED <<ledgerVars, configured, rows, changes>>

Record(h) ==
    /\ work[h].step = "record"
    /\ HoldsAttempt(h)
    /\ SetTarget(work[h].key, work[h].outcome)
    /\ work' = [work EXCEPT ![h].step = "next", ![h].todo = @ \ {work[h].key},
                            ![h].key = Nobody, ![h].outcome = "none"]
    /\ UNCHANGED <<delivery, lease, configured, deploymentVars, faults, changes>>

(* The status of the delivery, from its targets or, without any, as requested. *)
StatusWithoutPending(requested) ==
    LET known == {k \in Key : target[k] # "none"}
    IN  CASE known = {} -> requested
          [] \E k \in known : target[k] = "failed" -> "failed"
          [] \E k \in known : target[k] = "completed" -> "succeeded"
          [] OTHER -> "ignored"
StatusOfTargets(requested) ==
    LET known == {k \in Key : target[k] # "none"}
        open == {k \in known : target[k] \in Eligible}
    IN  CASE known = {} -> requested
          [] open # {} -> IF open = known THEN "failed" ELSE "partial"
          [] open = {} /\ \E k \in known : target[k] = "completed" -> "succeeded"
          [] OTHER -> "ignored"

(* Completing an attempt takes it out of processing, which ends its lease. *)
StillHeld == lease
Released == Unleased

EndAttempt(h, requested) ==
    /\ HoldsAttempt(h)
    /\ delivery' = StatusOfTargets(requested)
    /\ lease' = Released
    /\ Finish(h)
    /\ UNCHANGED <<target, configured, deploymentVars, faults, changes>>

Complete(h) == work[h].step = "next" /\ work[h].todo = {} /\ EndAttempt(h, "succeeded")
Fail(h) == work[h].step = "fail" /\ EndAttempt(h, "failed")

(* A request that asks for a lease it has lost gives up; its last write, too,    *)
(* asks for the lease.                                                          *)
GiveUp(h) ==
    /\ work[h].step \in {"select", "register", "next", "record", "fail"}
    /\ ~HoldsAttempt(h)
    /\ Finish(h)
    /\ UNCHANGED <<ledgerVars, configured, deploymentVars, faults, changes>>

--------------------------------------------------------------------------------
(* An error the request answers by failing the attempt, or its process dies. *)
Interrupt(h) ==
    /\ work[h].step # "idle"
    /\ faults < MaxFaults
    /\ faults' = faults + 1
    /\ \/ work[h].step \notin {"select", "fail"} /\ Go(h, "fail")
       \/ Finish(h)
    /\ UNCHANGED <<ledgerVars, configured, deploymentVars, changes>>

(* The lease runs out: nothing renews it while a target is processed. *)
Abandoned == lease.live /\ work[lease.holder].step = "idle"
LoseLease ==
    /\ lease.live
    /\ lease' = [lease EXCEPT !.live = FALSE]
    /\ IF Abandoned
       THEN UNCHANGED faults
       ELSE faults < MaxFaults /\ faults' = faults + 1
    /\ UNCHANGED <<delivery, target, configured, deploymentVars, work, changes>>

(* Services are added, removed, or filtered out of the push. *)
Reconfigure ==
    /\ changes < MaxChanges
    /\ changes' = changes + 1
    /\ configured' \in SUBSET Service \ {configured}
    /\ UNCHANGED <<ledgerVars, deploymentVars, work, faults>>

(* A deployment is carried out, or fails, or is cancelled while it is queued,    *)
(* which makes it failed.                                                       *)
DeploymentEnds(k) ==
    /\ deployment[k] = "queued"
    /\ \E end \in {"done", "failed"} :
          /\ end = "done" => workflow[k]
          /\ deployment' = [deployment EXCEPT ![k] = end]
    /\ UNCHANGED <<ledgerVars, configured, rows, workflow, work, faults, changes>>

Process(h) ==
    \/ Select(h) \/ Register(h) \/ Refresh(h)
    \/ StartTarget(h) \/ Recover(h) \/ Trigger(h) \/ StartWorkflow(h) \/ Record(h)
    \/ Complete(h) \/ Fail(h) \/ GiveUp(h)

Next ==
    \/ \E h \in Handler : Claim(h) \/ Process(h) \/ Interrupt(h)
    \/ LoseLease
    \/ Reconfigure
    \/ \E k \in Service : DeploymentEnds(k)

Spec == Init /\ [][Next]_vars

(* The provider delivers until it sees success, requests are worked on until     *)
(* they are answered, and time passes.                                          *)
Fairness ==
    /\ \A h \in Handler : WF_vars(Claim(h) \/ Process(h))
    /\ WF_vars(Abandoned /\ LoseLease)
LiveSpec == Spec /\ Fairness

--------------------------------------------------------------------------------
(* Properties *)

Steps == {"idle", "select", "register", "next", "recover", "trigger", "start", "record", "fail"}
TypeOK ==
    /\ delivery \in {"new", "processing", "failed", "partial"} \cup Closed
    /\ lease \in [holder : Handler \cup {Nobody}, live : BOOLEAN]
    /\ lease.live => lease.holder # Nobody /\ delivery = "processing"
    /\ target \in [Key -> {"none"} \cup Eligible \cup Terminal]
    /\ configured \subseteq Service
    /\ rows \in [Key -> Nat]
    /\ deployment \in [Key -> {"none", "queued", "done", "failed"}]
    /\ workflow \in [Key -> BOOLEAN]
    /\ work \in [Handler -> [step : Steps, fresh : BOOLEAN, found : SUBSET Key,
                             todo : SUBSET Key, key : Key \cup {Nobody},
                             outcome : {"none", "failed"} \cup Terminal]]
    /\ faults \in 0..MaxFaults
    /\ changes \in 0..MaxChanges

(* A target is recorded as completed only when its deployment was handed over,   *)
(* whichever attempt created the row and whichever handed it over.               *)
CompletedIsHandedOver ==
    \A k \in Key : target[k] = "completed" => deployment[k] # "none" /\ workflow[k]

(* Redelivered, interrupted, or handled by two requests at once, a delivery      *)
(* settles each target once, deploys it at most once, and is closed only when    *)
(* nothing it knows is open, and then for good.                                 *)
Settled(status) ==
    CASE status \in Terminal -> status
      [] status \in Eligible -> "open"
      [] OTHER -> "unknown"
Push == INSTANCE PushDelivery WITH
    settled <- [k \in Key |-> Settled(target[k])],
    deployed <- rows,
    closed <- delivery \in Closed
SettledOnce == Push!Spec

(* An attempt does not stay in flight: it ends, or its lease does and another    *)
(* attempt takes over.                                                          *)
AttemptsEnd == delivery = "processing" ~> delivery # "processing"

(* An interrupted target is retried until it is settled. *)
InterruptedTargetsRetry ==
    \A k \in Key : target[k] = "pending" ~> target[k] \in Terminal
================================================================================
