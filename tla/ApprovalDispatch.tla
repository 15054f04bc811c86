---------------------------- MODULE ApprovalDispatch ----------------------------
(* Approvals and the durable dispatch of what they allow. A request is approved, *)
(* rejected or runs out; approving it saves a dispatch row with the id of the    *)
(* operation in the same transaction. Monitors claim dispatch rows, check that   *)
(* the approval still stands, create the operation's row (a deployment or a      *)
(* restore) under that id, start its workflow, and record that it was submitted. *)
(* Each of these is a transaction or a call of its own that can fail, lose its   *)
(* answer or be the last thing its process does; a reconciliation copies the     *)
(* operation's end to the dispatch row, and an operator may requeue a dispatch   *)
(* that failed before it was submitted.                                         *)
(*                                                                             *)
(* A deployment's row changes under guards and ends for good. A restore's row is *)
(* written by its id alone, by activities the engine tries again and by attempts *)
(* it has given up; the last one to write has it.                               *)
(*                                                                             *)
(* A monitor reads its clock once, before it claims, so it never sees its own    *)
(* lease run out: only the token of a later claim fences it. The token is fresh  *)
(* for every claim, hence a monitor at work on a row has the row's token exactly *)
(* when it is the row's holder. The time of the next attempt is not kept, and an *)
(* attempt count above MaxAttempts is as good as MaxAttempts.                    *)
EXTENDS Naturals

CONSTANTS
    Request,      \* approval requests
    User,         \* the people who reject
    Monitor,      \* the processes that dispatch
    Nobody,       \* no monitor, no request
    MaxAttempts,  \* attempts after which a failure is final
    MaxFaults,    \* how many crashes, lost leases and stray writes a behaviour has
    MaxRetries    \* how often operators requeue a dispatch

ASSUME NobodyAssumption == Nobody \notin Monitor \cup Request
ASSUME AttemptsAssumption == MaxAttempts \in Nat \ {0}
ASSUME BoundsAssumption == MaxFaults \in Nat /\ MaxRetries \in Nat

VARIABLES
    request,    \* each request and the decision on it
    kind,       \* what each request asks for, a deployment or a restore
    late,       \* whether the request's expiry has passed
    rejecting,  \* the request each user has read as pending in order to reject it
    dispatch,   \* each request's dispatch row
    lease,      \* the lease of each dispatch row
    operation,  \* each request's operation rows, by operation id
    workflow,   \* the workflow executions the engine has for those ids
    attempt,    \* which attempt the current activity of a restore is at
    stray,      \* writes that given-up attempts of a restore may still do
    ran,        \* how often the activity that carries each operation out was begun
    binding,    \* whether the actor's authority and the target still match
    work,       \* what each monitor is doing
    faults,     \* how many crashes, lost leases and stray writes there were
    retries     \* how often operators requeued a dispatch

decisionVars == <<request, kind, late, rejecting>>
rowVars == <<dispatch, lease>>
runVars == <<attempt, stray, ran>>
operationVars == <<operation, workflow, runVars>>
boundVars == <<faults, retries>>
vars == <<decisionVars, rowVars, operationVars, binding, work, boundVars>>

OperationId == {1, 2}
Claimable == {"pending", "retrying"}
DispatchStatus == {"none", "dispatched", "succeeded", "terminal-failure"} \cup Claimable
Ended == {"succeeded", "failed", "withdrawn"}
Stage == {"none", "open", "executing", "executed", "recorded", "failing", "closed"}
Idle == [step |-> "idle", request |-> Nobody]
Unleased == [holder |-> Nobody, live |-> FALSE]

Init ==
    /\ request = [r \in Request |-> "none"]
    /\ kind \in [Request -> {"deployment", "restore"}]
    /\ late = [r \in Request |-> FALSE]
    /\ rejecting = [u \in User |-> Nobody]
    /\ dispatch = [r \in Request |->
          [status |-> "none", attempts |-> 0, id |-> 1, submitted |-> FALSE]]
    /\ lease = [r \in Request |-> Unleased]
    /\ operation = [r \in Request |-> [i \in OperationId |-> "none"]]
    /\ workflow = [r \in Request |-> [i \in OperationId |-> "none"]]
    /\ attempt = [r \in Request |-> [i \in OperationId |-> 1]]
    /\ stray = [r \in Request |-> [i \in OperationId |-> {}]]
    /\ ran = [r \in Request |-> [i \in OperationId |-> 0]]
    /\ binding = [r \in Request |-> TRUE]
    /\ work = [m \in Monitor |-> Idle]
    /\ faults = 0
    /\ retries = 0

--------------------------------------------------------------------------------
(* Decisions. *)

SetRequest(r, status) == request' = [request EXCEPT ![r] = status]

(* A request is made, with the time at which it runs out. *)
Ask(r) ==
    /\ request[r] = "none"
    /\ SetRequest(r, "pending")
    /\ UNCHANGED <<kind, late, rejecting, rowVars, operationVars, binding, work, boundVars>>

(* The expiry of the request passes. *)
RunOut(r) ==
    /\ request[r] = "pending" /\ ~late[r]
    /\ late' = [late EXCEPT ![r] = TRUE]
    /\ UNCHANGED <<request, kind, rejecting, rowVars, operationVars, binding, work, boundVars>>

(* Under the row's lock: the decision and the dispatch row are one transaction. *)
Approve(r) ==
    /\ request[r] = "pending" /\ ~late[r]
    /\ SetRequest(r, "approved")
    /\ dispatch' = [dispatch EXCEPT ![r].status = "pending"]
    /\ UNCHANGED <<kind, late, rejecting, lease, operationVars, binding, work, boundVars>>

(* An approval that comes too late, or a new request for the same preview. *)
Expire(r) ==
    /\ request[r] = "pending" /\ late[r]
    /\ SetRequest(r, "expired")
    /\ UNCHANGED <<kind, late, rejecting, rowVars, operationVars, binding, work, boundVars>>

(* A rejection reads the request in one statement ... *)
BeginReject(u, r) ==
    /\ rejecting[u] = Nobody
    /\ request[r] = "pending"
    /\ rejecting' = [rejecting EXCEPT ![u] = r]
    /\ UNCHANGED <<request, kind, late, rowVars, operationVars, binding, work, boundVars>>

(* ... and updates it in another, which asks for the status again. *)
StillThere(r) == TRUE
StillPending(r) == request[r] = "pending"

EndReject(u) ==
    /\ rejecting[u] # Nobody
    /\ IF StillPending(rejecting[u])
       THEN SetRequest(rejecting[u], "rejected")
       ELSE UNCHANGED request
    /\ rejecting' = [rejecting EXCEPT ![u] = Nobody]
    /\ UNCHANGED <<kind, late, rowVars, operationVars, binding, work, boundVars>>

(* A role, a backup, a target or a policy the approval was given for changes, or *)
(* is put back.                                                                 *)
Rebind(r) ==
    /\ request[r] = "approved"
    /\ binding' = [binding EXCEPT ![r] = ~@]
    /\ UNCHANGED <<decisionVars, rowVars, operationVars, work, boundVars>>

--------------------------------------------------------------------------------
(* Dispatching. *)

(* The oldest due row whose lease is free or run out. *)
Claim(m, r) ==
    /\ work[m].step = "idle"
    /\ dispatch[r].status \in Claimable
    /\ ~lease[r].live
    /\ LET n == dispatch[r].attempts
       IN  dispatch' = [dispatch EXCEPT
              ![r].status = IF n > 0 THEN "retrying" ELSE "pending",
              ![r].attempts = IF n < MaxAttempts THEN n + 1 ELSE n]
    /\ lease' = [lease EXCEPT ![r] = [holder |-> m, live |-> TRUE]]
    /\ work' = [work EXCEPT ![m] = [step |-> "check", request |-> r]]
    /\ UNCHANGED <<decisionVars, operationVars, binding, boundVars>>

Go(m, step) == work' = [work EXCEPT ![m].step = step]

(* The payload, the actor, the request and the target are read and compared. *)
Check(m) ==
    LET r == work[m].request
    IN  /\ work[m].step = "check"
        /\ \/ Go(m, IF request[r] = "approved" /\ binding[r] THEN "create" ELSE "terminal")
           \/ Go(m, "retry")   \* a provider or the database cannot be reached
        /\ UNCHANGED <<decisionVars, rowVars, operationVars, binding, boundVars>>

(* The operation's row is created, or found, under the dispatch's operation id;  *)
(* a new one can be refused, and the answer lost.                                *)
CreateOperation(m) ==
    LET r == work[m].request
        i == dispatch[r].id
    IN  /\ work[m].step = "create"
        /\ \/ /\ operation' = [operation EXCEPT ![r][i] = IF @ = "none" THEN "queued" ELSE @]
              /\ \E next \in {"start", "retry"} : Go(m, next)
           \/ (\E next \in {"retry", "terminal"} : Go(m, next)) /\ UNCHANGED operation
        /\ UNCHANGED <<decisionVars, rowVars, workflow, runVars, binding, boundVars>>

AfterRefusal == "retry"
AfterRefusalIgnored == "dispatched"
AfterStartFailure == AfterRefusal

(* The engine starts one workflow per operation id, whatever it is asked. *)
StartWorkflow(m) ==
    LET r == work[m].request
        i == dispatch[r].id
    IN  /\ work[m].step = "start"
        /\ \/ /\ workflow' = [workflow EXCEPT ![r][i] = IF @ = "none" THEN "open" ELSE @]
              /\ \E next \in {"dispatched", "retry"} : Go(m, next)
           \/ Go(m, AfterStartFailure) /\ UNCHANGED workflow
        /\ UNCHANGED <<decisionVars, rowVars, operation, runVars, binding, boundVars>>

HoldsToken(m) == lease[work[m].request].holder = m

(* The row becomes dispatched, if no later claim has taken it. *)
MarkDispatched(m) ==
    LET r == work[m].request
    IN  /\ work[m].step = "dispatched"
        /\ IF HoldsToken(m)
           THEN /\ dispatch' = [dispatch EXCEPT ![r].status = "dispatched", ![r].submitted = TRUE]
                /\ lease' = [lease EXCEPT ![r] = Unleased]
           ELSE UNCHANGED rowVars
        /\ work' = [work EXCEPT ![m] = Idle]
        /\ UNCHANGED <<decisionVars, operationVars, binding, boundVars>>

(* A failure is final when it is of its nature or when the attempts are used up. *)
MarkFailure(m) ==
    LET r == work[m].request
        final == work[m].step = "terminal" \/ dispatch[r].attempts >= MaxAttempts
    IN  /\ work[m].step \in {"retry", "terminal"}
        /\ IF HoldsToken(m)
           THEN /\ dispatch' = [dispatch EXCEPT
                      ![r].status = IF final THEN "terminal-failure" ELSE "retrying"]
                /\ lease' = [lease EXCEPT ![r] = Unleased]
           ELSE UNCHANGED rowVars
        /\ work' = [work EXCEPT ![m] = Idle]
        /\ UNCHANGED <<decisionVars, operationVars, binding, boundVars>>

Abandoned(r) == lease[r].live /\ work[lease[r].holder].request # r

(* The lease runs out; nothing renews it while its monitor works. *)
LoseLease(r) ==
    /\ lease[r].live
    /\ lease' = [lease EXCEPT ![r].live = FALSE]
    /\ IF Abandoned(r)
       THEN UNCHANGED faults
       ELSE faults < MaxFaults /\ faults' = faults + 1
    /\ UNCHANGED <<decisionVars, dispatch, operationVars, binding, work, retries>>

Crash(m) ==
    /\ work[m].step # "idle"
    /\ faults < MaxFaults
    /\ faults' = faults + 1
    /\ work' = [work EXCEPT ![m] = Idle]
    /\ UNCHANGED <<decisionVars, rowVars, operationVars, binding, retries>>

(* An operator requeues what failed before it was submitted, with the same id. *)
NewId(i) == IF i = 1 THEN 2 ELSE 1
SameId(i) == i

RetryDispatch(r) ==
    /\ dispatch[r].status = "terminal-failure" /\ ~dispatch[r].submitted
    /\ retries < MaxRetries
    /\ retries' = retries + 1
    /\ dispatch' = [dispatch EXCEPT ![r].status = "retrying", ![r].attempts = 0,
                                    ![r].id = SameId(@)]
    /\ lease' = [lease EXCEPT ![r] = Unleased]
    /\ UNCHANGED <<decisionVars, operationVars, binding, work, faults>>

--------------------------------------------------------------------------------
(* Operations. *)

SetOperation(r, i, status) == operation' = [operation EXCEPT ![r][i] = status]
GoOn(r, i, stage) == workflow' = [workflow EXCEPT ![r][i] = stage]

(* A deployment's workflow claims the row and runs it; the activity has a single *)
(* attempt.                                                                     *)
RunDeployment(r, i) ==
    /\ kind[r] = "deployment" /\ workflow[r][i] = "open"
    /\ operation[r][i] \in {"queued", "running"}
    /\ SetOperation(r, i, "running")
    /\ GoOn(r, i, "executing")
    /\ ran' = [ran EXCEPT ![r][i] = @ + 1]
    /\ UNCHANGED <<decisionVars, rowVars, attempt, stray, binding, work, boundVars>>

(* The workflow is through with the row, has lost it, or could not claim it. *)
CloseDeployment(r, i) ==
    /\ kind[r] = "deployment" /\ workflow[r][i] \in {"open", "executing"}
    /\ GoOn(r, i, "closed")
    /\ UNCHANGED <<decisionVars, rowVars, operation, runVars, binding, work, boundVars>>

(* Its run, its user or the watchdog ends a running deployment. *)
EndDeployment(r, i) ==
    /\ kind[r] = "deployment" /\ operation[r][i] = "running"
    /\ \E end \in Ended :
          /\ end = "succeeded" => workflow[r][i] = "executing"
          /\ SetOperation(r, i, end)
    /\ UNCHANGED <<decisionVars, rowVars, workflow, runVars, binding, work, boundVars>>

(* An operator moves a deployment on, or a user cancels a queued one. *)
MoveByHand(r, i) ==
    /\ kind[r] = "deployment"
    /\ \/ /\ operation[r][i] \in {"queued", "running"}
          /\ \E status \in {"running", "succeeded", "failed"} : SetOperation(r, i, status)
       \/ operation[r][i] = "queued" /\ SetOperation(r, i, "withdrawn")
    /\ UNCHANGED <<decisionVars, rowVars, workflow, runVars, binding, work, boundVars>>

(* A restore's workflow resolves the row ("open"), downloads and restores        *)
(* ("executing"), records the success ("executed"), tells everyone about it       *)
(* ("recorded"), and records a failure ("failing").                              *)
Writes == [open |-> "running", executed |-> "succeeded", failing |-> "failed"]
Onward == [open |-> "executing", executing |-> "executed", executed |-> "recorded",
           recorded |-> "closed", failing |-> "closed"]
OnFailure == [open |-> "closed", executing |-> "failing", executed |-> "failing",
              recorded |-> "failing", failing |-> "closed"]

InRestore(r, i) == kind[r] = "restore" /\ workflow[r][i] \in DOMAIN Onward
Write(r, i) ==
    IF workflow[r][i] \in DOMAIN Writes
    THEN SetOperation(r, i, Writes[workflow[r][i]])
    ELSE UNCHANGED operation
Forsake(r, i) ==
    /\ workflow[r][i] \in DOMAIN Writes
    /\ faults < MaxFaults /\ faults' = faults + 1
    /\ stray' = [stray EXCEPT ![r][i] = @ \cup {Writes[workflow[r][i]]}]
Restores(r, i) ==
    ran' = [ran EXCEPT ![r][i] = IF workflow[r][i] = "executing" THEN @ + 1 ELSE @]

(* The current activity of a restore returns. *)
ActivityReturns(r, i) ==
    /\ InRestore(r, i)
    /\ Write(r, i)
    /\ Restores(r, i)
    /\ GoOn(r, i, Onward[workflow[r][i]])
    /\ attempt' = [attempt EXCEPT ![r][i] = 1]
    /\ UNCHANGED <<decisionVars, rowVars, stray, binding, work, boundVars>>

(* An attempt does its work and its answer is lost, or throws, or is given up     *)
(* while it goes on. The second one that fails fails the workflow.               *)
AttemptFails(r, i) ==
    /\ InRestore(r, i)
    /\ \/ Write(r, i) /\ UNCHANGED <<stray, faults>>
       \/ Forsake(r, i) /\ UNCHANGED operation
       \/ UNCHANGED <<operation, stray, faults>>
    /\ Restores(r, i) \/ UNCHANGED ran
    /\ IF attempt[r][i] = 1
       THEN attempt' = [attempt EXCEPT ![r][i] = 2] /\ UNCHANGED workflow
       ELSE /\ attempt' = [attempt EXCEPT ![r][i] = 1]
            /\ GoOn(r, i, OnFailure[workflow[r][i]])
    /\ UNCHANGED <<decisionVars, rowVars, binding, work, retries>>

(* There is nothing to restore, or any more; or another activity of the stage    *)
(* fails for good.                                                              *)
StageFails(r, i) ==
    /\ InRestore(r, i) /\ workflow[r][i] # "failing"
    /\ GoOn(r, i, OnFailure[workflow[r][i]])
    /\ attempt' = [attempt EXCEPT ![r][i] = 1]
    /\ UNCHANGED <<decisionVars, rowVars, operation, stray, ran, binding, work, boundVars>>

(* An hour after its start the engine ends the workflow, wherever it is. *)
WorkflowTimesOut(r, i) ==
    /\ InRestore(r, i)
    /\ Forsake(r, i) \/ UNCHANGED <<stray, faults>>
    /\ Restores(r, i) \/ UNCHANGED ran
    /\ GoOn(r, i, "closed")
    /\ attempt' = [attempt EXCEPT ![r][i] = 1]
    /\ UNCHANGED <<decisionVars, rowVars, operation, binding, work, retries>>

StrayWrite(r, i) ==
    /\ \E status \in stray[r][i] :
          /\ SetOperation(r, i, status)
          /\ stray' = [stray EXCEPT ![r][i] = @ \ {status}]
    /\ UNCHANGED <<decisionVars, rowVars, workflow, attempt, ran, binding, work, boundVars>>

--------------------------------------------------------------------------------
(* Reconciliation. *)

(* The end of an operation, as the reconciliation sees it. *)
TerminalStateOfRun(status) ==
    CASE status = "succeeded" -> "succeeded"
      [] status \in {"failed", "none"} -> "terminal-failure"
      [] OTHER -> "dispatched"
TerminalStateCopied(status) ==
    CASE status = "succeeded" -> "succeeded"
      [] status \in {"failed", "withdrawn", "none"} -> "failed"
      [] OTHER -> "dispatched"
TerminalState(status) ==
    CASE status = "succeeded" -> "succeeded"
      [] status \in {"failed", "withdrawn", "none"} -> "terminal-failure"
      [] OTHER -> "dispatched"

Reconcile(r) ==
    LET end == TerminalState(operation[r][dispatch[r].id])
    IN  /\ dispatch[r].status = "dispatched"
        /\ end # "dispatched"
        /\ dispatch' = [dispatch EXCEPT ![r].status = end]
        /\ UNCHANGED <<decisionVars, lease, operationVars, binding, work, boundVars>>

--------------------------------------------------------------------------------
MonitorStep(m) ==
    \/ Check(m)
    \/ CreateOperation(m)
    \/ StartWorkflow(m)
    \/ MarkDispatched(m)
    \/ MarkFailure(m)

RequestStep(r) ==
    \/ Ask(r) \/ RunOut(r) \/ Approve(r) \/ Expire(r) \/ Rebind(r)
    \/ LoseLease(r) \/ RetryDispatch(r) \/ Reconcile(r)

DeploymentStep(r, i) ==
    RunDeployment(r, i) \/ CloseDeployment(r, i) \/ EndDeployment(r, i) \/ MoveByHand(r, i)

RestoreStep(r, i) ==
    \/ ActivityReturns(r, i) \/ AttemptFails(r, i) \/ StageFails(r, i)
    \/ WorkflowTimesOut(r, i) \/ StrayWrite(r, i)

Next ==
    \/ \E r \in Request : RequestStep(r)
    \/ \E u \in User, r \in Request : BeginReject(u, r)
    \/ \E u \in User : EndReject(u)
    \/ \E m \in Monitor, r \in Request : Claim(m, r)
    \/ \E m \in Monitor : MonitorStep(m) \/ Crash(m)
    \/ \E r \in Request, i \in OperationId : DeploymentStep(r, i) \/ RestoreStep(r, i)

Spec == Init /\ [][Next]_vars

(* The monitors poll, in turn over what is due, and their calls return; leases   *)
(* of monitors that died run out; workflows carry on or are ended, and a running *)
(* deployment ends (ActiveDeploymentEnds of DeploymentLifecycle).               *)
Fairness ==
    /\ \A m \in Monitor : WF_vars(MonitorStep(m)) /\ WF_vars(\E r \in Request : Claim(m, r))
    /\ \A r \in Request :
          /\ WF_vars(Abandoned(r) /\ LoseLease(r))
          /\ WF_vars(Reconcile(r))
          /\ \A i \in OperationId :
                /\ WF_vars(RunDeployment(r, i) \/ CloseDeployment(r, i))
                /\ WF_vars(EndDeployment(r, i))
                /\ WF_vars(ActivityReturns(r, i) \/ AttemptFails(r, i))
LiveSpec == Spec /\ Fairness

--------------------------------------------------------------------------------
(* Properties *)

Steps == {"idle", "check", "create", "start", "dispatched", "retry", "terminal"}
TypeOK ==
    /\ request \in [Request -> {"none", "pending", "approved", "rejected", "expired"}]
    /\ kind \in [Request -> {"deployment", "restore"}]
    /\ late \in [Request -> BOOLEAN]
    /\ rejecting \in [User -> Request \cup {Nobody}]
    /\ dispatch \in [Request -> [status : DispatchStatus, attempts : 0..MaxAttempts,
                                 id : OperationId, submitted : BOOLEAN]]
    /\ lease \in [Request -> [holder : Monitor \cup {Nobody}, live : BOOLEAN]]
    /\ operation \in [Request -> [OperationId -> {"none", "queued", "running"} \cup Ended]]
    /\ workflow \in [Request -> [OperationId -> Stage]]
    /\ attempt \in [Request -> [OperationId -> {1, 2}]]
    /\ stray \in [Request -> [OperationId -> SUBSET {"running", "succeeded", "failed"}]]
    /\ ran \in [Request -> [OperationId -> Nat]]
    /\ binding \in [Request -> BOOLEAN]
    /\ work \in [Monitor -> [step : Steps, request : Request \cup {Nobody}]]
    /\ faults \in 0..MaxFaults
    /\ retries \in 0..MaxRetries

(* A dispatch is recorded as submitted only once the engine has the workflow of  *)
(* an operation whose row exists, whoever did the submitting.                    *)
SubmittedIsStarted ==
    \A r \in Request : dispatch[r].submitted =>
        /\ workflow[r][dispatch[r].id] # "none"
        /\ operation[r][dispatch[r].id] # "none"

(* An approval has one effect, whatever is interrupted, repeated, requeued or     *)
(* decided at the same time: nothing before it, one execution of a deployment,   *)
(* at most the two attempts of a restore; and a success is reported only of an   *)
(* operation whose row says so at the time.                                     *)
Action == INSTANCE ApprovedAction WITH
    decision <- [r \in Request |-> IF request[r] = "none" THEN "pending" ELSE request[r]],
    begun <- [r \in Request |-> ran[r][1] + ran[r][2]],
    ended <- [r \in Request |-> \E i \in OperationId : operation[r][i] = "succeeded"],
    reported <- [r \in Request |-> dispatch[r].status = "succeeded"]
ActsAsApproved == Action!Spec

(* A decision is never replaced by another one. *)
DecisionIsFinal ==
    [][\A r \in Request :
          request[r] \in {"approved", "rejected", "expired"} => request'[r] = request[r]]_request

(* A workflow is over and has left behind a row that nobody ends any more. *)
Stranded(r) ==
    /\ workflow[r][dispatch[r].id] = "closed"
    /\ \/ operation[r][dispatch[r].id] = "queued"
       \/ kind[r] = "restore" /\ operation[r][dispatch[r].id] = "running"

(* An approved request comes to an end that its row reports, unless its workflow *)
(* gives the operation's row up.                                               *)
ApprovalSettles ==
    \A r \in Request :
        request[r] = "approved" ~>
           dispatch[r].status \in {"succeeded", "terminal-failure"} \/ Stranded(r)

(* The code keeps neither of these (README, Findings): every approved request is *)
(* reported to have ended, and what was reported of a restore stays true.        *)
EveryApprovalIsReported ==
    \A r \in Request :
        request[r] = "approved" ~> dispatch[r].status \in {"succeeded", "terminal-failure"}
ReportsStayTrue ==
    \A r \in Request :
        dispatch[r].status = "succeeded" => operation[r][dispatch[r].id] = "succeeded"
================================================================================
