---------------------------- MODULE DeploymentClaims ----------------------------
(***************************************************************************)
(* Who executes a queued deployment.                                        *)
(*                                                                         *)
(* A deployment row is claimed by one UPDATE: of the workflow Temporal runs *)
(* for it (claimDeploymentForExecution), or of a legacy poller that looks   *)
(* for any queued row (claimNextQueuedDeploymentForExecution).  Both leave a *)
(* row alone while another deployment of its service is active; a workflow's *)
(* build also waits for the older queued builds of its server.              *)
(*                                                                         *)
(* Such a statement looks at the other rows in the snapshot taken when it   *)
(* began, and only at the row it updates as that row is when it commits.    *)
(* Begin takes the snapshot, End commits.                                   *)
(*                                                                         *)
(* Deployments are numbered in (created_at, id) order, which is the order   *)
(* their transactions began in and not the one they commit in.              *)
(***************************************************************************)
EXTENDS Naturals, FiniteSets

CONSTANTS
  Deployment,  \* deployments that may be requested, numbered by age
  Build,       \* those that build an image
  ServiceOf,   \* project, environment and service name of each
  ServerOf,    \* target server of each
  Poller,      \* processes that run the legacy polling worker
  NoJob,       \* what a poller executes when it executes nothing
  Temporal     \* isTemporalEnabled()

ASSUME DeploymentAssumption ==
  Deployment \subseteq Nat /\ Build \subseteq Deployment /\ NoJob \notin Deployment
ASSUME TemporalAssumption == Temporal \in BOOLEAN

VARIABLES
  row,       \* deployments.status, and how the row came by it
  workflow,  \* where the workflow of each deployment is
  seen,      \* the snapshot its claim runs on
  poller,    \* where each poller is
  polled,    \* the snapshot its claim runs on
  job        \* the deployment it executes

workflowVars == <<workflow, seen>>
pollerVars   == <<poller, polled, job>>
vars == <<row, workflow, seen, poller, polled, job>>

\* Active rows were claimed, or moved to deploy by an operator.
Active == {"claimed", "moved"}
\* Rows that ended, after they were active or while they were queued.
Over == {"ended", "withdrawn"}
RowState == {"absent", "queued", "claimed", "moved", "ended", "withdrawn"}
Snapshot == [Deployment -> RowState]
Blank == [d \in Deployment |-> "absent"]

\* Deployments somebody executes.
Executed == {d \in Deployment : workflow[d] = "running" \/ \E p \in Poller : job[p] = d}

TypeOK ==
  /\ row \in Snapshot
  /\ workflow \in [Deployment -> {"none", "ready", "claiming", "running", "over"}]
  /\ seen \in [Deployment -> Snapshot]
  /\ poller \in [Poller -> {"idle", "claiming", "running"}]
  /\ polled \in [Poller -> Snapshot]
  /\ job \in [Poller -> Deployment \cup {NoJob}]
  /\ \A p \in Poller : job[p] # NoJob <=> poller[p] = "running"

Init ==
  /\ row = Blank
  /\ workflow = [d \in Deployment |-> "none"]
  /\ seen = [d \in Deployment |-> Blank]
  /\ poller = [p \in Poller |-> "idle"]
  /\ polled = [p \in Poller |-> Blank]
  /\ job = [p \in Poller |-> NoJob]

-------------------------------------------------------------------------------
(* Rows.                                                                    *)

\* createDeploymentRecord commits.
Create(d) ==
  /\ row[d] = "absent"
  /\ row' = [row EXCEPT ![d] = "queued"]
  /\ UNCHANGED <<workflowVars, pollerVars>>

\* Whoever ends a row: its run, a user, an operator, the watchdog.
End(d) ==
  row' = [row EXCEPT ![d] = IF @ = "queued" THEN "withdrawn" ELSE IF @ \in Active THEN "ended" ELSE @]

\* A queued deployment is cancelled, or completed or failed by an operator.
Withdraw(d) == row[d] = "queued" /\ End(d) /\ UNCHANGED <<workflowVars, pollerVars>>

\* An active one is concluded by another than its run.
Conclude(d) == row[d] \in Active /\ End(d) /\ UNCHANGED <<workflowVars, pollerVars>>

\* dispatchExecutionJob: an operator moves the row, whatever else is active.
DispatchExecutionJob(d) ==
  /\ row[d] = "queued"
  /\ row' = [row EXCEPT ![d] = "moved"]
  /\ UNCHANGED <<workflowVars, pollerVars>>

-------------------------------------------------------------------------------
(* The two conditions of a claim, on a snapshot v.                          *)

\* Mutated forms stand before the definition they replace: here one that looks
\* at the row alone, and one for which queued rows conflict as well.
OwnRowIsActive(v, d) == v[d] \in Active
UnfinishedConflict(v, d) ==
  \E e \in Deployment \ {d} : ServiceOf[e] = ServiceOf[d] /\ v[e] \in Active \cup {"queued"}

ActiveDeploymentConflict(v, d) ==
  \E e \in Deployment \ {d} : ServiceOf[e] = ServiceOf[d] /\ v[e] \in Active

\* The mutant lets a build wait for itself.
OlderOrSameQueuedBuild(v, d) ==
  \E e \in Build : ServerOf[e] = ServerOf[d] /\ v[e] = "queued" /\ e <= d

OlderQueuedBuild(v, d) ==
  \E e \in Build : ServerOf[e] = ServerOf[d] /\ v[e] = "queued" /\ e < d

-------------------------------------------------------------------------------
(* Workflows.                                                               *)

\* dispatchDeploymentExecution starts the workflow, once for a deployment; the
\* process may die before it does.
Dispatch(d) ==
  /\ Temporal
  /\ row[d] # "absent" /\ workflow[d] = "none"
  /\ workflow' = [workflow EXCEPT ![d] = "ready"]
  /\ UNCHANGED <<row, seen, pollerVars>>

\* Its statements throw: the deployment is failed, whether or not the workflow
\* was started.
DispatchFails(d) ==
  /\ Temporal
  /\ row[d] # "absent" /\ workflow[d] = "none"
  /\ End(d)
  /\ workflow' = [workflow EXCEPT ![d] = "ready"] \/ UNCHANGED workflow
  /\ UNCHANGED <<seen, pollerVars>>

\* Where a workflow goes on that reads its row; the mutant takes every row that
\* is not queued for a claimed one.
ReadAsRunning(d, queued) == IF row[d] = "queued" THEN queued ELSE "running"
AfterRead(d, queued) ==
  IF row[d] = "queued" THEN queued ELSE IF row[d] \in Active THEN "running" ELSE "over"

\* It reads the row and, if that is queued, begins its UPDATE.
BeginClaim(d) ==
  /\ workflow[d] = "ready"
  /\ workflow' = [workflow EXCEPT ![d] = AfterRead(d, "claiming")]
  /\ seen' = IF row[d] = "queued" THEN [seen EXCEPT ![d] = row] ELSE seen
  /\ UNCHANGED <<row, pollerVars>>

Claimable(d) ==
  /\ row[d] = "queued"
  /\ ~ActiveDeploymentConflict(seen[d], d)
  /\ d \in Build => ~OlderQueuedBuild(seen[d], d)

\* The UPDATE commits, or finds no row to update and the row is read again.
EndClaim(d) ==
  /\ workflow[d] = "claiming"
  /\ \/ /\ Claimable(d)
        /\ row' = [row EXCEPT ![d] = "claimed"]
        /\ workflow' = [workflow EXCEPT ![d] = "running"]
     \/ /\ ~Claimable(d)
        /\ workflow' = [workflow EXCEPT ![d] = AfterRead(d, "ready")]
        /\ UNCHANGED row
  /\ seen' = [seen EXCEPT ![d] = Blank]
  /\ UNCHANGED pollerVars

\* A claim activity throws or its worker dies: it is tried again, and the
\* workflow fails after the third attempt or when it is seven days old.
ClaimFails(d) ==
  /\ workflow[d] \in {"ready", "claiming"}
  /\ \E next \in {"ready", "over"} : workflow' = [workflow EXCEPT ![d] = next]
  /\ seen' = [seen EXCEPT ![d] = Blank]
  /\ UNCHANGED <<row, pollerVars>>

\* The run ends with its deployment, or dies and leaves it behind.
FinishWorkflow(d) ==
  /\ workflow[d] = "running"
  /\ workflow' = [workflow EXCEPT ![d] = "over"]
  /\ End(d) \/ UNCHANGED row
  /\ UNCHANGED <<seen, pollerVars>>

-------------------------------------------------------------------------------
(* Legacy pollers.                                                          *)

BeginPoll(p) ==
  /\ poller[p] = "idle"
  /\ poller' = [poller EXCEPT ![p] = "claiming"]
  /\ polled' = [polled EXCEPT ![p] = row]
  /\ UNCHANGED <<row, workflowVars, job>>

\* Rows FOR UPDATE accepts: queued and free of conflicts in the snapshot, and
\* still queued.
Candidate(p) ==
  {d \in Deployment : /\ polled[p][d] = "queued" /\ row[d] = "queued"
                      /\ ~ActiveDeploymentConflict(polled[p], d)}

\* Another claim may hold the locks of every candidate.
OthersClaim(p) ==
  \/ \E d \in Deployment : workflow[d] = "claiming"
  \/ \E q \in Poller \ {p} : poller[q] = "claiming"

\* The oldest candidate is taken, but SKIP LOCKED passes over rows that any
\* other statement holds, so it can be each of them.
EndPoll(p) ==
  /\ poller[p] = "claiming"
  /\ \/ \E d \in Candidate(p) :
          /\ row' = [row EXCEPT ![d] = "claimed"]
          /\ job' = [job EXCEPT ![p] = d]
          /\ poller' = [poller EXCEPT ![p] = "running"]
     \/ /\ Candidate(p) = {} \/ OthersClaim(p)
        /\ poller' = [poller EXCEPT ![p] = "idle"]
        /\ UNCHANGED <<row, job>>
  /\ polled' = [polled EXCEPT ![p] = Blank]
  /\ UNCHANGED workflowVars

\* The job runs to its end before the next poll; the mutant forgets to drop it.
KeepJob(p) == UNCHANGED job
DropJob(p) == job' = [job EXCEPT ![p] = NoJob]

FinishJob(p) ==
  /\ poller[p] = "running"
  /\ End(job[p])
  /\ DropJob(p)
  /\ poller' = [poller EXCEPT ![p] = "idle"]
  /\ UNCHANGED <<workflowVars, polled>>

\* The audit statement after a claim throws, or the process dies and is
\* started again: the claim rolls back, a committed one is left behind.
PollerFails(p) ==
  /\ poller[p] # "idle"
  /\ DropJob(p)
  /\ poller' = [poller EXCEPT ![p] = "idle"]
  /\ polled' = [polled EXCEPT ![p] = Blank]
  /\ UNCHANGED <<row, workflowVars>>

-------------------------------------------------------------------------------
RowStep(d) == Create(d) \/ Withdraw(d) \/ Conclude(d) \/ DispatchExecutionJob(d)

WorkflowStep(d) ==
  \/ Dispatch(d) \/ DispatchFails(d) \/ BeginClaim(d) \/ EndClaim(d)
  \/ ClaimFails(d) \/ FinishWorkflow(d)

PollerStep(p) == BeginPoll(p) \/ EndPoll(p) \/ FinishJob(p) \/ PollerFails(p)

Next ==
  \/ \E d \in Deployment : RowStep(d) \/ WorkflowStep(d)
  \/ \E p \in Poller : PollerStep(p)

Spec == Init /\ [][Next]_vars

\* Fairness: workflows and pollers keep trying and do not fail for ever, runs
\* end, and an active row is concluded (ActiveDeploymentEnds of
\* DeploymentLifecycle).  Nothing makes sure that a deployment is dispatched.
LiveSpec ==
  /\ Spec
  /\ \A d \in Deployment :
       /\ WF_vars(BeginClaim(d)) /\ SF_vars(EndClaim(d))
       /\ WF_vars(FinishWorkflow(d)) /\ WF_vars(Conclude(d))
  /\ \A p \in Poller : WF_vars(BeginPoll(p)) /\ SF_vars(EndPoll(p)) /\ WF_vars(FinishJob(p))

-------------------------------------------------------------------------------
(* Properties.                                                              *)

\* No two deployments of a service are claimed and active at once.
ServiceSerialized ==
  \A d, e \in Deployment :
    row[d] = "claimed" /\ row[e] = "claimed" /\ ServiceOf[d] = ServiceOf[e] => d = e

\* A deployment that was withdrawn while it was queued is executed by nobody.
WithdrawnIsNotExecuted == \A d \in Executed : row[d] # "withdrawn"

\* Nobody will claim this queued deployment: it was not dispatched, or its
\* workflow has given up.
Forsaken(d) == row[d] = "queued" /\ workflow[d] \in {"none", "over"} /\ Poller = {}

\* A queued deployment leaves the queue, unless it is forsaken or a build that
\* waits behind an older forsaken one.
QueuedIsClaimed ==
  \A d \in Deployment :
    row[d] = "queued" ~>
      \/ row[d] # "queued"
      \/ Forsaken(d)
      \/ d \in Build /\ \E e \in Build : e < d /\ ServerOf[e] = ServerOf[d] /\ Forsaken(e)
===============================================================================
