------------------------- MODULE DeploymentClaimsProofs -------------------------
(* Theorems about DeploymentClaims, for every set of deployments, services,   *)
(* servers and pollers.                                                       *)
EXTENDS DeploymentClaims, TLAPS

-------------------------------------------------------------------------------
(* Type correctness.                                                          *)

LEMMA InitTypeOK == Init => TypeOK
  BY DeploymentAssumption DEF Init, TypeOK, Snapshot, Blank, RowState

LEMMA EndsTyped ==
  ASSUME TypeOK, NEW d \in Deployment, End(d)
  PROVE  row' \in Snapshot
  BY DEF TypeOK, End, Snapshot, RowState, Active

LEMMA RowTyped ==
  ASSUME TypeOK, NEW d \in Deployment, RowStep(d)
  PROVE  TypeOK'
<1>1. row' \in Snapshot
  BY EndsTyped DEF TypeOK, RowStep, Create, Withdraw, Conclude, DispatchExecutionJob,
                   Snapshot, RowState
<1>2. UNCHANGED <<workflow, seen, poller, polled, job>>
  BY DEF RowStep, Create, Withdraw, Conclude, DispatchExecutionJob, workflowVars, pollerVars
<1> QED BY <1>1, <1>2 DEF TypeOK

LEMMA WorkflowTyped ==
  ASSUME TypeOK, NEW d \in Deployment, WorkflowStep(d)
  PROVE  TypeOK'
<1>1. UNCHANGED <<poller, polled, job>>
  BY DEF WorkflowStep, Dispatch, DispatchFails, BeginClaim, EndClaim, ClaimFails,
         FinishWorkflow, pollerVars
<1>2. row' \in Snapshot
  BY EndsTyped DEF TypeOK, WorkflowStep, Dispatch, DispatchFails, BeginClaim, EndClaim,
                   ClaimFails, FinishWorkflow, Snapshot, RowState
<1>3. workflow' \in [Deployment -> {"none", "ready", "claiming", "running", "over"}]
  BY DEF TypeOK, WorkflowStep, Dispatch, DispatchFails, BeginClaim, EndClaim, ClaimFails,
         FinishWorkflow, AfterRead
<1>4. seen' \in [Deployment -> Snapshot]
  <2>1. Blank \in Snapshot
    BY DEF Blank, Snapshot, RowState
  <2> QED BY <2>1 DEF TypeOK, WorkflowStep, Dispatch, DispatchFails, BeginClaim, EndClaim,
                      ClaimFails, FinishWorkflow
<1> QED BY <1>1, <1>2, <1>3, <1>4 DEF TypeOK

LEMMA PollerTyped ==
  ASSUME TypeOK, NEW p \in Poller, PollerStep(p)
  PROVE  TypeOK'
<1>1. UNCHANGED <<workflow, seen>>
  BY DEF PollerStep, BeginPoll, EndPoll, FinishJob, PollerFails, workflowVars
<1>2. row' \in Snapshot
  <2>1. CASE FinishJob(p)
    <3>1. job[p] \in Deployment /\ End(job[p])
      BY <2>1 DEF FinishJob, TypeOK
    <3> QED BY <3>1, EndsTyped
  <2>2. CASE BeginPoll(p) \/ EndPoll(p) \/ PollerFails(p)
    BY <2>2 DEF TypeOK, BeginPoll, EndPoll, PollerFails, Candidate, Snapshot, RowState
  <2> QED BY <2>1, <2>2 DEF PollerStep
<1>3. poller' \in [Poller -> {"idle", "claiming", "running"}]
  BY DEF TypeOK, PollerStep, BeginPoll, EndPoll, FinishJob, PollerFails
<1>4. polled' \in [Poller -> Snapshot]
  <2>1. Blank \in Snapshot
    BY DEF Blank, Snapshot, RowState
  <2> QED BY <2>1 DEF TypeOK, PollerStep, BeginPoll, EndPoll, FinishJob, PollerFails
<1>5. job' \in [Poller -> Deployment \cup {NoJob}]
  BY DEF TypeOK, PollerStep, BeginPoll, EndPoll, FinishJob, PollerFails, DropJob, Candidate
<1>6. \A q \in Poller : job'[q] # NoJob <=> poller'[q] = "running"
  BY DeploymentAssumption
     DEF TypeOK, PollerStep, BeginPoll, EndPoll, FinishJob, PollerFails, DropJob, Candidate
<1> QED BY <1>1, <1>2, <1>3, <1>4, <1>5, <1>6 DEF TypeOK

LEMMA StepTypeOK == TypeOK /\ [Next]_vars => TypeOK'
<1> SUFFICES ASSUME TypeOK, [Next]_vars PROVE TypeOK'
  OBVIOUS
<1>1. CASE UNCHANGED vars
  BY <1>1 DEF TypeOK, vars
<1> QED BY <1>1, RowTyped, WorkflowTyped, PollerTyped DEF Next

\* Every variable keeps its type, and a poller has a job exactly while it
\* executes one.
THEOREM ClaimsTypeCorrect == Spec => []TypeOK
  BY InitTypeOK, StepTypeOK, PTL DEF Spec

-------------------------------------------------------------------------------
(* Who executes a deployment has it claimed.                                  *)

Started(d) == row[d] \in {"claimed", "moved", "ended"}
ExecutedWasStarted == \A d \in Executed : Started(d)

\* A row that was started stays so.
LEMMA StartedStays ==
  ASSUME TypeOK, [Next]_vars, NEW d \in Deployment, Started(d)
  PROVE  Started(d)'
<1>1. CASE UNCHANGED vars
  BY <1>1 DEF Started, vars
<1>2. ASSUME NEW e \in Deployment, RowStep(e)
      PROVE  Started(d)'
  BY <1>2 DEF TypeOK, Snapshot, Started, Active, End, RowStep, Create, Withdraw, Conclude,
              DispatchExecutionJob
<1>3. ASSUME NEW e \in Deployment, WorkflowStep(e)
      PROVE  Started(d)'
  BY <1>3 DEF TypeOK, Snapshot, Started, Active, End, WorkflowStep, Dispatch, DispatchFails,
              BeginClaim, EndClaim, Claimable, ClaimFails, FinishWorkflow
<1>4. ASSUME NEW p \in Poller, PollerStep(p)
      PROVE  Started(d)'
  <2>1. CASE FinishJob(p)
    <3>1. job[p] \in Deployment /\ End(job[p])
      BY <2>1 DEF FinishJob, TypeOK
    <3> QED BY <3>1 DEF TypeOK, Snapshot, Started, Active, End
  <2>2. CASE BeginPoll(p) \/ EndPoll(p) \/ PollerFails(p)
    BY <2>2 DEF TypeOK, Snapshot, Started, BeginPoll, EndPoll, PollerFails, Candidate
  <2> QED BY <1>4, <2>1, <2>2 DEF PollerStep
<1> QED BY <1>1, <1>2, <1>3, <1>4 DEF Next

\* Whom a step makes execute a deployment has seen it started.
LEMMA BeginsStarted ==
  ASSUME TypeOK, [Next]_vars, NEW d \in Executed', d \notin Executed
  PROVE  Started(d)'
<1> USE DEF Executed
<1>1. CASE UNCHANGED vars
  BY <1>1 DEF vars
<1>2. ASSUME NEW e \in Deployment, RowStep(e)
      PROVE  FALSE
  BY <1>2 DEF RowStep, Create, Withdraw, Conclude, DispatchExecutionJob, workflowVars,
              pollerVars
<1>3. ASSUME NEW e \in Deployment, WorkflowStep(e)
      PROVE  Started(d)'
  <2>1. d = e /\ workflow'[e] = "running"
    BY <1>3 DEF TypeOK, WorkflowStep, Dispatch, DispatchFails, BeginClaim, EndClaim,
                ClaimFails, FinishWorkflow, pollerVars
  <2>2. row'[e] \in Active
    BY <1>3, <2>1 DEF TypeOK, Snapshot, RowState, WorkflowStep, Dispatch, DispatchFails,
                      BeginClaim, EndClaim, ClaimFails, FinishWorkflow, AfterRead, Active
  <2> QED BY <2>1, <2>2 DEF Started, Active
<1>4. ASSUME NEW p \in Poller, PollerStep(p)
      PROVE  Started(d)'
  <2>1. CASE EndPoll(p)
    BY <2>1 DEF EndPoll, TypeOK, Snapshot, Started, Candidate, workflowVars
  <2>2. CASE BeginPoll(p) \/ FinishJob(p) \/ PollerFails(p)
    <3>1. d # NoJob
      BY DeploymentAssumption
    <3> QED BY <2>2, <3>1 DEF TypeOK, BeginPoll, FinishJob, PollerFails, DropJob, workflowVars
  <2> QED BY <1>4, <2>1, <2>2 DEF PollerStep
<1> QED BY <1>1, <1>2, <1>3, <1>4 DEF Next

LEMMA SpecExecuted == Spec => []ExecutedWasStarted
<1>1. Init => ExecutedWasStarted
  BY DeploymentAssumption DEF Init, ExecutedWasStarted, Executed
<1>2. TypeOK /\ ExecutedWasStarted /\ [Next]_vars => ExecutedWasStarted'
  <2> SUFFICES ASSUME TypeOK, ExecutedWasStarted, [Next]_vars, NEW d \in Executed'
               PROVE  Started(d)'
    BY DEF ExecutedWasStarted
  <2>1. d \in Deployment
    BY DEF Executed
  <2>2. CASE d \in Executed
    BY <2>1, <2>2, StartedStays DEF ExecutedWasStarted
  <2>3. CASE d \notin Executed
    BY <2>3, BeginsStarted
  <2> QED BY <2>2, <2>3
<1> QED BY <1>1, <1>2, ClaimsTypeCorrect, PTL DEF Spec

\* A deployment withdrawn from the queue is executed by nobody, whatever
\* workflows and pollers claim and however their statements overlap.
THEOREM WithdrawnStaysIdle == Spec => []WithdrawnIsNotExecuted
<1>1. ExecutedWasStarted => WithdrawnIsNotExecuted
  BY DEF ExecutedWasStarted, WithdrawnIsNotExecuted, Started
<1> QED BY <1>1, SpecExecuted, PTL

-------------------------------------------------------------------------------
(* Many pollers.                                                              *)

\* Two pollers never execute the same deployment.
JobsAreDistinct ==
  \A p, q \in Poller : job[p] # NoJob /\ job[p] = job[q] => p = q

\* A deployment is handed to one poller, however many look for work at once and
\* whoever dies with a job: a row is taken only while it is queued, which no row
\* of a running job is.
THEOREM PollersDoNotShare == Spec => []JobsAreDistinct
<1>1. Init => JobsAreDistinct
  BY DEF Init, JobsAreDistinct
<1>2. TypeOK /\ ExecutedWasStarted /\ JobsAreDistinct /\ [Next]_vars => JobsAreDistinct'
  <2> SUFFICES ASSUME TypeOK, ExecutedWasStarted, JobsAreDistinct, [Next]_vars
               PROVE  JobsAreDistinct'
    OBVIOUS
  <2>1. CASE UNCHANGED job
    BY <2>1 DEF JobsAreDistinct
  <2>2. ASSUME NEW p \in Poller, EndPoll(p), job' # job
        PROVE  JobsAreDistinct'
    <3>1. PICK d \in Candidate(p) : job' = [job EXCEPT ![p] = d]
      BY <2>2 DEF EndPoll
    <3>2. \A q \in Poller : job[q] # d
      BY <3>1 DEF Candidate, ExecutedWasStarted, Executed, Started
    <3> QED BY <3>1, <3>2 DEF TypeOK, JobsAreDistinct
  <2>3. ASSUME NEW p \in Poller, FinishJob(p) \/ PollerFails(p)
        PROVE  JobsAreDistinct'
    BY <2>3 DEF FinishJob, PollerFails, DropJob, TypeOK, JobsAreDistinct
  <2>4. ASSUME NEW p \in Poller, BeginPoll(p)
        PROVE  UNCHANGED job
    BY <2>4 DEF BeginPoll
  <2>5. ASSUME NEW d \in Deployment, RowStep(d) \/ WorkflowStep(d)
        PROVE  UNCHANGED job
    BY <2>5 DEF RowStep, Create, Withdraw, Conclude, DispatchExecutionJob, WorkflowStep, Dispatch,
       DispatchFails, BeginClaim, EndClaim, ClaimFails, FinishWorkflow, pollerVars
  <2>6. CASE UNCHANGED vars
    BY <2>6, <2>1 DEF vars
  <2> QED BY <2>1, <2>2, <2>3, <2>4, <2>5, <2>6 DEF Next, PollerStep
<1> QED BY <1>1, <1>2, SpecExecuted, ClaimsTypeCorrect, PTL DEF Spec

-------------------------------------------------------------------------------
(* Claims that do not overlap.                                                *)

\* No two statements that claim are under way at once.
OneClaimAtATime ==
  /\ \A d, e \in Deployment : workflow[d] = "claiming" /\ workflow[e] = "claiming" => d = e
  /\ \A p, q \in Poller : poller[p] = "claiming" /\ poller[q] = "claiming" => p = q
  /\ \A d \in Deployment, p \in Poller : workflow[d] # "claiming" \/ poller[p] # "claiming"

\* Rows claimed by now were so when the claims under way took their snapshots.
SnapshotsAreUpToDate ==
  /\ \A d \in Deployment : workflow[d] = "claiming" =>
       \A e \in Deployment : row[e] = "claimed" => seen[d][e] = "claimed"
  /\ \A p \in Poller : poller[p] = "claiming" =>
       \A e \in Deployment : row[e] = "claimed" => polled[p][e] = "claimed"

Serial == SnapshotsAreUpToDate /\ ServiceSerialized

\* A step that claims nothing new keeps the claims apart.
LEMMA NoNewClaim ==
  ASSUME Serial, UNCHANGED <<workflowVars, poller, polled>>,
         \A d \in Deployment : row'[d] = "claimed" => row[d] = "claimed"
  PROVE  Serial'
  BY DEF Serial, SnapshotsAreUpToDate, ServiceSerialized, workflowVars

\* Ending a row claims nothing.
LEMMA EndClaimsNothing ==
  ASSUME TypeOK, NEW d \in Deployment, End(d), NEW e \in Deployment, row'[e] = "claimed"
  PROVE  row[e] = "claimed"
  BY DEF TypeOK, Snapshot, End, Active

\* A claim commits without a conflict in a snapshot that shows what is claimed.
LEMMA ClaimKeepsSerial ==
  ASSUME TypeOK, ServiceSerialized, NEW d \in Deployment, NEW v, ~ActiveDeploymentConflict(v, d),
         \A e \in Deployment : row[e] = "claimed" => v[e] = "claimed",
         row' = [row EXCEPT ![d] = "claimed"]
  PROVE  ServiceSerialized'
<1>1. \A e \in Deployment \ {d} : row[e] = "claimed" => ServiceOf[e] # ServiceOf[d]
  BY DEF ActiveDeploymentConflict, Active
<1>2. \A e \in Deployment \ {d} : row'[e] = row[e]
  BY DEF TypeOK, Snapshot
<1> QED BY <1>1, <1>2 DEF ServiceSerialized

LEMMA WorkflowSerial ==
  ASSUME OneClaimAtATime, TypeOK, Serial, NEW d \in Deployment, WorkflowStep(d)
  PROVE  Serial'
<1>1. UNCHANGED <<poller, polled>>
  BY DEF WorkflowStep, Dispatch, DispatchFails, BeginClaim, EndClaim, ClaimFails,
         FinishWorkflow, pollerVars
<1>2. CASE BeginClaim(d)
  <2>1. row' = row
    BY <1>2 DEF BeginClaim
  <2>2. \A e \in Deployment : workflow'[e] = "claiming" =>
          (workflow[e] = "claiming" /\ seen'[e] = seen[e]) \/ seen'[e] = row
    BY <1>2 DEF BeginClaim, AfterRead, TypeOK
  <2> QED BY <1>1, <2>1, <2>2 DEF Serial, SnapshotsAreUpToDate, ServiceSerialized
<1>3. CASE EndClaim(d)
  <2>1. /\ \A e \in Deployment : workflow'[e] # "claiming"
        /\ \A p \in Poller : poller'[p] # "claiming"
    BY <1>1, <1>3 DEF EndClaim, AfterRead, TypeOK, OneClaimAtATime
  <2>2. SnapshotsAreUpToDate'
    BY <2>1 DEF SnapshotsAreUpToDate
  <2>3. ServiceSerialized'
    <3>1. CASE row' = row
      BY <3>1 DEF Serial, ServiceSerialized
    <3>2. CASE Claimable(d) /\ row' = [row EXCEPT ![d] = "claimed"]
      <4>1. workflow[d] = "claiming" /\ ~ActiveDeploymentConflict(seen[d], d)
        BY <1>3, <3>2 DEF EndClaim, Claimable
      <4> QED BY <3>2, <4>1, ClaimKeepsSerial DEF Serial, SnapshotsAreUpToDate
    <3> QED BY <1>3, <3>1, <3>2 DEF EndClaim
  <2> QED BY <2>2, <2>3 DEF Serial
<1>4. CASE Dispatch(d) \/ DispatchFails(d) \/ ClaimFails(d) \/ FinishWorkflow(d)
  <2>1. \A e \in Deployment : row'[e] = "claimed" => row[e] = "claimed"
    BY <1>4, EndClaimsNothing DEF Dispatch, DispatchFails, ClaimFails, FinishWorkflow
  <2>2. \A e \in Deployment : workflow'[e] = "claiming" =>
          workflow[e] = "claiming" /\ seen'[e] = seen[e]
    BY <1>4 DEF Dispatch, DispatchFails, ClaimFails, FinishWorkflow, TypeOK
  <2> QED BY <1>1, <2>1, <2>2 DEF Serial, SnapshotsAreUpToDate, ServiceSerialized
<1> QED BY <1>2, <1>3, <1>4 DEF WorkflowStep

LEMMA PollerSerial ==
  ASSUME OneClaimAtATime, TypeOK, Serial, NEW p \in Poller, PollerStep(p)
  PROVE  Serial'
<1>1. UNCHANGED <<workflow, seen>>
  BY DEF PollerStep, BeginPoll, EndPoll, FinishJob, PollerFails, workflowVars
<1>2. CASE BeginPoll(p)
  <2>1. \A q \in Poller : poller'[q] = "claiming" =>
          (poller[q] = "claiming" /\ polled'[q] = polled[q]) \/ polled'[q] = row
    BY <1>2 DEF BeginPoll, TypeOK
  <2> QED BY <1>1, <1>2, <2>1 DEF BeginPoll, Serial, SnapshotsAreUpToDate, ServiceSerialized
<1>3. CASE EndPoll(p)
  <2>1. /\ \A e \in Deployment : workflow'[e] # "claiming"
        /\ \A q \in Poller : poller'[q] # "claiming"
    BY <1>1, <1>3 DEF EndPoll, TypeOK, OneClaimAtATime
  <2>2. SnapshotsAreUpToDate'
    BY <2>1 DEF SnapshotsAreUpToDate
  <2>3. ServiceSerialized'
    <3>1. CASE row' = row
      BY <3>1 DEF Serial, ServiceSerialized
    <3>2. ASSUME NEW d \in Candidate(p), row' = [row EXCEPT ![d] = "claimed"]
          PROVE  ServiceSerialized'
      <4>1. poller[p] = "claiming" /\ d \in Deployment /\ ~ActiveDeploymentConflict(polled[p], d)
        BY <1>3 DEF EndPoll, Candidate
      <4> QED BY <3>2, <4>1, ClaimKeepsSerial DEF Serial, SnapshotsAreUpToDate
    <3> QED BY <1>3, <3>1, <3>2 DEF EndPoll
  <2> QED BY <2>2, <2>3 DEF Serial
<1>4. CASE FinishJob(p) \/ PollerFails(p)
  <2>1. \A e \in Deployment : row'[e] = "claimed" => row[e] = "claimed"
    <3>1. CASE FinishJob(p)
      <4>1. job[p] \in Deployment /\ End(job[p])
        BY <3>1 DEF FinishJob, TypeOK
      <4> QED BY <4>1, EndClaimsNothing
    <3>2. CASE PollerFails(p)
      BY <3>2 DEF PollerFails
    <3> QED BY <1>4, <3>1, <3>2
  <2>2. \A q \in Poller : poller'[q] = "claiming" =>
          poller[q] = "claiming" /\ polled'[q] = polled[q]
    BY <1>4 DEF FinishJob, PollerFails, TypeOK
  <2> QED BY <1>1, <2>1, <2>2 DEF Serial, SnapshotsAreUpToDate, ServiceSerialized
<1> QED BY <1>2, <1>3, <1>4 DEF PollerStep

LEMMA SerialStep ==
  ASSUME OneClaimAtATime, TypeOK, Serial, [Next]_vars
  PROVE  Serial'
<1>1. CASE UNCHANGED vars
  BY <1>1, NoNewClaim DEF vars, workflowVars
<1>2. ASSUME NEW d \in Deployment, RowStep(d)
      PROVE  Serial'
  <2>1. UNCHANGED <<workflowVars, poller, polled>>
    BY <1>2 DEF RowStep, Create, Withdraw, Conclude, DispatchExecutionJob, pollerVars
  <2>2. \A e \in Deployment : row'[e] = "claimed" => row[e] = "claimed"
    BY <1>2, EndClaimsNothing DEF TypeOK, Snapshot, RowStep, Create, Withdraw, Conclude,
                                  DispatchExecutionJob
  <2> QED BY <2>1, <2>2, NoNewClaim
<1> QED BY <1>1, <1>2, WorkflowSerial, PollerSerial DEF Next

\* For any number of workflows and pollers: as long as no two claims overlap, two
\* deployments of a service are never claimed and active at once. The overlap of
\* two claims is the only way to what the README reports of ServiceSerialized.
THEOREM SeparateClaimsSerializeServices ==
  Spec /\ []OneClaimAtATime => []ServiceSerialized
<1>1. Init => Serial
  BY DEF Init, Serial, SnapshotsAreUpToDate, ServiceSerialized, Blank
<1>2. OneClaimAtATime /\ TypeOK /\ Serial /\ [Next]_vars => Serial'
  BY SerialStep
<1>3. Serial => ServiceSerialized
  BY DEF Serial
<1> QED BY <1>1, <1>2, <1>3, ClaimsTypeCorrect, PTL DEF Spec

OnePoller == ~Temporal /\ \A p, q \in Poller : p = q

\* With one legacy poller and no workflows, no two deployments of a service are
\* claimed and active at once, whatever operators, users and the watchdog do.
THEOREM OnePollerSerializesServices ==
  ASSUME OnePoller
  PROVE  Spec => []ServiceSerialized
<1> DEFINE Idle == \A d \in Deployment : workflow[d] = "none"
<1>1. Init => Idle
  BY DEF Init
<1>2. Idle /\ [Next]_vars => Idle'
  BY OnePoller DEF OnePoller, vars, Next, RowStep, Create, Withdraw, Conclude,
     DispatchExecutionJob, WorkflowStep, Dispatch, DispatchFails, BeginClaim, EndClaim,
     ClaimFails, FinishWorkflow, PollerStep, BeginPoll, EndPoll, FinishJob, PollerFails,
     workflowVars
<1>3. Idle => OneClaimAtATime
  BY OnePoller DEF OnePoller, OneClaimAtATime
<1> QED BY <1>1, <1>2, <1>3, SeparateClaimsSerializeServices, PTL DEF Spec

-------------------------------------------------------------------------------
(* Workflows alone.                                                           *)

\* A row that ended stays so, and none that was created goes away.
LEMMA RowsLast ==
  ASSUME TypeOK, [Next]_vars, NEW d \in Deployment
  PROVE  /\ row[d] # "absent" => row'[d] # "absent"
         /\ row[d] # "queued" /\ row[d] # "absent" => row'[d] # "queued"
         /\ row[d] \in Over => row'[d] \in Over
<1>1. CASE UNCHANGED vars
  BY <1>1 DEF vars
<1>2. ASSUME NEW e \in Deployment, RowStep(e) \/ WorkflowStep(e)
      PROVE  /\ row[d] # "absent" => row'[d] # "absent"
             /\ row[d] # "queued" /\ row[d] # "absent" => row'[d] # "queued"
             /\ row[d] \in Over => row'[d] \in Over
  BY <1>2 DEF TypeOK, Snapshot, Over, Active, End, RowStep, Create, Withdraw, Conclude,
     DispatchExecutionJob, WorkflowStep, Dispatch, DispatchFails, BeginClaim, EndClaim,
     Claimable, ClaimFails, FinishWorkflow
<1>3. ASSUME NEW p \in Poller, PollerStep(p)
      PROVE  /\ row[d] # "absent" => row'[d] # "absent"
             /\ row[d] # "queued" /\ row[d] # "absent" => row'[d] # "queued"
             /\ row[d] \in Over => row'[d] \in Over
  <2>1. CASE FinishJob(p)
    <3>1. job[p] \in Deployment /\ End(job[p])
      BY <2>1 DEF FinishJob, TypeOK
    <3> QED BY <3>1 DEF TypeOK, Snapshot, Over, Active, End
  <2>2. CASE BeginPoll(p) \/ EndPoll(p) \/ PollerFails(p)
    BY <2>2 DEF TypeOK, Snapshot, Over, BeginPoll, EndPoll, PollerFails, Candidate
  <2> QED BY <1>3, <2>1, <2>2 DEF PollerStep
<1> QED BY <1>1, <1>2, <1>3 DEF Next

\* What creates a build's row commits after the rows of the older builds.
InAgeOrder ==
  \A d, e \in Build : row[d] = "absent" /\ row'[d] # "absent" /\ e < d => row[e] # "absent"

\* In the snapshot v no build is there before an older one.
Aged(v) == \A d, e \in Build : e < d /\ v[d] # "absent" => v[e] # "absent"

\* A claim under way has seen its own row queued, and what had ended then has.
SnapshotsAreSound ==
  \A d \in Deployment : workflow[d] = "claiming" =>
    /\ seen[d][d] = "queued" /\ Aged(seen[d])
    /\ \A e \in Deployment : seen[d][e] \in Over => row[e] \in Over

\* A build is claimed after the older builds of its service and server are over.
YoungerWaits ==
  \A d, e \in Build :
    e < d /\ ServiceOf[e] = ServiceOf[d] /\ ServerOf[e] = ServerOf[d] /\ row[d] = "claimed"
    => row[e] \in Over

LEMMA AgedStep ==
  ASSUME TypeOK, Aged(row), [Next]_vars, InAgeOrder
  PROVE  Aged(row')
<1> SUFFICES ASSUME NEW d \in Build, NEW e \in Build, e < d, row'[d] # "absent"
             PROVE  row'[e] # "absent"
  BY DEF Aged
<1>1. d \in Deployment /\ e \in Deployment
  BY DeploymentAssumption
<1>2. row[e] # "absent"
  BY DEF Aged, InAgeOrder
<1> QED BY <1>1, <1>2, RowsLast

LEMMA SoundStep ==
  ASSUME TypeOK, Aged(row), SnapshotsAreSound, [Next]_vars
  PROVE  SnapshotsAreSound'
<1> SUFFICES ASSUME NEW d \in Deployment, workflow'[d] = "claiming"
             PROVE  /\ seen'[d][d] = "queued" /\ Aged(seen'[d])
                    /\ \A e \in Deployment : seen'[d][e] \in Over => row'[e] \in Over
  BY DEF SnapshotsAreSound, Aged
<1>1. ASSUME workflow[d] = "claiming", seen'[d] = seen[d]
      PROVE  /\ seen'[d][d] = "queued" /\ Aged(seen'[d])
             /\ \A e \in Deployment : seen'[d][e] \in Over => row'[e] \in Over
  BY <1>1, RowsLast DEF SnapshotsAreSound
<1>2. ASSUME NEW e \in Deployment, WorkflowStep(e), e # d
      PROVE  workflow[d] = "claiming" /\ seen'[d] = seen[d]
  BY <1>2 DEF TypeOK, WorkflowStep, Dispatch, DispatchFails, BeginClaim, EndClaim, ClaimFails,
              FinishWorkflow
<1>3. ASSUME WorkflowStep(d)
      PROVE  /\ seen'[d][d] = "queued" /\ Aged(seen'[d])
             /\ \A e \in Deployment : seen'[d][e] \in Over => row'[e] \in Over
  <2>1. BeginClaim(d) /\ row[d] = "queued"
    BY <1>3 DEF TypeOK, WorkflowStep, Dispatch, DispatchFails, BeginClaim, EndClaim, ClaimFails,
                FinishWorkflow, AfterRead
  <2>2. seen'[d] = row /\ row' = row
    BY <2>1 DEF BeginClaim, TypeOK
  <2> QED BY <2>1, <2>2
<1>4. ASSUME UNCHANGED workflowVars
      PROVE  workflow[d] = "claiming" /\ seen'[d] = seen[d]
  BY <1>4 DEF workflowVars
<1>5. ASSUME NEW p \in Poller, PollerStep(p)
      PROVE  UNCHANGED workflowVars
  BY <1>5 DEF PollerStep, BeginPoll, EndPoll, FinishJob, PollerFails
<1>6. ASSUME NEW e \in Deployment, RowStep(e)
      PROVE  UNCHANGED workflowVars
  BY <1>6 DEF RowStep, Create, Withdraw, Conclude, DispatchExecutionJob
<1>7. CASE UNCHANGED vars
  BY <1>1, <1>4, <1>7 DEF vars, workflowVars
<1> QED BY <1>1, <1>2, <1>3, <1>4, <1>5, <1>6, <1>7 DEF Next

\* A workflow's claim commits only over what is over.
LEMMA WaitStep ==
  ASSUME Poller = {}, TypeOK, SnapshotsAreSound, YoungerWaits, [Next]_vars
  PROVE  YoungerWaits'
<1> SUFFICES ASSUME NEW d \in Build, NEW e \in Build, e < d, ServiceOf[e] = ServiceOf[d],
                    ServerOf[e] = ServerOf[d], row'[d] = "claimed"
             PROVE  row'[e] \in Over
  BY DEF YoungerWaits
<1>1. d \in Deployment /\ e \in Deployment /\ e # d
  BY DeploymentAssumption
<1>2. CASE row[d] = "claimed"
  BY <1>1, <1>2, RowsLast DEF YoungerWaits
<1>3. CASE row[d] # "claimed"
  <2>1. EndClaim(d) /\ Claimable(d)
    <3>1. ASSUME NEW c \in Deployment, RowStep(c)
          PROVE  FALSE
      BY <1>1, <1>3, <3>1 DEF TypeOK, Snapshot, Active, End, RowStep, Create, Withdraw, Conclude,
                              DispatchExecutionJob
    <3>2. ASSUME NEW c \in Deployment, WorkflowStep(c)
          PROVE  c = d /\ EndClaim(d) /\ Claimable(d)
      BY <1>1, <1>3, <3>2 DEF TypeOK, Snapshot, Active, End, WorkflowStep, Dispatch,
         DispatchFails, BeginClaim, EndClaim, ClaimFails, FinishWorkflow
    <3>3. ~UNCHANGED vars
      BY <1>3 DEF vars
    <3> QED BY <3>1, <3>2, <3>3 DEF Next
  <2>2. seen[d][e] \notin {"absent", "queued"} \cup Active
    BY <1>1, <2>1 DEF EndClaim, SnapshotsAreSound, Aged, Claimable, ActiveDeploymentConflict,
                      OlderQueuedBuild
  <2>3. seen[d][e] \in Over
    BY <1>1, <2>2 DEF TypeOK, Snapshot, RowState, Active, Over
  <2> QED BY <1>1, <2>1, <2>3, RowsLast DEF EndClaim, SnapshotsAreSound
<1> QED BY <1>2, <1>3

\* Two builds of one service and server are never claimed and active at once.
BuildsSerialized ==
  \A d, e \in Build :
    /\ row[d] = "claimed" /\ row[e] = "claimed"
    /\ ServiceOf[d] = ServiceOf[e] /\ ServerOf[d] = ServerOf[e]
    => d = e

\* Workflows may claim two deployments of a service at once (README, Findings),
\* but not two builds of it on one server if rows become visible in the order of
\* their age, however many workflows overlap: what the younger one reads shows
\* the older one queued, active or over.
THEOREM OrderedBuildsAreSerialized ==
  ASSUME Poller = {}
  PROVE  Spec /\ [][InAgeOrder]_vars => []BuildsSerialized
<1>1. Init => Aged(row) /\ SnapshotsAreSound /\ YoungerWaits
  BY DeploymentAssumption DEF Init, Blank, Aged, SnapshotsAreSound, YoungerWaits
<1>2. TypeOK /\ Aged(row) /\ SnapshotsAreSound /\ YoungerWaits /\ [Next]_vars /\ [InAgeOrder]_vars
      => Aged(row)' /\ SnapshotsAreSound' /\ YoungerWaits'
  <2>1. TypeOK /\ Aged(row) /\ [Next]_vars /\ [InAgeOrder]_vars => Aged(row)'
    BY AgedStep DEF vars
  <2> QED BY <2>1, SoundStep, WaitStep
<1>3. YoungerWaits => BuildsSerialized
  <2> SUFFICES ASSUME YoungerWaits, NEW d \in Build, NEW e \in Build, row[d] = "claimed",
                      row[e] = "claimed", ServiceOf[d] = ServiceOf[e],
                      ServerOf[d] = ServerOf[e], d # e
               PROVE  FALSE
    BY DEF BuildsSerialized
  <2>1. e < d \/ d < e
    BY DeploymentAssumption
  <2> QED BY <2>1 DEF YoungerWaits, Over
<1> QED BY <1>1, <1>2, <1>3, ClaimsTypeCorrect, PTL DEF Spec

===============================================================================
