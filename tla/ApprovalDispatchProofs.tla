------------------------- MODULE ApprovalDispatchProofs -------------------------
(* Proofs about ApprovalDispatch, for any requests, users and monitors, any      *)
(* number of attempts and any number of faults.                                 *)
(*                                                                             *)
(* The invariant follows an approval along its way: a dispatch row exists only   *)
(* for an approved request; a monitor goes on from one step to the next only     *)
(* when what the step asked for is there; what is there never goes away; and     *)
(* each execution of an operation uses up one of the attempts it has.           *)
EXTENDS ApprovalDispatch, TLAPS

Row == [status : DispatchStatus, attempts : 0..MaxAttempts, id : OperationId,
        submitted : BOOLEAN]
LeaseRow == [holder : Monitor \cup {Nobody}, live : BOOLEAN]
WorkRow == [step : Steps, request : Request \cup {Nobody}]

(* A monitor at work has a request, and a requeued dispatch keeps its id. *)
AtWork == \A m \in Monitor : work[m].step # "idle" => work[m].request \in Request
OneId == \A r \in Request : dispatch[r].id = 1
Typed == TypeOK /\ AtWork /\ OneId

LEMMA InitTyped == Init => Typed
<1>. SUFFICES ASSUME Init PROVE Typed
  OBVIOUS
<1>1. TypeOK
  BY AttemptsAssumption, BoundsAssumption
     DEF Init, TypeOK, Idle, Unleased, OperationId, DispatchStatus, Steps, Stage
<1>. QED BY <1>1 DEF Init, Typed, AtWork, OneId, Idle

(* Rows and tables of rows with an entry replaced. *)
LEMMA RowsTyped ==
  ASSUME Typed, NEW r \in Request
  PROVE  dispatch \in [Request -> Row] /\ dispatch[r] \in Row /\ lease \in [Request -> LeaseRow]
BY DEF Typed, TypeOK, Row, LeaseRow

LEMMA RowSet ==
  ASSUME NEW row \in Row, NEW s \in DispatchStatus
  PROVE  /\ [row EXCEPT !.status = s] \in Row
         /\ [row EXCEPT !.status = s].id = row.id
         /\ [row EXCEPT !.status = s, !.submitted = TRUE] \in Row
         /\ [row EXCEPT !.status = s, !.submitted = TRUE].id = row.id
BY DEF Row

LEMMA RowRestarted ==
  ASSUME NEW row \in Row, NEW s \in DispatchStatus, NEW n \in 0..MaxAttempts
  PROVE  /\ [row EXCEPT !.status = s, !.attempts = n] \in Row
         /\ [row EXCEPT !.status = s, !.attempts = n].id = row.id
BY DEF Row

LEMMA RowRequeued ==
  ASSUME NEW row \in Row, NEW s \in DispatchStatus, NEW n \in 0..MaxAttempts
  PROVE  [row EXCEPT !.status = s, !.attempts = n, !.id = row.id]
            = [row EXCEPT !.status = s, !.attempts = n]
BY DEF Row

(* Tables with an entry for each operation id. *)
Status == {"none", "queued", "running"} \cup Ended
Writable == {"running", "succeeded", "failed"}
Table(S) == [Request -> [OperationId -> S]]
OnlyAt(t, u, r, i) ==
    \A q \in Request, k \in OperationId : u[q][k] # t[q][k] => q = r /\ k = i

LEMMA TablesTyped ==
  ASSUME Typed
  PROVE  /\ operation \in Table(Status) /\ workflow \in Table(Stage)
         /\ attempt \in Table({1, 2}) /\ stray \in Table(SUBSET Writable)
         /\ ran \in Table(Nat)
BY DEF Typed, TypeOK, Table, Status, Writable

LEMMA OperationReplaced ==
  ASSUME Typed, NEW r \in Request, NEW i \in OperationId, NEW v \in Status,
         operation' = [operation EXCEPT ![r][i] = v]
  PROVE  /\ operation' \in Table(Status) /\ OnlyAt(operation, operation', r, i)
         /\ operation'[r][i] = v
<1>1. operation \in Table(Status)
  BY TablesTyped
<1>. QED BY <1>1 DEF Table, OnlyAt

LEMMA WorkflowReplaced ==
  ASSUME Typed, NEW r \in Request, NEW i \in OperationId, NEW w \in Stage,
         workflow' = [workflow EXCEPT ![r][i] = w]
  PROVE  /\ workflow' \in Table(Stage) /\ OnlyAt(workflow, workflow', r, i)
         /\ workflow'[r][i] = w
<1>1. workflow \in Table(Stage)
  BY TablesTyped
<1>. QED BY <1>1 DEF Table, OnlyAt

LEMMA AttemptReplaced ==
  ASSUME Typed, NEW r \in Request, NEW i \in OperationId, NEW a \in {1, 2},
         attempt' = [attempt EXCEPT ![r][i] = a]
  PROVE  /\ attempt' \in Table({1, 2}) /\ OnlyAt(attempt, attempt', r, i)
         /\ attempt'[r][i] = a
<1>1. attempt \in Table({1, 2})
  BY TablesTyped
<1>. QED BY <1>1 DEF Table, OnlyAt

LEMMA StrayReplaced ==
  ASSUME Typed, NEW r \in Request, NEW i \in OperationId, NEW x \in (SUBSET Writable),
         stray' = [stray EXCEPT ![r][i] = x]
  PROVE  /\ stray' \in Table(SUBSET Writable) /\ OnlyAt(stray, stray', r, i)
         /\ stray'[r][i] = x
<1>1. stray \in Table(SUBSET Writable)
  BY TablesTyped
<1>. QED BY <1>1 DEF Table, OnlyAt

LEMMA RanReplaced ==
  ASSUME Typed, NEW r \in Request, NEW i \in OperationId, NEW n \in Nat,
         ran' = [ran EXCEPT ![r][i] = n]
  PROVE  /\ ran' \in Table(Nat) /\ OnlyAt(ran, ran', r, i)
         /\ ran'[r][i] = n
<1>1. ran \in Table(Nat)
  BY TablesTyped
<1>. QED BY <1>1 DEF Table, OnlyAt

LEMMA LeaseFreed ==
  ASSUME Typed, NEW r \in Request, lease' = [lease EXCEPT ![r] = Unleased]
  PROVE  lease' \in [Request -> LeaseRow]
BY DEF Typed, TypeOK, LeaseRow, Unleased

LEMMA LeaseLost ==
  ASSUME Typed, NEW r \in Request, lease' = [lease EXCEPT ![r].live = FALSE]
  PROVE  lease' \in [Request -> LeaseRow]
<1>1. [lease[r] EXCEPT !.live = FALSE] \in LeaseRow
  BY RowsTyped DEF LeaseRow
<1>. QED BY <1>1, RowsTyped

(* A row that keeps its id can be replaced by any other. *)
LEMMA RowReplaced ==
  ASSUME Typed, NEW r \in Request, NEW row \in Row, row.id = dispatch[r].id,
         dispatch' = [dispatch EXCEPT ![r] = row]
  PROVE  dispatch' \in [Request -> Row] /\ OneId'
BY DEF Typed, TypeOK, OneId, Row

LEMMA StatusReplaced ==
  ASSUME Typed, NEW r \in Request, NEW s \in DispatchStatus,
         dispatch' = [dispatch EXCEPT ![r].status = s]
  PROVE  dispatch' \in [Request -> Row] /\ OneId'
<1>. DEFINE row == [dispatch[r] EXCEPT !.status = s]
<1>1. row \in Row /\ row.id = dispatch[r].id
  BY RowsTyped, RowSet
<1>2. dispatch' = [dispatch EXCEPT ![r] = row]
  OBVIOUS
<1>. HIDE DEF row
<1>. QED BY <1>1, <1>2, RowReplaced

LEMMA RetryKeepsRows ==
  ASSUME Typed, NEW r \in Request, RetryDispatch(r)
  PROVE  dispatch' \in [Request -> Row] /\ OneId'
<1>. DEFINE s == "retrying"
            n == 0
            row == [dispatch[r] EXCEPT !.status = s, !.attempts = n]
<1>1. s \in DispatchStatus /\ n \in 0..MaxAttempts
  BY AttemptsAssumption DEF DispatchStatus, Claimable
<1>2. dispatch[r] \in Row
  BY RowsTyped
<1>3. dispatch' = [dispatch EXCEPT ![r] = row]
  <2>1. dispatch' = [dispatch EXCEPT ![r] = [dispatch[r] EXCEPT !.status = s, !.attempts = n,
                                                               !.id = dispatch[r].id]]
    BY DEF RetryDispatch, SameId
  <2>. HIDE DEF s, n
  <2>. QED BY <1>1, <1>2, <2>1, RowRequeued
<1>. HIDE DEF s, n
<1>4. row \in Row /\ row.id = dispatch[r].id
  BY <1>1, <1>2, RowRestarted
<1>. HIDE DEF row
<1>. QED BY <1>3, <1>4, RowReplaced

LEMMA RequestStepTyped ==
  ASSUME Typed, NEW r \in Request, RequestStep(r)
  PROVE  Typed'
<1>. USE DEF Typed, TypeOK, AtWork, OneId, decisionVars, rowVars, operationVars, runVars, boundVars
<1>1. CASE Ask(r)
  BY <1>1 DEF Ask, SetRequest
<1>2. CASE RunOut(r)
  BY <1>2 DEF RunOut
<1>3. CASE Approve(r)
  <2>1. dispatch' \in [Request -> Row] /\ OneId'
    BY <1>3, StatusReplaced DEF Approve, DispatchStatus, Claimable
  <2>. QED BY <2>1, <1>3 DEF Approve, SetRequest, Row
<1>4. CASE Expire(r)
  BY <1>4 DEF Expire, SetRequest
<1>5. CASE Rebind(r)
  BY <1>5 DEF Rebind
<1>6. CASE LoseLease(r)
  <2>1. lease' \in [Request -> LeaseRow]
    BY <1>6, LeaseLost DEF LoseLease
  <2>2. faults' \in 0..MaxFaults
    BY <1>6, BoundsAssumption DEF LoseLease
  <2>. QED BY <2>1, <2>2, <1>6 DEF LoseLease, LeaseRow
<1>7. CASE RetryDispatch(r)
  <2>1. dispatch' \in [Request -> Row] /\ OneId'
    BY <1>7, RetryKeepsRows
  <2>2. retries' \in 0..MaxRetries /\ lease' \in [Request -> LeaseRow]
    BY <1>7, BoundsAssumption DEF RetryDispatch, LeaseRow, Unleased
  <2>. QED BY <2>1, <2>2, <1>7 DEF RetryDispatch, LeaseRow, Row
<1>8. CASE Reconcile(r)
  <2>. DEFINE end == TerminalState(operation[r][dispatch[r].id])
  <2>1. end \in DispatchStatus
    BY DEF TerminalState, DispatchStatus
  <2>2. dispatch' = [dispatch EXCEPT ![r].status = end]
    BY <1>8 DEF Reconcile
  <2>. HIDE DEF end
  <2>3. dispatch' \in [Request -> Row] /\ OneId'
    BY <2>1, <2>2, StatusReplaced
  <2>. QED BY <2>3, <1>8 DEF Reconcile, Row
<1>. QED BY <1>1, <1>2, <1>3, <1>4, <1>5, <1>6, <1>7, <1>8 DEF RequestStep

(* A monitor that is at work may go on to any step, and may go to rest. *)
LEMMA GoTyped ==
  ASSUME Typed, NEW m \in Monitor, NEW s \in Steps, work[m].step # "idle", Go(m, s)
  PROVE  work' \in [Monitor -> WorkRow] /\ AtWork'
<1>1. work' = [work EXCEPT ![m] = [work[m] EXCEPT !.step = s]]
  BY DEF Go
<1>2. /\ [work[m] EXCEPT !.step = s] \in WorkRow
      /\ [work[m] EXCEPT !.step = s].request \in Request
  BY DEF Typed, TypeOK, AtWork, WorkRow
<1>. QED BY <1>1, <1>2 DEF Typed, TypeOK, AtWork, WorkRow

LEMMA RestTyped ==
  ASSUME Typed, NEW m \in Monitor, work' = [work EXCEPT ![m] = Idle]
  PROVE  work' \in [Monitor -> WorkRow] /\ AtWork'
BY DEF Typed, TypeOK, AtWork, WorkRow, Idle, Steps

LEMMA ClaimTyped ==
  ASSUME Typed, NEW m \in Monitor, NEW r \in Request, Claim(m, r)
  PROVE  Typed'
<1>. DEFINE n == dispatch[r].attempts
            s == IF n > 0 THEN "retrying" ELSE "pending"
            a == IF n < MaxAttempts THEN n + 1 ELSE n
            row == [dispatch[r] EXCEPT !.status = s, !.attempts = a]
<1>1. row \in Row /\ row.id = dispatch[r].id
  <2>1. a \in 0..MaxAttempts /\ s \in DispatchStatus
    BY RowsTyped, AttemptsAssumption DEF Row, DispatchStatus, Claimable
  <2>2. dispatch[r] \in Row
    BY RowsTyped
  <2>. HIDE DEF s, a
  <2>. QED BY <2>1, <2>2, RowRestarted
<1>2. dispatch' = [dispatch EXCEPT ![r] = row]
  BY DEF Claim
<1>. HIDE DEF row
<1>3. dispatch' \in [Request -> Row] /\ OneId'
  BY <1>1, <1>2, RowReplaced
<1>4. lease' \in [Request -> LeaseRow]
  BY DEF Claim, Typed, TypeOK, LeaseRow
<1>5. work' \in [Monitor -> WorkRow] /\ AtWork'
  BY DEF Claim, Typed, TypeOK, AtWork, WorkRow, Steps
<1>. QED BY <1>3, <1>4, <1>5
         DEF Claim, Typed, TypeOK, Row, LeaseRow, WorkRow, decisionVars, operationVars, runVars,
             boundVars

LEMMA MonitorStepTyped ==
  ASSUME Typed, NEW m \in Monitor, MonitorStep(m)
  PROVE  Typed'
<1>. USE DEF decisionVars, rowVars, operationVars, runVars, boundVars
<1>0. work[m].step # "idle" /\ work[m].request \in Request
  BY DEF Typed, AtWork, MonitorStep, Check, CreateOperation, StartWorkflow, MarkDispatched,
         MarkFailure
<1>. DEFINE r == work[m].request
<1>1. CASE Check(m)
  <2>1. \E s \in Steps : Go(m, s)
    BY <1>1 DEF Check, Steps
  <2>2. work' \in [Monitor -> WorkRow] /\ AtWork'
    BY <1>0, <2>1, GoTyped
  <2>. QED BY <2>2, <1>1 DEF Check, Typed, TypeOK, OneId, WorkRow
<1>2. CASE CreateOperation(m)
  <2>1. \E s \in Steps : Go(m, s)
    BY <1>2 DEF CreateOperation, Steps
  <2>2. work' \in [Monitor -> WorkRow] /\ AtWork'
    BY <1>0, <2>1, GoTyped
  <2>3. operation' \in Table(Status)
    <3>1. dispatch[r].id \in OperationId
      BY <1>0 DEF Typed, TypeOK
    <3>. DEFINE v == IF operation[r][dispatch[r].id] = "none" THEN "queued"
                     ELSE operation[r][dispatch[r].id]
    <3>2. v \in Status
      BY <1>0, <3>1, TablesTyped DEF Table, Status
    <3>3. \/ operation' = [operation EXCEPT ![r][dispatch[r].id] = v]
          \/ operation' = operation
      BY <1>2 DEF CreateOperation
    <3>. HIDE DEF v
    <3>. QED BY <1>0, <3>1, <3>2, <3>3, OperationReplaced, TablesTyped
  <2>. QED BY <2>2, <2>3, <1>2 DEF CreateOperation, Typed, TypeOK, OneId, WorkRow, Table, Status
<1>3. CASE StartWorkflow(m)
  <2>1. \E s \in Steps : Go(m, s)
    BY <1>3 DEF StartWorkflow, AfterStartFailure, AfterRefusal, Steps
  <2>2. work' \in [Monitor -> WorkRow] /\ AtWork'
    BY <1>0, <2>1, GoTyped
  <2>3. workflow' \in Table(Stage)
    <3>1. dispatch[r].id \in OperationId
      BY <1>0 DEF Typed, TypeOK
    <3>. DEFINE v == IF workflow[r][dispatch[r].id] = "none" THEN "open"
                     ELSE workflow[r][dispatch[r].id]
    <3>2. v \in Stage
      BY <1>0, <3>1, TablesTyped DEF Table, Stage
    <3>3. \/ workflow' = [workflow EXCEPT ![r][dispatch[r].id] = v]
          \/ workflow' = workflow
      BY <1>3 DEF StartWorkflow
    <3>. HIDE DEF v
    <3>. QED BY <1>0, <3>1, <3>2, <3>3, WorkflowReplaced, TablesTyped
  <2>. QED BY <2>2, <2>3, <1>3 DEF StartWorkflow, Typed, TypeOK, OneId, WorkRow, Table
<1>4. CASE MarkDispatched(m)
  <2>1. work' \in [Monitor -> WorkRow] /\ AtWork'
    BY <1>4, RestTyped DEF MarkDispatched
  <2>2. CASE HoldsToken(m)
    <3>. DEFINE row == [dispatch[r] EXCEPT !.status = "dispatched", !.submitted = TRUE]
    <3>1. row \in Row /\ row.id = dispatch[r].id
      BY <1>0, RowsTyped, RowSet DEF DispatchStatus
    <3>2. dispatch' = [dispatch EXCEPT ![r] = row]
      BY <1>4, <2>2 DEF MarkDispatched
    <3>. HIDE DEF row
    <3>3. dispatch' \in [Request -> Row] /\ OneId'
      BY <1>0, <3>1, <3>2, RowReplaced
    <3>4. lease' \in [Request -> LeaseRow]
      BY <1>0, <1>4, <2>2, LeaseFreed DEF MarkDispatched
    <3>. QED BY <2>1, <3>3, <3>4, <1>4
             DEF MarkDispatched, Typed, TypeOK, WorkRow, LeaseRow, Row
  <2>3. CASE ~HoldsToken(m)
    BY <2>1, <2>3, <1>4 DEF MarkDispatched, Typed, TypeOK, OneId, WorkRow
  <2>. QED BY <2>2, <2>3
<1>5. CASE MarkFailure(m)
  <2>1. work' \in [Monitor -> WorkRow] /\ AtWork'
    BY <1>5, RestTyped DEF MarkFailure
  <2>2. CASE HoldsToken(m)
    <3>1. \E s \in DispatchStatus : dispatch' = [dispatch EXCEPT ![r].status = s]
      BY <1>5, <2>2 DEF MarkFailure, DispatchStatus, Claimable
    <3>2. dispatch' \in [Request -> Row] /\ OneId'
      BY <1>0, <3>1, StatusReplaced
    <3>3. lease' \in [Request -> LeaseRow]
      BY <1>0, <1>5, <2>2, LeaseFreed DEF MarkFailure
    <3>. QED BY <2>1, <3>2, <3>3, <1>5
             DEF MarkFailure, Typed, TypeOK, WorkRow, LeaseRow, Row
  <2>3. CASE ~HoldsToken(m)
    BY <2>1, <2>3, <1>5 DEF MarkFailure, Typed, TypeOK, OneId, WorkRow
  <2>. QED BY <2>2, <2>3
<1>. QED BY <1>1, <1>2, <1>3, <1>4, <1>5 DEF MonitorStep

(* What a step of an operation leaves alone, and where it writes. *)
Touches(r, i) ==
    /\ UNCHANGED <<decisionVars, rowVars, binding, work, retries>>
    /\ faults' \in 0..MaxFaults
    /\ operation' \in Table(Status) /\ OnlyAt(operation, operation', r, i)
    /\ workflow' \in Table(Stage) /\ OnlyAt(workflow, workflow', r, i)
    /\ attempt' \in Table({1, 2}) /\ OnlyAt(attempt, attempt', r, i)
    /\ stray' \in Table(SUBSET Writable) /\ OnlyAt(stray, stray', r, i)
    /\ ran' \in Table(Nat) /\ OnlyAt(ran, ran', r, i)

(* How the entries written follow from those before them. *)
Counts(r, i) ==
    \/ ran'[r][i] = ran[r][i]
    \/ /\ ran'[r][i] = ran[r][i] + 1
       /\ (operation'[r][i] = "succeeded") <=> (operation[r][i] = "succeeded")
       /\ \/ /\ kind[r] = "deployment"
             /\ workflow[r][i] = "open" /\ workflow'[r][i] = "executing"
          \/ /\ kind[r] = "restore"
             /\ workflow[r][i] = "executing"
Stays(r, i) ==
    kind[r] = "restore" /\ workflow'[r][i] = "executing" =>
        \/ workflow[r][i] = "open" /\ ran'[r][i] = ran[r][i]
        \/ workflow[r][i] = "executing" /\ ran'[r][i] + attempt[r][i] <= ran[r][i] + attempt'[r][i]
Follows(r, i) ==
    /\ operation[r][i] # "none" \/ workflow[r][i] # "none" \/ stray[r][i] # {}
    /\ workflow'[r][i] # workflow[r][i] =>
          workflow[r][i] # "none" /\ workflow'[r][i] \notin {"none", "open"}
    /\ stray'[r][i] # {} => stray[r][i] # {} \/ (kind[r] = "restore" /\ workflow[r][i] # "none")
    /\ operation'[r][i] # operation[r][i] =>
          /\ operation'[r][i] # "none"
          /\ kind[r] = "restore" \/ operation[r][i] \notin Ended \/ stray[r][i] # {}
    /\ Counts(r, i)
    /\ Stays(r, i)

LEMMA Stages ==
  /\ DOMAIN Onward = {"open", "executing", "executed", "recorded", "failing"}
  /\ DOMAIN Writes = {"open", "executed", "failing"}
  /\ \A w \in DOMAIN Onward :
        /\ Onward[w] \in Stage \ {"none", "open"} /\ OnFailure[w] \in Stage \ {"none", "open"}
        /\ Onward[w] = "executing" => w = "open"
        /\ OnFailure[w] # "executing"
  /\ \A w \in DOMAIN Writes : Writes[w] \in Writable
BY DEF Onward, Writes, OnFailure, Stage, Writable

(* The workflow of a deployment and those who move its row by hand. *)
LEMMA DeploymentStepTouches ==
  ASSUME Typed, NEW r \in Request, NEW i \in OperationId, DeploymentStep(r, i)
  PROVE  Touches(r, i) /\ Follows(r, i)
<1>. USE DEF runVars, boundVars
<1>0. faults \in 0..MaxFaults
  BY DEF Typed, TypeOK
<1>1. CASE RunDeployment(r, i)
  <2>1. operation' \in Table(Status) /\ OnlyAt(operation, operation', r, i)
        /\ operation'[r][i] = "running"
    BY <1>1, OperationReplaced DEF RunDeployment, SetOperation, Status
  <2>2. workflow' \in Table(Stage) /\ OnlyAt(workflow, workflow', r, i)
        /\ workflow'[r][i] = "executing"
    BY <1>1, WorkflowReplaced DEF RunDeployment, GoOn, Stage
  <2>3. ran' \in Table(Nat) /\ OnlyAt(ran, ran', r, i) /\ ran'[r][i] = ran[r][i] + 1
    <3>. DEFINE n == ran[r][i] + 1
    <3>1. n \in Nat
      BY TablesTyped DEF Table
    <3>2. ran' = [ran EXCEPT ![r][i] = n]
      BY <1>1 DEF RunDeployment
    <3>. HIDE DEF n
    <3>3. ran' \in Table(Nat) /\ OnlyAt(ran, ran', r, i) /\ ran'[r][i] = n
      BY <3>1, <3>2, RanReplaced
    <3>. QED BY <3>3 DEF n
  <2>4. Touches(r, i)
    BY <1>0, <1>1, <2>1, <2>2, <2>3, TablesTyped DEF RunDeployment, Touches, OnlyAt
  <2>. QED BY <1>1, <2>1, <2>2, <2>3, <2>4
           DEF RunDeployment, Follows, Counts, Stays, Ended
<1>2. CASE CloseDeployment(r, i)
  <2>1. workflow' \in Table(Stage) /\ OnlyAt(workflow, workflow', r, i)
        /\ workflow'[r][i] = "closed"
    BY <1>2, WorkflowReplaced DEF CloseDeployment, GoOn, Stage
  <2>2. Touches(r, i)
    BY <1>0, <1>2, <2>1, TablesTyped DEF CloseDeployment, Touches, OnlyAt
  <2>. QED BY <1>2, <2>1, <2>2 DEF CloseDeployment, Follows, Counts, Stays
<1>3. CASE EndDeployment(r, i) \/ MoveByHand(r, i)
  <2>1. PICK v \in {"running"} \cup Ended : SetOperation(r, i, v)
    BY <1>3 DEF EndDeployment, MoveByHand, Ended
  <2>2. operation' \in Table(Status) /\ OnlyAt(operation, operation', r, i)
        /\ operation'[r][i] = v
    BY <2>1, OperationReplaced DEF SetOperation, Status
  <2>3. /\ UNCHANGED <<decisionVars, rowVars, workflow, attempt, stray, ran, binding, work,
                       faults, retries>>
        /\ kind[r] = "deployment" /\ operation[r][i] \in {"queued", "running"}
    BY <1>3 DEF EndDeployment, MoveByHand
  <2>4. Touches(r, i)
    BY <1>0, <2>2, <2>3, TablesTyped DEF Touches, OnlyAt
  <2>5. Counts(r, i) /\ Stays(r, i)
    BY <2>3 DEF Counts, Stays
  <2>6. /\ operation'[r][i] # "none" /\ operation[r][i] # "none"
        /\ operation[r][i] \notin Ended
    BY <2>2, <2>3 DEF Ended
  <2>. QED BY <2>3, <2>4, <2>5, <2>6 DEF Follows
<1>. QED BY <1>1, <1>2, <1>3 DEF DeploymentStep

(* The workflow of a restore, step by step. *)
LEMMA WriteTouches ==
  ASSUME Typed, NEW r \in Request, NEW i \in OperationId, Write(r, i)
  PROVE  /\ operation' \in Table(Status) /\ OnlyAt(operation, operation', r, i)
         /\ operation'[r][i] \in {operation[r][i]} \cup Writable
         /\ workflow[r][i] = "executing" => operation'[r][i] = operation[r][i]
<1>1. CASE workflow[r][i] \in DOMAIN Writes
  <2>. DEFINE v == Writes[workflow[r][i]]
  <2>1. v \in Writable /\ v \in Status
    BY <1>1, Stages DEF Writable, Status, Ended
  <2>2. operation' = [operation EXCEPT ![r][i] = v]
    BY <1>1 DEF Write, SetOperation
  <2>. HIDE DEF v
  <2>3. operation' \in Table(Status) /\ OnlyAt(operation, operation', r, i)
        /\ operation'[r][i] = v
    BY <2>1, <2>2, OperationReplaced
  <2>. QED BY <1>1, <2>1, <2>3, Stages
<1>2. CASE workflow[r][i] \notin DOMAIN Writes
  BY <1>2, TablesTyped DEF Write, OnlyAt
<1>. QED BY <1>1, <1>2

LEMMA ForsakeTouches ==
  ASSUME Typed, NEW r \in Request, NEW i \in OperationId,
         Forsake(r, i) \/ UNCHANGED <<stray, faults>>
  PROVE  /\ stray' \in Table(SUBSET Writable) /\ OnlyAt(stray, stray', r, i)
         /\ faults' \in 0..MaxFaults
<1>0. faults \in 0..MaxFaults
  BY DEF Typed, TypeOK
<1>1. CASE Forsake(r, i)
  <2>. DEFINE v == stray[r][i] \cup {Writes[workflow[r][i]]}
  <2>1. v \in SUBSET Writable
    BY <1>1, Stages, TablesTyped DEF Forsake, Table
  <2>2. stray' = [stray EXCEPT ![r][i] = v] /\ faults' \in 0..MaxFaults
    BY <1>0, <1>1, BoundsAssumption DEF Forsake
  <2>. HIDE DEF v
  <2>. QED BY <2>1, <2>2, StrayReplaced
<1>2. CASE UNCHANGED <<stray, faults>>
  BY <1>0, <1>2, TablesTyped DEF OnlyAt
<1>. QED BY <1>1, <1>2

LEMMA RestoresTouches ==
  ASSUME Typed, NEW r \in Request, NEW i \in OperationId, Restores(r, i) \/ UNCHANGED ran
  PROVE  /\ ran' \in Table(Nat) /\ OnlyAt(ran, ran', r, i)
         /\ \/ ran'[r][i] = ran[r][i]
            \/ ran'[r][i] = ran[r][i] + 1 /\ workflow[r][i] = "executing"
<1>1. CASE Restores(r, i)
  <2>. DEFINE n == IF workflow[r][i] = "executing" THEN ran[r][i] + 1 ELSE ran[r][i]
  <2>1. n \in Nat
    BY TablesTyped DEF Table
  <2>2. ran' = [ran EXCEPT ![r][i] = n]
    BY <1>1 DEF Restores
  <2>. HIDE DEF n
  <2>3. ran' \in Table(Nat) /\ OnlyAt(ran, ran', r, i) /\ ran'[r][i] = n
    BY <2>1, <2>2, RanReplaced
  <2>. QED BY <2>3 DEF n
<1>2. CASE UNCHANGED ran
  BY <1>2, TablesTyped DEF OnlyAt
<1>. QED BY <1>1, <1>2

LEMMA RestoreStepTouches ==
  ASSUME Typed, NEW r \in Request, NEW i \in OperationId, RestoreStep(r, i)
  PROVE  Touches(r, i) /\ Follows(r, i)
<1>. USE DEF runVars, boundVars
<1>0. faults \in 0..MaxFaults
  BY DEF Typed, TypeOK
<1>a. ran[r][i] \in Nat /\ attempt[r][i] \in {1, 2}
  BY TablesTyped DEF Table
<1>b. 1 \in {1, 2} /\ 2 \in {1, 2} /\ "closed" \in Stage
  BY DEF Stage
<1>1. CASE ActivityReturns(r, i)
  <2>. DEFINE w == Onward[workflow[r][i]]
  <2>1. /\ w \in Stage \ {"none", "open"}
        /\ w = "executing" => workflow[r][i] = "open"
        /\ workflow[r][i] # "none" /\ kind[r] = "restore"
    BY <1>1, Stages DEF ActivityReturns, InRestore
  <2>2. /\ Write(r, i) /\ Restores(r, i) /\ GoOn(r, i, w)
        /\ attempt' = [attempt EXCEPT ![r][i] = 1]
        /\ UNCHANGED <<decisionVars, rowVars, stray, binding, work, faults, retries>>
    BY <1>1 DEF ActivityReturns
  <2>. HIDE DEF w
  <2>3. workflow' \in Table(Stage) /\ OnlyAt(workflow, workflow', r, i) /\ workflow'[r][i] = w
    BY <2>1, <2>2, WorkflowReplaced DEF GoOn
  <2>4. attempt' \in Table({1, 2}) /\ OnlyAt(attempt, attempt', r, i)
    BY <1>b, <2>2, AttemptReplaced
  <2>5. /\ stray' \in Table(SUBSET Writable) /\ OnlyAt(stray, stray', r, i)
        /\ faults' \in 0..MaxFaults
    BY <2>2, ForsakeTouches
  <2>6. /\ ran' \in Table(Nat) /\ OnlyAt(ran, ran', r, i)
        /\ \/ ran'[r][i] = ran[r][i]
           \/ ran'[r][i] = ran[r][i] + 1 /\ workflow[r][i] = "executing"
    BY <2>2, RestoresTouches
  <2>7. /\ operation' \in Table(Status) /\ OnlyAt(operation, operation', r, i)
        /\ operation'[r][i] \in {operation[r][i]} \cup Writable
        /\ workflow[r][i] = "executing" => operation'[r][i] = operation[r][i]
    BY <2>2, WriteTouches
  <2>8. Touches(r, i)
    BY <2>2, <2>3, <2>4, <2>5, <2>6, <2>7 DEF Touches
  <2>9. Counts(r, i)
    BY <2>1, <2>6, <2>7 DEF Counts
  <2>10. Stays(r, i)
    BY <2>1, <2>3, <2>6 DEF Stays
  <2>. QED BY <2>1, <2>2, <2>3, <2>7, <2>8, <2>9, <2>10 DEF Follows, Writable
<1>2. CASE AttemptFails(r, i)
  <2>. DEFINE w == OnFailure[workflow[r][i]]
  <2>1. /\ w \in Stage \ {"none", "open", "executing"}
        /\ workflow[r][i] # "none" /\ kind[r] = "restore"
    BY <1>2, Stages DEF AttemptFails, InRestore
  <2>2. /\ Write(r, i) \/ operation' = operation
        /\ Forsake(r, i) \/ UNCHANGED <<stray, faults>>
        /\ Restores(r, i) \/ UNCHANGED ran
        /\ \/ attempt[r][i] = 1 /\ attempt' = [attempt EXCEPT ![r][i] = 2] /\ workflow' = workflow
           \/ attempt' = [attempt EXCEPT ![r][i] = 1] /\ GoOn(r, i, w)
        /\ UNCHANGED <<decisionVars, rowVars, binding, work, retries>>
    BY <1>2 DEF AttemptFails
  <2>. HIDE DEF w
  <2>3. /\ workflow' \in Table(Stage) /\ OnlyAt(workflow, workflow', r, i)
        /\ attempt' \in Table({1, 2}) /\ OnlyAt(attempt, attempt', r, i)
        /\ \/ /\ attempt[r][i] = 1 /\ attempt'[r][i] = 2
              /\ workflow'[r][i] = workflow[r][i]
           \/ workflow'[r][i] = w
    <3>1. CASE attempt[r][i] = 1 /\ attempt' = [attempt EXCEPT ![r][i] = 2] /\ workflow' = workflow
      BY <1>b, <3>1, AttemptReplaced, TablesTyped DEF OnlyAt
    <3>2. CASE attempt' = [attempt EXCEPT ![r][i] = 1] /\ GoOn(r, i, w)
      <4>1. workflow' = [workflow EXCEPT ![r][i] = w] /\ w \in Stage
        BY <2>1, <3>2 DEF GoOn
      <4>2. /\ workflow' \in Table(Stage) /\ OnlyAt(workflow, workflow', r, i)
            /\ workflow'[r][i] = w
        BY <4>1, WorkflowReplaced
      <4>3. attempt' \in Table({1, 2}) /\ OnlyAt(attempt, attempt', r, i)
        BY <1>b, <3>2, AttemptReplaced
      <4>. QED BY <4>2, <4>3
    <3>. QED BY <2>2, <3>1, <3>2
  <2>4. /\ stray' \in Table(SUBSET Writable) /\ OnlyAt(stray, stray', r, i)
        /\ faults' \in 0..MaxFaults
    BY <2>2, ForsakeTouches
  <2>5. /\ ran' \in Table(Nat) /\ OnlyAt(ran, ran', r, i)
        /\ \/ ran'[r][i] = ran[r][i]
           \/ ran'[r][i] = ran[r][i] + 1 /\ workflow[r][i] = "executing"
    BY <2>2, RestoresTouches
  <2>6. /\ operation' \in Table(Status) /\ OnlyAt(operation, operation', r, i)
        /\ operation'[r][i] \in {operation[r][i]} \cup Writable
        /\ workflow[r][i] = "executing" => operation'[r][i] = operation[r][i]
    <3>1. CASE Write(r, i)
      BY <3>1, WriteTouches
    <3>2. CASE operation' = operation
      BY <3>2, TablesTyped DEF OnlyAt
    <3>. QED BY <2>2, <3>1, <3>2
  <2>7. Touches(r, i)
    BY <2>2, <2>3, <2>4, <2>5, <2>6 DEF Touches
  <2>8. Counts(r, i)
    BY <2>1, <2>5, <2>6 DEF Counts
  <2>9. Stays(r, i)
    BY <1>a, <2>1, <2>3, <2>5 DEF Stays
  <2>. QED BY <2>1, <2>3, <2>6, <2>7, <2>8, <2>9 DEF Follows, Writable
<1>3. CASE StageFails(r, i) \/ WorkflowTimesOut(r, i)
  <2>1. /\ workflow[r][i] # "none" /\ kind[r] = "restore"
        /\ \E w \in Stage \ {"none", "open", "executing"} : GoOn(r, i, w)
    BY <1>3, <1>b, Stages DEF StageFails, WorkflowTimesOut, InRestore
  <2>2. /\ Forsake(r, i) \/ UNCHANGED <<stray, faults>>
        /\ Restores(r, i) \/ UNCHANGED ran
        /\ attempt' = [attempt EXCEPT ![r][i] = 1]
        /\ UNCHANGED <<decisionVars, rowVars, operation, binding, work, retries>>
    BY <1>3 DEF StageFails, WorkflowTimesOut
  <2>3. /\ workflow' \in Table(Stage) /\ OnlyAt(workflow, workflow', r, i)
        /\ workflow'[r][i] \notin {"none", "open", "executing"}
    <3>1. PICK w \in Stage \ {"none", "open", "executing"} :
             workflow' = [workflow EXCEPT ![r][i] = w]
      BY <2>1 DEF GoOn
    <3>. QED BY <3>1, WorkflowReplaced
  <2>4. attempt' \in Table({1, 2}) /\ OnlyAt(attempt, attempt', r, i)
    BY <1>b, <2>2, AttemptReplaced
  <2>5. /\ stray' \in Table(SUBSET Writable) /\ OnlyAt(stray, stray', r, i)
        /\ faults' \in 0..MaxFaults
    BY <2>2, ForsakeTouches
  <2>6. /\ ran' \in Table(Nat) /\ OnlyAt(ran, ran', r, i)
        /\ \/ ran'[r][i] = ran[r][i]
           \/ ran'[r][i] = ran[r][i] + 1 /\ workflow[r][i] = "executing"
    BY <2>2, RestoresTouches
  <2>7. operation' \in Table(Status) /\ OnlyAt(operation, operation', r, i)
    BY <2>2, TablesTyped DEF OnlyAt
  <2>8. Touches(r, i)
    BY <2>2, <2>3, <2>4, <2>5, <2>6, <2>7 DEF Touches
  <2>. QED BY <2>1, <2>2, <2>3, <2>6, <2>8 DEF Follows, Counts, Stays
<1>4. CASE StrayWrite(r, i)
  <2>1. PICK v \in stray[r][i] :
           /\ SetOperation(r, i, v)
           /\ stray' = [stray EXCEPT ![r][i] = stray[r][i] \ {v}]
    BY <1>4 DEF StrayWrite
  <2>2. stray[r][i] \in SUBSET Writable
    BY TablesTyped DEF Table
  <2>3. /\ operation' \in Table(Status) /\ OnlyAt(operation, operation', r, i)
        /\ operation'[r][i] = v /\ v # "none"
    BY <2>1, <2>2, OperationReplaced DEF SetOperation, Status, Writable, Ended
  <2>4. stray' \in Table(SUBSET Writable) /\ OnlyAt(stray, stray', r, i)
    <3>. DEFINE x == stray[r][i] \ {v}
    <3>1. x \in SUBSET Writable /\ stray' = [stray EXCEPT ![r][i] = x]
      BY <2>1, <2>2
    <3>. HIDE DEF x
    <3>. QED BY <3>1, StrayReplaced
  <2>5. UNCHANGED <<decisionVars, rowVars, workflow, attempt, ran, binding, work, faults, retries>>
    BY <1>4 DEF StrayWrite
  <2>6. Touches(r, i)
    BY <1>0, <2>3, <2>4, <2>5, TablesTyped DEF Touches, OnlyAt
  <2>7. Counts(r, i) /\ Stays(r, i)
    BY <1>a, <2>5 DEF Counts, Stays
  <2>. QED BY <2>1, <2>3, <2>5, <2>6, <2>7 DEF Follows
<1>. QED BY <1>1, <1>2, <1>3, <1>4 DEF RestoreStep

LEMMA OperationStepTouches ==
  ASSUME Typed, NEW r \in Request, NEW i \in OperationId,
         DeploymentStep(r, i) \/ RestoreStep(r, i)
  PROVE  Touches(r, i) /\ Follows(r, i)
BY DeploymentStepTouches, RestoreStepTouches

LEMMA OperationStepTyped ==
  ASSUME Typed, NEW r \in Request, NEW i \in OperationId, Touches(r, i)
  PROVE  Typed'
BY DEF Touches, Typed, TypeOK, AtWork, OneId, decisionVars, rowVars, Table, Status, Writable

LEMMA NextTyped == Typed /\ [Next]_vars => Typed'
<1>. SUFFICES ASSUME Typed, [Next]_vars PROVE Typed'
  OBVIOUS
<1>. USE DEF decisionVars, rowVars, operationVars, runVars, boundVars
<1>1. ASSUME NEW u \in User, NEW r \in Request, BeginReject(u, r) PROVE Typed'
  BY <1>1 DEF BeginReject, Typed, TypeOK, AtWork, OneId
<1>2. ASSUME NEW u \in User, EndReject(u) PROVE Typed'
  BY <1>2, NobodyAssumption DEF EndReject, SetRequest, Typed, TypeOK, AtWork, OneId
<1>3. ASSUME NEW m \in Monitor, Crash(m) PROVE Typed'
  <2>1. work' \in [Monitor -> WorkRow] /\ AtWork'
    BY <1>3, RestTyped DEF Crash
  <2>2. faults' \in 0..MaxFaults
    BY <1>3, BoundsAssumption DEF Crash, Typed, TypeOK
  <2>. QED BY <1>3, <2>1, <2>2 DEF Crash, Typed, TypeOK, OneId, WorkRow
<1>4. CASE UNCHANGED vars
  BY <1>4 DEF vars, Typed, TypeOK, AtWork, OneId
<1>. QED BY <1>1, <1>2, <1>3, <1>4, RequestStepTyped, ClaimTyped, MonitorStepTyped,
            OperationStepTouches, OperationStepTyped DEF Next

(* What is created belongs to an approved request. *)
Allowed == \A r \in Request :
    /\ dispatch[r].status # "none" => request[r] = "approved"
    /\ operation[r][1] # "none" => request[r] = "approved"
    /\ operation[r][2] = "none"

(* An operation that nobody has created has no workflow and no late writer, and   *)
(* each kind of operation is begun as often as its attempts allow.               *)
Counted == \A r \in Request :
    /\ workflow[r][2] = "none" /\ stray[r][2] = {} /\ ran[r][2] = 0
    /\ workflow[r][1] # "none" \/ stray[r][1] # {} => operation[r][1] # "none"
    /\ stray[r][1] # {} => kind[r] = "restore"
    /\ workflow[r][1] \in {"none", "open"} => ran[r][1] = 0
    /\ kind[r] = "deployment" => ran[r][1] <= 1
    /\ kind[r] = "restore" => ran[r][1] <= 2
    /\ kind[r] = "restore" /\ workflow[r][1] = "executing" => ran[r][1] < attempt[r][1]

(* A monitor has behind it what its step rests on. *)
Progress == \A m \in Monitor :
    /\ work[m].step # "idle" => dispatch[work[m].request].status # "none"
    /\ work[m].step \in {"start", "dispatched"} => operation[work[m].request][1] # "none"
    /\ work[m].step = "dispatched" => workflow[work[m].request][1] # "none"

(* What a row records is so, and a row with a holder can be claimed. *)
Recorded == \A r \in Request :
    /\ dispatch[r].submitted => operation[r][1] # "none" /\ workflow[r][1] # "none"
    /\ kind[r] = "deployment" /\ dispatch[r].status = "succeeded" =>
          operation[r][1] = "succeeded"
    /\ lease[r].holder # Nobody => dispatch[r].status \in Claimable

IInv == Typed /\ Allowed /\ Counted /\ Progress /\ Recorded

(* No step takes back what others rely on. *)
Kept == \A r \in Request :
    /\ request[r] \in {"approved", "rejected", "expired"} => request'[r] = request[r]
    /\ dispatch[r].status # "none" => dispatch'[r].status # "none"
    /\ operation[r][1] # "none" => operation'[r][1] # "none"
    /\ workflow[r][1] # "none" => workflow'[r][1] # "none"

LEMMA InitInv == Init => IInv
<1>. SUFFICES ASSUME Init PROVE IInv
  OBVIOUS
<1>1. Typed
  BY InitTyped
<1>. QED BY <1>1 DEF Init, IInv, Allowed, Counted, Progress, Recorded, OperationId, Idle, Unleased

(* What the updates of tables do to each entry. *)
LEMMA StatusEffect ==
  ASSUME Typed, NEW r \in Request, NEW s,
         dispatch' = [dispatch EXCEPT ![r].status = s]
  PROVE  \A q \in Request :
            /\ dispatch'[q].status = IF q = r THEN s ELSE dispatch[q].status
            /\ dispatch'[q].submitted = dispatch[q].submitted
BY RowsTyped DEF Row

LEMMA OperationEffect ==
  ASSUME Typed, NEW r \in Request, NEW i \in OperationId, NEW v,
         operation' = [operation EXCEPT ![r][i] = v]
  PROVE  \A q \in Request, k \in OperationId :
            operation'[q][k] = IF q = r /\ k = i THEN v ELSE operation[q][k]
BY DEF Typed, TypeOK

LEMMA WorkflowEffect ==
  ASSUME Typed, NEW r \in Request, NEW i \in OperationId, NEW v,
         workflow' = [workflow EXCEPT ![r][i] = v]
  PROVE  \A q \in Request, k \in OperationId :
            workflow'[q][k] = IF q = r /\ k = i THEN v ELSE workflow[q][k]
BY DEF Typed, TypeOK

LEMMA GoEffect ==
  ASSUME Typed, NEW m \in Monitor, NEW s, Go(m, s)
  PROVE  \A n \in Monitor : /\ work'[n].request = work[n].request
                            /\ work'[n].step = IF n = m THEN s ELSE work[n].step
BY DEF Go, Typed, TypeOK

LEMMA RestEffect ==
  ASSUME Typed, NEW m \in Monitor, work' = [work EXCEPT ![m] = Idle]
  PROVE  \A n \in Monitor : IF n = m THEN work'[n].step = "idle" ELSE work'[n] = work[n]
BY DEF Typed, TypeOK, Idle

(* A step that leaves the monitors alone, or sends one to rest, keeps Progress. *)
LEMMA ProgressKept ==
  ASSUME Typed, Progress, Kept,
         \A n \in Monitor : work'[n].step = "idle" \/ work'[n] = work[n]
  PROVE  Progress'
BY DEF Typed, AtWork, Progress, Kept

LEMMA RequestStepInv ==
  ASSUME IInv, NEW r \in Request, RequestStep(r)
  PROVE  Allowed' /\ Recorded' /\ Kept
<1>. USE DEF IInv, decisionVars, rowVars, operationVars, runVars, boundVars
<1>1. CASE Ask(r)
  BY <1>1 DEF Ask, SetRequest, Allowed, Recorded, Kept, Typed, TypeOK
<1>2. CASE RunOut(r)
  BY <1>2 DEF RunOut, Allowed, Recorded, Kept
<1>3. CASE Approve(r)
  <2>1. \A q \in Request :
           /\ dispatch'[q].status = IF q = r THEN "pending" ELSE dispatch[q].status
           /\ dispatch'[q].submitted = dispatch[q].submitted
    BY <1>3, StatusEffect DEF Approve
  <2>2. request' = [request EXCEPT ![r] = "approved"] /\ request[r] = "pending"
        /\ UNCHANGED <<kind, lease, operation, workflow>>
    BY <1>3 DEF Approve, SetRequest
  <2>3. request \in [Request -> {"none", "pending", "approved", "rejected", "expired"}]
    BY DEF Typed, TypeOK
  <2>. QED BY <2>1, <2>2, <2>3 DEF Allowed, Recorded, Kept, Claimable
<1>4. CASE Expire(r)
  BY <1>4 DEF Expire, SetRequest, Allowed, Recorded, Kept, Typed, TypeOK
<1>5. CASE Rebind(r)
  BY <1>5 DEF Rebind, Allowed, Recorded, Kept
<1>6. CASE LoseLease(r)
  <2>1. \A q \in Request : lease'[q].holder = lease[q].holder
    BY <1>6 DEF LoseLease, Typed, TypeOK
  <2>. QED BY <1>6, <2>1 DEF LoseLease, Allowed, Recorded, Kept
<1>7. CASE RetryDispatch(r)
  <2>1. \A q \in Request :
           /\ dispatch'[q].status = IF q = r THEN "retrying" ELSE dispatch[q].status
           /\ dispatch'[q].submitted = dispatch[q].submitted
    BY <1>7, RowsTyped DEF RetryDispatch, Row
  <2>2. \A q \in Request : lease'[q].holder = IF q = r THEN Nobody ELSE lease[q].holder
    BY <1>7, RowsTyped DEF RetryDispatch, Unleased
  <2>3. dispatch[r].status = "terminal-failure" /\ UNCHANGED <<request, kind, operation, workflow>>
    BY <1>7 DEF RetryDispatch
  <2>. QED BY <2>1, <2>2, <2>3 DEF Allowed, Recorded, Kept, Claimable
<1>8. CASE Reconcile(r)
  <2>. DEFINE end == TerminalState(operation[r][1])
  <2>1. dispatch[r].id = 1
    BY DEF Typed, OneId
  <2>2. /\ dispatch[r].status = "dispatched"
        /\ dispatch' = [dispatch EXCEPT ![r].status = end]
        /\ UNCHANGED <<request, kind, lease, operation, workflow>>
    BY <1>8, <2>1 DEF Reconcile
  <2>3. end # "none" /\ (end = "succeeded" => operation[r][1] = "succeeded")
    BY DEF TerminalState
  <2>. HIDE DEF end
  <2>4. \A q \in Request :
           /\ dispatch'[q].status = IF q = r THEN end ELSE dispatch[q].status
           /\ dispatch'[q].submitted = dispatch[q].submitted
    BY <2>2, StatusEffect
  <2>. QED BY <2>2, <2>3, <2>4 DEF Allowed, Recorded, Kept, Claimable
<1>. QED BY <1>1, <1>2, <1>3, <1>4, <1>5, <1>6, <1>7, <1>8 DEF RequestStep

LEMMA ClaimInv ==
  ASSUME IInv, NEW m \in Monitor, NEW r \in Request, Claim(m, r)
  PROVE  Allowed' /\ Recorded' /\ Kept /\ Progress'
<1>. USE DEF IInv, decisionVars, operationVars, runVars, boundVars
<1>1. \E s \in Claimable : \A q \in Request :
         /\ dispatch'[q].status = IF q = r THEN s ELSE dispatch[q].status
         /\ dispatch'[q].submitted = dispatch[q].submitted
  BY RowsTyped DEF Claim, Row, Claimable
<1>2. /\ dispatch[r].status \in Claimable
      /\ UNCHANGED <<request, kind, operation, workflow>>
      /\ lease' = [lease EXCEPT ![r] = [holder |-> m, live |-> TRUE]]
      /\ work' = [work EXCEPT ![m] = [step |-> "check", request |-> r]]
  BY DEF Claim
<1>3. \A q \in Request : lease'[q].holder = IF q = r THEN m ELSE lease[q].holder
  BY <1>2, RowsTyped
<1>4. Allowed' /\ Recorded' /\ Kept
  BY <1>1, <1>2, <1>3 DEF Allowed, Recorded, Kept, Claimable
<1>5. \A n \in Monitor : IF n = m THEN work'[n].step = "check" /\ work'[n].request = r
                                  ELSE work'[n] = work[n]
  BY <1>2 DEF Typed, TypeOK
<1>6. dispatch[r].status # "none"
  BY <1>2 DEF Claimable
<1>7. Progress'
  BY <1>4, <1>5, <1>6 DEF Progress, Kept, Typed, AtWork
<1>. QED BY <1>4, <1>7

LEMMA MonitorStepInv ==
  ASSUME IInv, NEW m \in Monitor, MonitorStep(m) \/ Crash(m)
  PROVE  Allowed' /\ Recorded' /\ Kept /\ Progress'
<1>. USE DEF IInv, decisionVars, rowVars, operationVars, runVars, boundVars
<1>. DEFINE r == work[m].request
<1>a. work[m].step # "idle"
  BY DEF MonitorStep, Check, CreateOperation, StartWorkflow, MarkDispatched, MarkFailure, Crash
<1>b. /\ r \in Request /\ dispatch[r].id = 1 /\ 1 \in OperationId
      /\ dispatch[r].status # "none" /\ request[r] = "approved"
  BY <1>a DEF Typed, AtWork, OneId, Progress, Allowed, OperationId
<1>1. CASE Check(m)
  <2>1. \E s \in {"create", "terminal", "retry"} : Go(m, s)
    BY <1>1 DEF Check
  <2>2. UNCHANGED <<request, kind, dispatch, lease, operation, workflow>>
    BY <1>1 DEF Check
  <2>3. Allowed' /\ Recorded' /\ Kept
    BY <2>2 DEF Allowed, Recorded, Kept
  <2>4. PICK s \in {"create", "terminal", "retry"} :
           \A n \in Monitor : /\ work'[n].request = work[n].request
                              /\ work'[n].step = IF n = m THEN s ELSE work[n].step
    BY <2>1, GoEffect
  <2>5. Progress'
    BY <1>a, <2>2, <2>4 DEF Progress
  <2>. QED BY <2>3, <2>5
<1>2. CASE CreateOperation(m)
  <2>1. UNCHANGED <<request, kind, dispatch, lease, workflow>>
    BY <1>2 DEF CreateOperation
  <2>2. CASE operation' = operation /\ \E s \in {"retry", "terminal"} : Go(m, s)
    <3>1. Allowed' /\ Recorded' /\ Kept
      BY <2>1, <2>2 DEF Allowed, Recorded, Kept
    <3>2. Progress'
      <4>1. PICK s \in {"retry", "terminal"} :
               \A n \in Monitor : /\ work'[n].request = work[n].request
                                  /\ work'[n].step = IF n = m THEN s ELSE work[n].step
        BY <2>2, GoEffect
      <4>. QED BY <1>a, <2>1, <2>2, <4>1 DEF Progress
    <3>. QED BY <3>1, <3>2
  <2>3. CASE /\ operation' = [operation EXCEPT ![r][1] = IF operation[r][1] = "none"
                                                        THEN "queued" ELSE operation[r][1]]
             /\ \E s \in {"start", "retry"} : Go(m, s)
    <3>1. \A q \in Request, k \in OperationId :
             operation'[q][k] = IF q = r /\ k = 1 /\ operation[r][1] = "none" THEN "queued"
                                ELSE operation[q][k]
      <4>. DEFINE v == IF operation[r][1] = "none" THEN "queued" ELSE operation[r][1]
      <4>1. operation' = [operation EXCEPT ![r][1] = v]
        BY <2>3
      <4>. HIDE DEF v
      <4>2. \A q \in Request, k \in OperationId :
               operation'[q][k] = IF q = r /\ k = 1 THEN v ELSE operation[q][k]
        BY <1>b, <4>1 DEF Typed, TypeOK
      <4>. QED BY <4>2 DEF v
    <3>2. \A q \in Request :
             /\ operation'[q][2] = operation[q][2]
             /\ operation'[q][1] = IF q = r /\ operation[r][1] = "none" THEN "queued"
                                   ELSE operation[q][1]
      BY <3>1 DEF OperationId
    <3>3. Allowed' /\ Recorded' /\ Kept
      BY <1>b, <2>1, <3>2 DEF Allowed, Recorded, Kept
    <3>4. operation'[r][1] # "none"
      BY <1>b, <3>2
    <3>5. Progress'
      <4>1. PICK s \in {"start", "retry"} :
               \A n \in Monitor : /\ work'[n].request = work[n].request
                                  /\ work'[n].step = IF n = m THEN s ELSE work[n].step
        BY <2>3, GoEffect
      <4>. QED BY <1>a, <2>1, <3>3, <3>4, <4>1 DEF Progress, Kept, Typed, AtWork
    <3>. QED BY <3>3, <3>5
  <2>. QED BY <1>2, <1>b, <2>2, <2>3 DEF CreateOperation
<1>3. CASE StartWorkflow(m)
  <2>1. UNCHANGED <<request, kind, dispatch, lease, operation>> /\ work[m].step = "start"
    BY <1>3 DEF StartWorkflow
  <2>2. CASE workflow' = workflow /\ Go(m, "retry")
    <3>1. Allowed' /\ Recorded' /\ Kept
      BY <2>1, <2>2 DEF Allowed, Recorded, Kept
    <3>2. Progress'
      BY <1>a, <2>1, <2>2, GoEffect DEF Progress
    <3>. QED BY <3>1, <3>2
  <2>3. CASE /\ workflow' = [workflow EXCEPT ![r][1] = IF workflow[r][1] = "none"
                                                      THEN "open" ELSE workflow[r][1]]
             /\ \E s \in {"dispatched", "retry"} : Go(m, s)
    <3>1. \A q \in Request, k \in OperationId :
             workflow'[q][k] = IF q = r /\ k = 1 /\ workflow[r][1] = "none" THEN "open"
                               ELSE workflow[q][k]
      <4>. DEFINE v == IF workflow[r][1] = "none" THEN "open" ELSE workflow[r][1]
      <4>1. workflow' = [workflow EXCEPT ![r][1] = v]
        BY <2>3
      <4>. HIDE DEF v
      <4>2. \A q \in Request, k \in OperationId :
               workflow'[q][k] = IF q = r /\ k = 1 THEN v ELSE workflow[q][k]
        BY <1>b, <4>1 DEF Typed, TypeOK
      <4>. QED BY <4>2 DEF v
    <3>2. \A q \in Request :
             workflow'[q][1] = IF q = r /\ workflow[r][1] = "none" THEN "open"
                               ELSE workflow[q][1]
      BY <3>1 DEF OperationId
    <3>3. Allowed' /\ Recorded' /\ Kept
      BY <1>b, <2>1, <3>2 DEF Allowed, Recorded, Kept
    <3>4. workflow'[r][1] # "none" /\ operation[r][1] # "none"
      BY <1>b, <2>1, <3>2 DEF Progress
    <3>5. Progress'
      <4>1. PICK s \in {"dispatched", "retry"} :
               \A n \in Monitor : /\ work'[n].request = work[n].request
                                  /\ work'[n].step = IF n = m THEN s ELSE work[n].step
        BY <2>3, GoEffect
      <4>. QED BY <1>a, <2>1, <3>3, <3>4, <4>1 DEF Progress, Kept, Typed, AtWork
    <3>. QED BY <3>3, <3>5
  <2>. QED BY <1>3, <1>b, <2>2, <2>3 DEF StartWorkflow, AfterStartFailure, AfterRefusal
<1>4. CASE MarkDispatched(m)
  <2>1. UNCHANGED <<request, kind, operation, workflow>> /\ work[m].step = "dispatched"
    BY <1>4 DEF MarkDispatched
  <2>2. Allowed' /\ Recorded' /\ Kept
    <3>1. CASE HoldsToken(m)
      <4>1. /\ dispatch' = [dispatch EXCEPT ![r].status = "dispatched", ![r].submitted = TRUE]
            /\ lease' = [lease EXCEPT ![r] = Unleased]
        BY <1>4, <3>1 DEF MarkDispatched
      <4>2. \A q \in Request :
               /\ dispatch'[q].status = IF q = r THEN "dispatched" ELSE dispatch[q].status
               /\ q # r => dispatch'[q].submitted = dispatch[q].submitted
        BY <1>b, <4>1, RowsTyped DEF Row
      <4>3. \A q \in Request : lease'[q].holder = IF q = r THEN Nobody ELSE lease[q].holder
        BY <1>b, <4>1, RowsTyped DEF Unleased
      <4>4. operation[r][1] # "none" /\ workflow[r][1] # "none"
        BY <2>1 DEF Progress
      <4>. QED BY <1>b, <2>1, <4>2, <4>3, <4>4 DEF Allowed, Recorded, Kept
    <3>2. CASE ~HoldsToken(m)
      BY <1>4, <3>2 DEF MarkDispatched, Allowed, Recorded, Kept
    <3>. QED BY <3>1, <3>2
  <2>3. work' = [work EXCEPT ![m] = Idle]
    BY <1>4 DEF MarkDispatched
  <2>. QED BY <2>2, <2>3, RestEffect, ProgressKept
<1>5. CASE MarkFailure(m)
  <2>1. UNCHANGED <<request, kind, operation, workflow>>
    BY <1>5 DEF MarkFailure
  <2>2. Allowed' /\ Recorded' /\ Kept
    <3>1. CASE HoldsToken(m)
      <4>1. /\ \E s \in {"terminal-failure", "retrying"} :
                  dispatch' = [dispatch EXCEPT ![r].status = s]
            /\ lease' = [lease EXCEPT ![r] = Unleased]
        BY <1>5, <3>1 DEF MarkFailure
      <4>2. PICK s \in {"terminal-failure", "retrying"} : \A q \in Request :
               /\ dispatch'[q].status = IF q = r THEN s ELSE dispatch[q].status
               /\ dispatch'[q].submitted = dispatch[q].submitted
        BY <1>b, <4>1, StatusEffect
      <4>3. \A q \in Request : lease'[q].holder = IF q = r THEN Nobody ELSE lease[q].holder
        BY <1>b, <4>1, RowsTyped DEF Unleased
      <4>. QED BY <1>b, <2>1, <4>2, <4>3 DEF Allowed, Recorded, Kept
    <3>2. CASE ~HoldsToken(m)
      BY <1>5, <3>2 DEF MarkFailure, Allowed, Recorded, Kept
    <3>. QED BY <3>1, <3>2
  <2>3. work' = [work EXCEPT ![m] = Idle]
    BY <1>5 DEF MarkFailure
  <2>. QED BY <2>2, <2>3, RestEffect, ProgressKept
<1>6. CASE Crash(m)
  <2>1. Allowed' /\ Recorded' /\ Kept
    BY <1>6 DEF Crash, Allowed, Recorded, Kept
  <2>2. work' = [work EXCEPT ![m] = Idle]
    BY <1>6 DEF Crash
  <2>. QED BY <2>1, <2>2, RestEffect, ProgressKept
<1>. QED BY <1>1, <1>2, <1>3, <1>4, <1>5, <1>6 DEF MonitorStep

(* The monitors only create operations and open workflows for them. *)
LEMMA CountedKept ==
  ASSUME IInv, Kept, UNCHANGED <<kind, runVars>>,
         \A q \in Request :
            /\ workflow'[q][2] = workflow[q][2]
            /\ \/ workflow'[q][1] = workflow[q][1]
               \/ /\ workflow[q][1] = "none" /\ workflow'[q][1] = "open"
                  /\ operation[q][1] # "none"
  PROVE  Counted'
BY DEF IInv, Counted, Kept, runVars

LEMMA MonitorStepCounted ==
  ASSUME IInv, Kept, NEW m \in Monitor,
         MonitorStep(m) \/ Crash(m) \/ \E r \in Request : Claim(m, r)
  PROVE  Counted'
<1>1. UNCHANGED <<kind, runVars>>
  BY DEF MonitorStep, Check, CreateOperation, StartWorkflow, MarkDispatched, MarkFailure, Crash,
         Claim, decisionVars, operationVars
<1>2. CASE StartWorkflow(m)
  <2>. DEFINE r == work[m].request
              w == IF workflow[r][1] = "none" THEN "open" ELSE workflow[r][1]
  <2>1. /\ r \in Request /\ dispatch[r].id = 1 /\ 1 \in OperationId /\ 2 \in OperationId
        /\ operation[r][1] # "none"
    BY <1>2 DEF StartWorkflow, IInv, Typed, AtWork, OneId, Progress, OperationId
  <2>2. \/ workflow' = workflow
        \/ workflow' = [workflow EXCEPT ![r][1] = w]
    BY <1>2, <2>1 DEF StartWorkflow
  <2>. HIDE DEF w, r
  <2>3. \A q \in Request, k \in OperationId :
           \/ workflow'[q][k] = workflow[q][k]
           \/ workflow'[q][k] = w /\ q = r /\ k = 1
    BY <2>1, <2>2, WorkflowEffect DEF IInv
  <2>4. \A q \in Request :
           /\ workflow'[q][2] = workflow[q][2]
           /\ workflow'[q][1] = workflow[q][1] \/ (workflow'[q][1] = w /\ q = r)
    BY <2>1, <2>3
  <2>. QED BY <1>1, <2>1, <2>4, CountedKept DEF w
<1>3. CASE ~StartWorkflow(m)
  <2>1. workflow' = workflow
    BY <1>3 DEF MonitorStep, Check, CreateOperation, MarkDispatched, MarkFailure, Crash, Claim,
                operationVars
  <2>. QED BY <1>1, <2>1, CountedKept
<1>. QED BY <1>2, <1>3

(* An operation runs only if it was created, and only the first one is. *)
LEMMA OperationIsFirst ==
  ASSUME IInv, NEW r \in Request, NEW i \in OperationId, Follows(r, i)
  PROVE  i = 1 /\ operation[r][1] # "none" /\ request[r] = "approved"
BY DEF IInv, Allowed, Counted, Follows, OperationId

LEMMA OperationStepCounted ==
  ASSUME IInv, NEW r \in Request, Touches(r, 1), Follows(r, 1), operation[r][1] # "none"
  PROVE  Counted'
<1>. USE DEF IInv
<1>1. kind' = kind
  BY DEF Touches, decisionVars
<1>2. ASSUME NEW q \in Request, NEW k \in OperationId, q # r \/ k # 1
      PROVE  /\ operation'[q][k] = operation[q][k] /\ workflow'[q][k] = workflow[q][k]
             /\ attempt'[q][k] = attempt[q][k] /\ stray'[q][k] = stray[q][k]
             /\ ran'[q][k] = ran[q][k]
  BY <1>2 DEF Touches, OnlyAt
<1>3. 1 \in OperationId /\ 2 \in OperationId
  BY DEF OperationId
<1>4. /\ ran[r][1] \in Nat /\ ran'[r][1] \in Nat
      /\ attempt[r][1] \in {1, 2} /\ attempt'[r][1] \in {1, 2}
  BY <1>3, TablesTyped DEF Touches, Table
<1>5. /\ operation'[r][1] # "none"
      /\ stray'[r][1] # {} => kind[r] = "restore"
  BY <1>3 DEF Follows, Counted
<1>6. /\ workflow'[r][1] \in {"none", "open"} => ran'[r][1] = 0
      /\ kind[r] = "deployment" => ran'[r][1] <= 1
      /\ kind[r] = "restore" => ran'[r][1] <= 2
  BY <1>4 DEF Follows, Counts, Counted
<1>7. kind[r] = "restore" /\ workflow'[r][1] = "executing" => ran'[r][1] < attempt'[r][1]
  BY <1>4 DEF Follows, Stays, Counted
<1>8. ASSUME NEW q \in Request
      PROVE  /\ workflow'[q][2] = "none" /\ stray'[q][2] = {} /\ ran'[q][2] = 0
             /\ workflow'[q][1] # "none" \/ stray'[q][1] # {} => operation'[q][1] # "none"
             /\ stray'[q][1] # {} => kind'[q] = "restore"
             /\ workflow'[q][1] \in {"none", "open"} => ran'[q][1] = 0
             /\ kind'[q] = "deployment" => ran'[q][1] <= 1
             /\ kind'[q] = "restore" => ran'[q][1] <= 2
             /\ kind'[q] = "restore" /\ workflow'[q][1] = "executing" =>
                   ran'[q][1] < attempt'[q][1]
  <2>1. workflow'[q][2] = "none" /\ stray'[q][2] = {} /\ ran'[q][2] = 0
    BY <1>2, <1>3 DEF Counted
  <2>2. CASE q = r
    BY <1>1, <1>5, <1>6, <1>7, <2>1, <2>2
  <2>3. CASE q # r
    BY <1>1, <1>2, <1>3, <2>1, <2>3 DEF Counted
  <2>. QED BY <2>2, <2>3
<1>. QED BY <1>8 DEF Counted

LEMMA OperationStepInv ==
  ASSUME IInv, NEW r \in Request, Touches(r, 1), Follows(r, 1), operation[r][1] # "none"
  PROVE  /\ Allowed' /\ Counted' /\ Recorded' /\ Kept
         /\ UNCHANGED <<request, kind, dispatch, lease, work>>
<1>. USE DEF IInv, decisionVars, rowVars
<1>1. UNCHANGED <<request, kind, dispatch, lease, work>>
  BY DEF Touches
<1>2. Counted'
  BY OperationStepCounted
<1>3. \A q \in Request :
         /\ operation'[q][2] = operation[q][2]
         /\ q # r => operation'[q][1] = operation[q][1] /\ workflow'[q][1] = workflow[q][1]
  BY DEF Touches, OnlyAt, OperationId
<1>4. /\ request[r] = "approved" /\ operation'[r][1] # "none"
      /\ workflow[r][1] # "none" => workflow'[r][1] # "none"
  BY DEF Follows, Allowed
<1>5. kind[r] = "deployment" /\ operation[r][1] = "succeeded" => operation'[r][1] = "succeeded"
  BY DEF Follows, Counted, Ended, Typed, TypeOK
<1>. QED BY <1>1, <1>2, <1>3, <1>4, <1>5 DEF Allowed, Recorded, Kept

LEMMA NextInv == IInv /\ [Next]_vars => IInv' /\ Kept
<1>. SUFFICES ASSUME IInv, [Next]_vars
              PROVE  Allowed' /\ Counted' /\ Recorded' /\ Kept /\ Progress'
  BY NextTyped DEF IInv
<1>. USE DEF decisionVars, rowVars, operationVars, runVars, boundVars
<1>1. ASSUME NEW r \in Request, RequestStep(r)
      PROVE  Allowed' /\ Counted' /\ Recorded' /\ Kept /\ Progress'
  <2>1. work' = work
    BY <1>1 DEF RequestStep, Ask, RunOut, Approve, Expire, Rebind, LoseLease, RetryDispatch,
                Reconcile
  <2>2. Allowed' /\ Recorded' /\ Kept
    BY <1>1, RequestStepInv
  <2>3. UNCHANGED <<kind, workflow, runVars>>
    BY <1>1 DEF RequestStep, Ask, RunOut, Approve, Expire, Rebind, LoseLease, RetryDispatch,
                Reconcile
  <2>4. Counted'
    BY <2>2, <2>3, CountedKept
  <2>. QED BY <2>1, <2>2, <2>4, ProgressKept DEF IInv
<1>2. ASSUME NEW u \in User, NEW r \in Request, BeginReject(u, r)
      PROVE  Allowed' /\ Counted' /\ Recorded' /\ Kept /\ Progress'
  BY <1>2 DEF BeginReject, IInv, Allowed, Counted, Recorded, Kept, Progress
<1>3. ASSUME NEW u \in User, EndReject(u)
      PROVE  Allowed' /\ Counted' /\ Recorded' /\ Kept /\ Progress'
  <2>1. /\ UNCHANGED <<kind, dispatch, lease, operation, workflow, runVars, work>>
        /\ \A r \in Request : request'[r] # request[r] => request[r] = "pending"
    BY <1>3 DEF EndReject, SetRequest, StillPending, IInv, Typed, TypeOK
  <2>. QED BY <2>1 DEF IInv, Allowed, Counted, Recorded, Kept, Progress
<1>4. ASSUME NEW r \in Request, NEW i \in OperationId, DeploymentStep(r, i) \/ RestoreStep(r, i)
      PROVE  Allowed' /\ Counted' /\ Recorded' /\ Kept /\ Progress'
  <2>1. Touches(r, i) /\ Follows(r, i)
    BY <1>4, OperationStepTouches DEF IInv
  <2>2. i = 1 /\ operation[r][1] # "none"
    BY <2>1, OperationIsFirst
  <2>. QED BY <2>1, <2>2, OperationStepInv, ProgressKept DEF IInv
<1>5. CASE UNCHANGED vars
  BY <1>5 DEF vars, IInv, Allowed, Counted, Recorded, Kept, Progress
<1>6. ASSUME NEW m \in Monitor,
             MonitorStep(m) \/ Crash(m) \/ \E r \in Request : Claim(m, r)
      PROVE  Allowed' /\ Counted' /\ Recorded' /\ Kept /\ Progress'
  BY <1>6, ClaimInv, MonitorStepInv, MonitorStepCounted
<1>. QED BY <1>1, <1>2, <1>3, <1>4, <1>5, <1>6 DEF Next

LEMMA Invariance == Spec => []IInv /\ [][Kept]_vars
<1>. QED BY InitInv, NextInv, PTL DEF Spec

(* The model's types are kept by every step. *)
THEOREM ApprovalTypeCorrect == Spec => []TypeOK
<1>1. IInv => TypeOK
  BY DEF IInv, Typed
<1>. QED BY <1>1, Invariance, PTL

(* No row says that its operation was submitted before the operation's row and   *)
(* its workflow exist (approval-dispatch-execution).                             *)
THEOREM SubmissionsAreReal == Spec => []SubmittedIsStarted
<1>1. IInv => SubmittedIsStarted
  BY DEF IInv, Typed, OneId, Recorded, SubmittedIsStarted
<1>. QED BY <1>1, Invariance, PTL

(* Approvals, rejections and expiries never replace one another, though a        *)
(* rejection reads and writes in two statements.                                *)
THEOREM DecisionsStand == Spec => DecisionIsFinal
<1>1. IInv /\ [Next]_vars =>
        [\A r \in Request :
           request[r] \in {"approved", "rejected", "expired"} => request'[r] = request[r]]_request
  BY NextInv DEF Kept
<1>. QED BY <1>1, Invariance, PTL DEF Spec, DecisionIsFinal

(* A dispatch that was submitted is out of every monitor's hands, and if it was   *)
(* recorded as failed its deployment has failed or was withdrawn.                *)
Reported == \A r \in Request : dispatch[r].submitted =>
    /\ dispatch[r].status \in {"dispatched", "succeeded", "terminal-failure"}
    /\ kind[r] = "deployment" /\ dispatch[r].status = "terminal-failure" =>
          operation[r][1] \in {"failed", "withdrawn"}

(* What a step does to a dispatch row. *)
RowStep(r) ==
    \/ dispatch'[r].status = dispatch[r].status /\ dispatch'[r].submitted = dispatch[r].submitted
    \/ ~dispatch[r].submitted /\ ~dispatch'[r].submitted
    \/ dispatch'[r].submitted /\ dispatch'[r].status = "dispatched"
    \/ /\ dispatch[r].status = "dispatched"
       /\ dispatch'[r].status = TerminalState(operation[r][1])
       /\ dispatch'[r].submitted = dispatch[r].submitted

LEMMA RequestStepReports ==
  ASSUME IInv, Reported, NEW r \in Request, RequestStep(r), NEW q \in Request
  PROVE  RowStep(q) /\ operation' = operation
<1>. USE DEF decisionVars, operationVars, runVars, boundVars
<1>1. CASE Ask(r) \/ RunOut(r) \/ Expire(r) \/ Rebind(r) \/ LoseLease(r)
  BY <1>1 DEF Ask, RunOut, Expire, Rebind, LoseLease, rowVars, RowStep
<1>2. CASE Approve(r)
  <2>1. ~dispatch[r].submitted
    BY <1>2 DEF Approve, IInv, Allowed, Reported
  <2>2. dispatch' = [dispatch EXCEPT ![r].status = "pending"] /\ operation' = operation
    BY <1>2 DEF Approve
  <2>. QED BY <2>1, <2>2, StatusEffect DEF IInv, RowStep
<1>3. CASE RetryDispatch(r)
  <2>1. ~dispatch[r].submitted /\ operation' = operation
    BY <1>3 DEF RetryDispatch
  <2>2. /\ dispatch'[q].submitted = dispatch[q].submitted
        /\ q # r => dispatch'[q] = dispatch[q]
    BY <1>3, RowsTyped DEF RetryDispatch, Row, IInv
  <2>. QED BY <2>1, <2>2 DEF RowStep
<1>4. CASE Reconcile(r)
  <2>. DEFINE end == TerminalState(operation[r][1])
  <2>1. dispatch[r].id = 1
    BY DEF IInv, Typed, OneId
  <2>2. /\ dispatch[r].status = "dispatched"
        /\ dispatch' = [dispatch EXCEPT ![r].status = end]
        /\ operation' = operation
    BY <1>4, <2>1 DEF Reconcile
  <2>. HIDE DEF end
  <2>3. /\ dispatch'[q].status = IF q = r THEN end ELSE dispatch[q].status
        /\ dispatch'[q].submitted = dispatch[q].submitted
    BY <2>2, StatusEffect DEF IInv
  <2>. QED BY <2>2, <2>3 DEF RowStep, end
<1>. QED BY <1>1, <1>2, <1>3, <1>4 DEF RequestStep

(* Only the holder records, and nobody holds what was submitted. *)
LEMMA RecordReports ==
  ASSUME IInv, Reported, NEW m \in Monitor, MarkDispatched(m) \/ MarkFailure(m),
         NEW q \in Request
  PROVE  RowStep(q) /\ operation' = operation
<1>. USE DEF decisionVars, rowVars, operationVars, runVars
<1>. DEFINE r == work[m].request
<1>1. r \in Request /\ m # Nobody
  BY NobodyAssumption DEF MarkDispatched, MarkFailure, IInv, Typed, AtWork
<1>2. CASE ~HoldsToken(m)
  BY <1>2 DEF MarkDispatched, MarkFailure, RowStep
<1>3. CASE HoldsToken(m)
  <2>1. ~dispatch[r].submitted
    BY <1>1, <1>3 DEF HoldsToken, IInv, Recorded, Reported, Claimable
  <2>2. \/ dispatch' = [dispatch EXCEPT ![r].status = "dispatched", ![r].submitted = TRUE]
        \/ \E s : dispatch' = [dispatch EXCEPT ![r].status = s]
    BY <1>3 DEF MarkDispatched, MarkFailure
  <2>3. dispatch \in [Request -> Row]
    BY RowsTyped, <1>1 DEF IInv
  <2>. HIDE DEF r
  <2>4. ASSUME dispatch' = [dispatch EXCEPT ![r].status = "dispatched", ![r].submitted = TRUE]
        PROVE  RowStep(q)
    BY <1>1, <2>3, <2>4 DEF RowStep, Row
  <2>5. ASSUME NEW s, dispatch' = [dispatch EXCEPT ![r].status = s] PROVE RowStep(q)
    BY <1>1, <2>1, <2>5, StatusEffect DEF RowStep, IInv
  <2>6. operation' = operation
    BY DEF MarkDispatched, MarkFailure
  <2>. QED BY <2>2, <2>4, <2>5, <2>6
<1>. QED BY <1>2, <1>3

LEMMA MonitorReports ==
  ASSUME IInv, Reported, NEW m \in Monitor, MonitorStep(m) \/ Crash(m), NEW q \in Request
  PROVE  /\ RowStep(q)
         /\ operation[q][1] # "none" => operation'[q][1] = operation[q][1]
<1>. USE DEF decisionVars, rowVars, operationVars, runVars
<1>1. CASE Check(m) \/ StartWorkflow(m) \/ Crash(m)
  BY <1>1 DEF Check, StartWorkflow, Crash, RowStep
<1>2. CASE CreateOperation(m)
  <2>. DEFINE r == work[m].request
  <2>1. r \in Request /\ dispatch[r].id = 1
    BY <1>2 DEF CreateOperation, IInv, Typed, AtWork, OneId
  <2>2. /\ dispatch' = dispatch
        /\ \/ operation' = operation
           \/ operation' = [operation EXCEPT ![r][1] = IF @ = "none" THEN "queued" ELSE @]
    BY <1>2, <2>1 DEF CreateOperation
  <2>3. operation \in Table(Status)
    BY TablesTyped DEF IInv, TypeOK
  <2>. HIDE DEF r
  <2>. QED BY <2>1, <2>2, <2>3 DEF RowStep, OperationId, Table
<1>3. CASE MarkDispatched(m) \/ MarkFailure(m)
  BY <1>3, RecordReports
<1>. QED BY <1>1, <1>2, <1>3 DEF MonitorStep

LEMMA ClaimReports ==
  ASSUME IInv, Reported, NEW m \in Monitor, NEW r \in Request, Claim(m, r), NEW q \in Request
  PROVE  RowStep(q) /\ operation' = operation
<1>1. ~dispatch[r].submitted
  BY DEF Claim, Reported, Claimable
<1>2. /\ dispatch'[q].submitted = dispatch[q].submitted
      /\ q # r => dispatch'[q] = dispatch[q]
  BY RowsTyped DEF Claim, Row, IInv
<1>. QED BY <1>1, <1>2 DEF Claim, RowStep, operationVars

(* Of a deployment that has failed or was withdrawn, this stays so. *)
Fixed(r) ==
    /\ kind'[r] = kind[r]
    /\ kind[r] = "deployment" /\ operation[r][1] \in {"failed", "withdrawn"} =>
          operation'[r][1] = operation[r][1]

LEMMA OperationReports ==
  ASSUME IInv, NEW r \in Request, NEW i \in OperationId,
         DeploymentStep(r, i) \/ RestoreStep(r, i), NEW q \in Request
  PROVE  RowStep(q) /\ Fixed(q)
<1>1. Touches(r, i) /\ Follows(r, i)
  BY OperationStepTouches DEF IInv
<1>2. i = 1
  BY <1>1, OperationIsFirst
<1>3. UNCHANGED <<dispatch, kind>>
  BY <1>1 DEF Touches, decisionVars, rowVars
<1>4. kind[q] = "deployment" /\ operation[q][1] \in {"failed", "withdrawn"} =>
         operation'[q][1] = operation[q][1]
  <2>1. CASE q = r
    BY <1>1, <1>2, <2>1 DEF Follows, IInv, Counted, Ended
  <2>2. CASE q # r
    BY <1>1, <2>2 DEF Touches, OnlyAt, OperationId
  <2>. QED BY <2>1, <2>2
<1>. QED BY <1>3, <1>4 DEF RowStep, Fixed

LEMMA ReportsKept ==
  ASSUME IInv, Reported, \A q \in Request : RowStep(q) /\ Fixed(q)
  PROVE  Reported'
BY DEF IInv, Allowed, Recorded, RowStep, Fixed, Reported, TerminalState

LEMMA NextReports == IInv /\ Reported /\ [Next]_vars => Reported'
<1>. SUFFICES ASSUME IInv, Reported, [Next]_vars
              PROVE  \A q \in Request : RowStep(q) /\ Fixed(q)
  BY ReportsKept
<1>. TAKE q \in Request
<1>1. ASSUME NEW r \in Request, RequestStep(r) PROVE RowStep(q) /\ Fixed(q)
  <2>1. kind' = kind
    BY <1>1 DEF RequestStep, Ask, RunOut, Approve, Expire, Rebind, LoseLease, RetryDispatch,
                Reconcile, decisionVars
  <2>. QED BY <1>1, <2>1, RequestStepReports DEF Fixed
<1>2. ASSUME NEW u \in User, EndReject(u) \/ \E r \in Request : BeginReject(u, r)
      PROVE  RowStep(q) /\ Fixed(q)
  BY <1>2 DEF EndReject, BeginReject, rowVars, operationVars, RowStep, Fixed
<1>3. CASE UNCHANGED vars
  BY <1>3 DEF vars, decisionVars, rowVars, operationVars, RowStep, Fixed
<1>4. ASSUME NEW m \in Monitor,
             MonitorStep(m) \/ Crash(m) \/ \E r \in Request : Claim(m, r)
      PROVE  RowStep(q) /\ Fixed(q)
  <2>1. kind' = kind
    BY <1>4 DEF MonitorStep, Check, CreateOperation, StartWorkflow, MarkDispatched, MarkFailure,
                Crash, Claim, decisionVars
  <2>. QED BY <1>4, <2>1, MonitorReports, ClaimReports DEF Fixed
<1>. QED BY <1>1, <1>2, <1>3, <1>4, OperationReports DEF Next

(* What the row of a dispatch says of its deployment is so, and stays so: success *)
(* is reported only of an approved deployment that succeeded, and once the        *)
(* dispatch was recorded as submitted, failure only of one that failed or was     *)
(* withdrawn (reconcileApprovalDispatches). Of a restore nothing like it can be   *)
(* said: its row may change after it was reported (ReportsStayTrue).             *)
DeploymentReportsStayTrue == \A r \in Request : kind[r] = "deployment" =>
    /\ dispatch[r].status = "succeeded" =>
          request[r] = "approved" /\ operation[r][dispatch[r].id] = "succeeded"
    /\ dispatch[r].submitted /\ dispatch[r].status = "terminal-failure" =>
          operation[r][dispatch[r].id] \in {"failed", "withdrawn"}
THEOREM DeploymentsAreReportedTruly == Spec => []DeploymentReportsStayTrue
<1>1. Init => Reported
  BY DEF Init, Reported
<1>2. IInv /\ Reported => DeploymentReportsStayTrue
  BY DEF IInv, Typed, OneId, Allowed, Recorded, Reported, DeploymentReportsStayTrue
<1>. QED BY <1>1, <1>2, NextReports, Invariance, PTL DEF Spec

(* The abstract variables, read off the operation that may exist. *)
decided == [r \in Request |-> IF request[r] = "none" THEN "pending" ELSE request[r]]
counted == [r \in Request |-> ran[r][1] + ran[r][2]]
begun == [r \in Request |-> ran[r][1]]
ended == [r \in Request |-> \E i \in OperationId : operation[r][i] = "succeeded"]
succeeded == [r \in Request |-> operation[r][1] = "succeeded"]
reported == [r \in Request |-> dispatch[r].status = "succeeded"]

LEMMA Mapped == IInv => counted = begun /\ ended = succeeded
<1>. SUFFICES ASSUME IInv PROVE counted = begun /\ ended = succeeded
  OBVIOUS
<1>1. counted = begun
  BY TablesTyped DEF IInv, Counted, Table, OperationId, counted, begun
<1>2. ended = succeeded
  BY DEF IInv, Allowed, OperationId, ended, succeeded
<1>. QED BY <1>1, <1>2

(* The steps of ApprovedAction in these terms. *)
Stands == UNCHANGED <<kind, decided, begun, succeeded, reported>>
Decides(r) ==
    /\ decided[r] = "pending"
    /\ \E d \in {"approved", "rejected", "expired"} : decided' = [decided EXCEPT ![r] = d]
    /\ UNCHANGED <<kind, begun, succeeded, reported>>
Begins(r) ==
    /\ decided[r] = "approved" /\ begun[r] < Action!Attempts(kind[r])
    /\ begun' = [begun EXCEPT ![r] = begun[r] + 1]
    /\ UNCHANGED <<kind, decided, succeeded, reported>>
Succeeds(r) ==
    /\ decided[r] = "approved" /\ ~succeeded[r]
    /\ succeeded' = [succeeded EXCEPT ![r] = TRUE]
    /\ UNCHANGED <<kind, decided, begun, reported>>
Revokes(r) ==
    /\ kind[r] = "restore" /\ succeeded[r]
    /\ succeeded' = [succeeded EXCEPT ![r] = FALSE]
    /\ UNCHANGED <<kind, decided, begun, reported>>
Reports(r) ==
    /\ succeeded[r] /\ ~reported[r]
    /\ reported' = [reported EXCEPT ![r] = TRUE]
    /\ UNCHANGED <<kind, decided, begun, succeeded>>
ActionStep ==
    \/ Stands
    \/ \E r \in Request : Decides(r) \/ Begins(r) \/ Succeeds(r) \/ Revokes(r) \/ Reports(r)

LEMMA ActionStepIsOne ==
  ASSUME IInv, IInv', ActionStep
  PROVE  [Action!Next]_(Action!vars)
<1>1. /\ counted = begun /\ ended = succeeded
      /\ counted' = begun' /\ ended' = succeeded'
  <2>1. counted = begun /\ ended = succeeded
    BY Mapped
  <2>2. (counted = begun /\ ended = succeeded)'
    BY Mapped, PTL
  <2>. QED BY <2>1, <2>2
<1>2. CASE Stands
  <2>1. UNCHANGED <<kind, decided, counted, ended, reported>>
    BY <1>1, <1>2 DEF Stands
  <2>. QED BY <2>1 DEF Action!vars, decided, counted, ended, reported
<1>3. ASSUME NEW r \in Request, Decides(r) PROVE Action!Decide(r)
  <2>1. /\ decided[r] = "pending"
        /\ \E d \in {"approved", "rejected", "expired"} : decided' = [decided EXCEPT ![r] = d]
        /\ UNCHANGED <<kind, counted, ended, reported>>
    BY <1>1, <1>3 DEF Decides
  <2>. QED BY <2>1 DEF Action!Decide, decided, counted, ended, reported
<1>4. ASSUME NEW r \in Request, Begins(r) PROVE Action!Begin(r)
  <2>1. /\ decided[r] = "approved" /\ counted[r] < Action!Attempts(kind[r])
        /\ counted' = [counted EXCEPT ![r] = counted[r] + 1]
        /\ UNCHANGED <<kind, decided, ended, reported>>
    BY <1>1, <1>4 DEF Begins
  <2>. QED BY <2>1 DEF Action!Begin, decided, counted, ended, reported
<1>5. ASSUME NEW r \in Request, Succeeds(r) PROVE Action!Succeed(r)
  <2>1. /\ decided[r] = "approved" /\ ~ended[r]
        /\ ended' = [ended EXCEPT ![r] = TRUE]
        /\ UNCHANGED <<kind, decided, counted, reported>>
    BY <1>1, <1>5 DEF Succeeds
  <2>. QED BY <2>1 DEF Action!Succeed, decided, counted, ended, reported
<1>6. ASSUME NEW r \in Request, Revokes(r) PROVE Action!Revoke(r)
  <2>1. /\ kind[r] = "restore" /\ ended[r]
        /\ ended' = [ended EXCEPT ![r] = FALSE]
        /\ UNCHANGED <<kind, decided, counted, reported>>
    BY <1>1, <1>6 DEF Revokes
  <2>. QED BY <2>1 DEF Action!Revoke, decided, counted, ended, reported
<1>7. ASSUME NEW r \in Request, Reports(r) PROVE Action!Report(r)
  <2>1. /\ ended[r] /\ ~reported[r]
        /\ reported' = [reported EXCEPT ![r] = TRUE]
        /\ UNCHANGED <<kind, decided, counted, ended>>
    BY <1>1, <1>7 DEF Reports
  <2>. QED BY <2>1 DEF Action!Report, decided, counted, ended, reported
<1>. QED BY <1>2, <1>3, <1>4, <1>5, <1>6, <1>7 DEF ActionStep, Action!Next

(* A step that begins, ends, decides and reports nothing. *)
LEMMA NothingHappens ==
  ASSUME \A q \in Request :
            /\ request'[q] = request[q] \/ {request[q], request'[q]} = {"none", "pending"}
            /\ ran'[q][1] = ran[q][1]
            /\ (operation'[q][1] = "succeeded") <=> (operation[q][1] = "succeeded")
            /\ (dispatch'[q].status = "succeeded") <=> (dispatch[q].status = "succeeded"),
         kind' = kind
  PROVE  Stands
<1>1. decided' = decided
  BY DEF decided
<1>2. begun' = begun
  BY DEF begun
<1>3. succeeded' = succeeded
  BY DEF succeeded
<1>4. reported' = reported
  BY DEF reported
<1>. QED BY <1>1, <1>2, <1>3, <1>4 DEF Stands

(* A decision, and nothing else. *)
LEMMA DecisionDecides ==
  ASSUME Typed, NEW r \in Request, NEW d \in {"approved", "rejected", "expired"},
         request[r] = "pending", request' = [request EXCEPT ![r] = d],
         UNCHANGED <<kind, operation, ran>>,
         \A q \in Request : dispatch'[q].status = "succeeded" <=> dispatch[q].status = "succeeded"
  PROVE  Decides(r)
<1>1. decided[r] = "pending" /\ decided' = [decided EXCEPT ![r] = d]
  BY DEF decided, Typed, TypeOK
<1>2. begun' = begun
  BY DEF begun
<1>3. succeeded' = succeeded
  BY DEF succeeded
<1>4. reported' = reported
  BY DEF reported
<1>. QED BY <1>1, <1>2, <1>3, <1>4 DEF Decides

LEMMA InitActs == Init => Action!Init
<1>. SUFFICES ASSUME Init PROVE Action!Init
  OBVIOUS
<1>1. counted = begun /\ ended = succeeded
  BY InitInv, Mapped
<1>2. /\ decided = [r \in Request |-> "pending"]
      /\ begun = [r \in Request |-> 0]
      /\ succeeded = [r \in Request |-> FALSE]
      /\ reported = [r \in Request |-> FALSE]
      /\ kind \in [Request -> {"deployment", "restore"}]
  BY DEF Init, decided, begun, succeeded, reported, OperationId
<1>. QED BY <1>1, <1>2 DEF Action!Init, decided, counted, ended, reported

LEMMA RequestStepActs ==
  ASSUME IInv, NEW r \in Request, RequestStep(r)
  PROVE  ActionStep
<1>. USE DEF IInv, decisionVars, rowVars, operationVars, runVars, boundVars
<1>1. CASE Ask(r)
  <2>1. /\ UNCHANGED <<kind, operation, ran, dispatch>>
        /\ \A q \in Request : \/ request'[q] = request[q]
                              \/ request[q] = "none" /\ request'[q] = "pending"
    BY <1>1 DEF Ask, SetRequest, Typed, TypeOK
  <2>2. Stands
    BY <2>1, NothingHappens
  <2>. QED BY <2>2 DEF ActionStep
<1>2. CASE RunOut(r) \/ Rebind(r) \/ LoseLease(r)
  <2>1. UNCHANGED <<kind, request, operation, ran, dispatch>>
    BY <1>2 DEF RunOut, Rebind, LoseLease
  <2>2. Stands
    BY <2>1, NothingHappens
  <2>. QED BY <2>2 DEF ActionStep
<1>3. CASE Approve(r)
  <2>1. request[r] = "pending" /\ request' = [request EXCEPT ![r] = "approved"]
        /\ UNCHANGED <<kind, operation, ran>>
    BY <1>3 DEF Approve, SetRequest
  <2>2. dispatch[r].status = "none"
    BY <2>1 DEF Allowed
  <2>3. \A q \in Request : dispatch'[q].status = IF q = r THEN "pending" ELSE dispatch[q].status
    BY <1>3, RowsTyped DEF Approve, Row
  <2>4. Decides(r)
    BY <2>1, <2>2, <2>3, DecisionDecides
  <2>. QED BY <2>4 DEF ActionStep
<1>4. CASE Expire(r)
  <2>1. request[r] = "pending" /\ request' = [request EXCEPT ![r] = "expired"]
        /\ UNCHANGED <<kind, operation, ran, dispatch>>
    BY <1>4 DEF Expire, SetRequest
  <2>2. Decides(r)
    BY <2>1, DecisionDecides
  <2>. QED BY <2>2 DEF ActionStep
<1>5. CASE RetryDispatch(r)
  <2>1. UNCHANGED <<kind, request, operation, ran>> /\ dispatch[r].status = "terminal-failure"
    BY <1>5 DEF RetryDispatch
  <2>2. \A q \in Request :
           dispatch'[q].status = IF q = r THEN "retrying" ELSE dispatch[q].status
    BY <1>5, RowsTyped DEF RetryDispatch, Row
  <2>3. Stands
    BY <2>1, <2>2, NothingHappens
  <2>. QED BY <2>3 DEF ActionStep
<1>6. CASE Reconcile(r)
  <2>. DEFINE end == TerminalState(operation[r][1])
  <2>1. dispatch[r].id = 1
    BY DEF Typed, OneId
  <2>2. /\ dispatch[r].status = "dispatched"
        /\ dispatch' = [dispatch EXCEPT ![r].status = end]
        /\ UNCHANGED <<kind, request, operation, ran>>
    BY <1>6, <2>1 DEF Reconcile
  <2>3. end = "succeeded" => operation[r][1] = "succeeded"
    BY DEF TerminalState
  <2>. HIDE DEF end
  <2>4. \A q \in Request : dispatch'[q].status = IF q = r THEN end ELSE dispatch[q].status
    BY <2>2, RowsTyped DEF Row
  <2>5. CASE end = "succeeded"
    <3>1. succeeded[r] /\ ~reported[r]
      BY <2>2, <2>3, <2>5 DEF succeeded, reported
    <3>2. reported' = [reported EXCEPT ![r] = TRUE]
      BY <2>4, <2>5 DEF reported
    <3>3. UNCHANGED <<kind, decided, begun, succeeded>>
      BY <2>2 DEF decided, begun, succeeded
    <3>4. Reports(r)
      BY <3>1, <3>2, <3>3 DEF Reports
    <3>. QED BY <3>4 DEF ActionStep
  <2>6. CASE end # "succeeded"
    <3>1. Stands
      BY <2>2, <2>4, <2>6, NothingHappens
    <3>. QED BY <3>1 DEF ActionStep
  <2>. QED BY <2>5, <2>6
<1>. QED BY <1>1, <1>2, <1>3, <1>4, <1>5, <1>6 DEF RequestStep

(* A monitor creates, starts and records, which no one has been promised. *)
LEMMA MonitorStepActs ==
  ASSUME IInv, NEW m \in Monitor,
         MonitorStep(m) \/ Crash(m) \/ \E r \in Request : Claim(m, r)
  PROVE  Stands
<1>. USE DEF IInv, decisionVars, rowVars, operationVars, runVars, boundVars
<1>1. UNCHANGED <<request, kind, ran>>
  BY DEF MonitorStep, Check, CreateOperation, StartWorkflow, MarkDispatched, MarkFailure, Crash,
         Claim
<1>2. \A q \in Request : \/ operation'[q][1] = operation[q][1]
                         \/ operation[q][1] = "none" /\ operation'[q][1] = "queued"
  <2>1. CASE CreateOperation(m)
    <3>1. work[m].request \in Request /\ dispatch[work[m].request].id = 1
      BY <2>1 DEF CreateOperation, Typed, AtWork, OneId
    <3>. DEFINE r == work[m].request
                v == IF operation[r][1] = "none" THEN "queued" ELSE operation[r][1]
    <3>2. \/ operation' = operation
          \/ operation' = [operation EXCEPT ![r][1] = v]
      BY <2>1, <3>1 DEF CreateOperation
    <3>3. r \in Request /\ 1 \in OperationId
      BY <3>1 DEF OperationId
    <3>. HIDE DEF v, r
    <3>4. CASE operation' = [operation EXCEPT ![r][1] = v]
      <4>1. \A q \in Request, k \in OperationId :
               operation'[q][k] = IF q = r /\ k = 1 THEN v ELSE operation[q][k]
        BY <3>3, <3>4 DEF Typed, TypeOK
      <4>. QED BY <3>3, <4>1 DEF v
    <3>. QED BY <3>2, <3>4
  <2>2. CASE ~CreateOperation(m)
    BY <2>2 DEF MonitorStep, Check, StartWorkflow, MarkDispatched, MarkFailure, Crash, Claim
  <2>. QED BY <2>1, <2>2
<1>3. \A q \in Request : dispatch'[q].status = "succeeded" <=> dispatch[q].status = "succeeded"
  <2>1. CASE MarkDispatched(m) \/ MarkFailure(m)
    <3>. DEFINE r == work[m].request
    <3>1. r \in Request
      BY <2>1 DEF MarkDispatched, MarkFailure, Typed, AtWork
    <3>2. CASE HoldsToken(m)
      <4>1. dispatch[r].status \in Claimable
        BY <3>1, <3>2, NobodyAssumption DEF HoldsToken, Recorded
      <4>2. \A q \in Request :
               /\ q # r => dispatch'[q].status = dispatch[q].status
               /\ dispatch'[r].status \in {"dispatched", "terminal-failure", "retrying"}
        BY <2>1, <3>1, <3>2, RowsTyped DEF MarkDispatched, MarkFailure, Row
      <4>. QED BY <4>1, <4>2, <3>1 DEF Claimable
    <3>3. CASE ~HoldsToken(m)
      BY <2>1, <3>3 DEF MarkDispatched, MarkFailure
    <3>. QED BY <3>2, <3>3
  <2>2. ASSUME NEW r \in Request, Claim(m, r)
        PROVE  \A q \in Request :
                  dispatch'[q].status = "succeeded" <=> dispatch[q].status = "succeeded"
    BY <2>2, RowsTyped DEF Claim, Row, Claimable
  <2>3. CASE Check(m) \/ CreateOperation(m) \/ StartWorkflow(m) \/ Crash(m)
    BY <2>3 DEF Check, CreateOperation, StartWorkflow, Crash
  <2>. QED BY <2>1, <2>2, <2>3 DEF MonitorStep
<1>. QED BY <1>1, <1>2, <1>3, NothingHappens

(* A workflow begins what was approved as often as it may, and what its row says  *)
(* changes for a deployment only until it has ended.                            *)
LEMMA OperationStepActs ==
  ASSUME IInv, NEW r \in Request, Touches(r, 1), Follows(r, 1), request[r] = "approved"
  PROVE  ActionStep
<1>. USE DEF IInv
<1>1. UNCHANGED <<request, kind, dispatch>>
  BY DEF Touches, decisionVars, rowVars
<1>2. decided[r] = "approved" /\ UNCHANGED <<kind, decided, reported>>
  BY <1>1 DEF decided, reported
<1>3. \A q \in Request : q # r => operation'[q][1] = operation[q][1] /\ ran'[q][1] = ran[q][1]
  BY DEF Touches, OnlyAt, OperationId
<1>4. ran[r][1] \in Nat /\ kind[r] \in {"deployment", "restore"}
  BY TablesTyped DEF Table, OperationId, Typed, TypeOK
<1>5. CASE ran'[r][1] # ran[r][1]
  <2>1. /\ ran'[r][1] = ran[r][1] + 1
        /\ (operation'[r][1] = "succeeded") <=> (operation[r][1] = "succeeded")
        /\ \/ kind[r] = "deployment" /\ workflow[r][1] = "open"
           \/ kind[r] = "restore" /\ workflow[r][1] = "executing"
    BY <1>5 DEF Follows, Counts
  <2>2. begun[r] < Action!Attempts(kind[r])
    <3>1. attempt[r][1] \in {1, 2}
      BY TablesTyped DEF Table, OperationId
    <3>. QED BY <1>4, <2>1, <3>1 DEF Counted, begun, Action!Attempts
  <2>3. begun' = [begun EXCEPT ![r] = begun[r] + 1]
    BY <1>3, <2>1 DEF begun
  <2>4. succeeded' = succeeded
    BY <1>3, <2>1 DEF succeeded
  <2>5. Begins(r)
    BY <1>2, <2>2, <2>3, <2>4 DEF Begins
  <2>. QED BY <2>5 DEF ActionStep
<1>6. CASE ran'[r][1] = ran[r][1]
  <2>1. begun' = begun
    BY <1>3, <1>6 DEF begun
  <2>2. CASE operation'[r][1] = "succeeded" /\ operation[r][1] # "succeeded"
    <3>1. ~succeeded[r] /\ succeeded' = [succeeded EXCEPT ![r] = TRUE]
      BY <1>3, <2>2 DEF succeeded
    <3>2. Succeeds(r)
      BY <1>2, <2>1, <3>1 DEF Succeeds
    <3>. QED BY <3>2 DEF ActionStep
  <2>3. CASE operation'[r][1] # "succeeded" /\ operation[r][1] = "succeeded"
    <3>1. kind[r] = "restore"
      BY <1>4, <2>3 DEF Follows, Counted, Ended
    <3>2. succeeded[r] /\ succeeded' = [succeeded EXCEPT ![r] = FALSE]
      BY <1>3, <2>3 DEF succeeded
    <3>3. Revokes(r)
      BY <1>2, <2>1, <3>1, <3>2 DEF Revokes
    <3>. QED BY <3>3 DEF ActionStep
  <2>4. CASE (operation'[r][1] = "succeeded") <=> (operation[r][1] = "succeeded")
    <3>1. succeeded' = succeeded
      BY <1>3, <2>4 DEF succeeded
    <3>. QED BY <1>2, <2>1, <3>1 DEF Stands, ActionStep
  <2>. QED BY <2>2, <2>3, <2>4
<1>. QED BY <1>5, <1>6

LEMMA NextActs == IInv /\ [Next]_vars => ActionStep
<1>. SUFFICES ASSUME IInv, [Next]_vars PROVE ActionStep
  OBVIOUS
<1>1. ASSUME NEW u \in User, NEW r \in Request, BeginReject(u, r) PROVE Stands
  BY <1>1, NothingHappens DEF BeginReject, decisionVars, rowVars, operationVars, runVars
<1>2. ASSUME NEW u \in User, EndReject(u) PROVE ActionStep
  <2>1. UNCHANGED <<kind, dispatch, operation, ran>>
    BY <1>2 DEF EndReject, decisionVars, rowVars, operationVars, runVars
  <2>2. CASE request' = request
    <3>1. Stands
      BY <2>1, <2>2, NothingHappens
    <3>. QED BY <3>1 DEF ActionStep
  <2>3. CASE request' # request
    <3>. DEFINE r == rejecting[u]
    <3>1. r \in Request /\ request[r] = "pending" /\ request' = [request EXCEPT ![r] = "rejected"]
      BY <1>2, <2>3 DEF EndReject, SetRequest, StillPending, IInv, Typed, TypeOK
    <3>2. Decides(r)
      BY <2>1, <3>1, DecisionDecides DEF IInv
    <3>. QED BY <3>1, <3>2 DEF ActionStep
  <2>. QED BY <2>2, <2>3
<1>3. ASSUME NEW m \in Monitor,
             MonitorStep(m) \/ Crash(m) \/ \E r \in Request : Claim(m, r)
      PROVE  Stands
  BY <1>3, MonitorStepActs
<1>4. CASE UNCHANGED vars
  BY <1>4, NothingHappens DEF vars, decisionVars, rowVars, operationVars, runVars, ActionStep
<1>5. ASSUME NEW r \in Request, NEW i \in OperationId, DeploymentStep(r, i) \/ RestoreStep(r, i)
      PROVE  ActionStep
  <2>1. Touches(r, i) /\ Follows(r, i)
    BY <1>5, OperationStepTouches DEF IInv
  <2>2. i = 1 /\ request[r] = "approved"
    BY <2>1, OperationIsFirst
  <2>. QED BY <2>1, <2>2, OperationStepActs
<1>. QED BY <1>1, <1>2, <1>3, <1>4, <1>5, RequestStepActs DEF Next, ActionStep

(* Whatever is interrupted, repeated, requeued or decided at the same time, an    *)
(* approved deployment is executed at most once and an approved restore at most  *)
(* as often as its activity has attempts, only after the approval, and a success *)
(* is reported only when the operation's row says so.                           *)
THEOREM DispatchImplementsAction == Spec => ActsAsApproved
<1>1. IInv /\ IInv' /\ [Next]_vars => [Action!Next]_(Action!vars)
  BY NextActs, ActionStepIsOne
<1>. QED BY <1>1, InitActs, Invariance, PTL DEF Spec, ActsAsApproved, Action!Spec
=================================================================================
