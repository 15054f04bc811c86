# DaoFlow: how a deployment is asked for, admitted, built, concluded and reported

DaoFlow is a control plane that deploys services to remote servers. Its API, its workers and its
monitors are separate processes (or separate loops of one process) that share a PostgreSQL database
and little else. What holds them together are conditional updates, lease rows with an expiry, JSON
snapshots that are read and written back, and one row lock per server. Around the deployment stand
three protocols that must do something exactly once outside of that database: the recovery of webhook
deliveries, the dispatch of approved actions and the feedback to Git providers. This directory models
the core and the three protocols in TLA+, checks them with TLC on small instances, and proves their
main properties with TLAPS for every instance.

All paths below are relative to `src/packages/server/src/`; `PROJECT.json` maps every definition to
the lines it models.

- [Inventory](#inventory) · [Modules](#modules) · [Runs](#runs) · [Findings](#where-the-code-departs-from-what-is-said-of-it)
- [Fairness](#fairness) · [Proofs](#proofs) · [Not modelled](#what-is-not-modelled) · [Plan](#plan)

## Inventory

### The core

| component | code | state it keeps | operations | what makes it hard |
|---|---|---|---|---|
| Queue admission | `db/services/deployment-capacity.ts`, `deployments.ts`, `routes/deploy-context.ts`, `routes/stream-to-file.ts` | `deploymentQueueReservations` (id, expiresAt), count of queued and waiting rows, `servers.maxQueuedDeployments` | reserve, renew, consume, release a place; create with and without one; change the limit | the clock is read before the lock is waited for; uploads are slow, fail, die and are sent again |
| Deployment claim | `db/services/deployment-execution-control.ts`, `worker/worker.ts`, `worker/temporal/workflows/deploy-workflow.ts` | `deployments.status` | claim one row (workflow), claim any row (poller) | conditions on other rows are read in a statement's snapshot and lock nothing; retries; creation order is not commit order |
| Deployment record | `db/services/deployments.ts`, `deployment-transition-feedback.ts`, `deployment-dispatch.ts`, `execution.ts` | status, conclusion, updatedAt, configSnapshot (with the cancellation request and the workflow ids), feedback intents | create, transition, cancel, dispatch, move by hand | six kinds of writers, none of which holds a lock across statements; the snapshot is written back whole |
| Execution | `worker/run-deployment.ts`, `deploy-strategies.ts`, `compose-deploy-strategy.ts`, `db/services/compose-env.ts` | phase of the run, what it has read | prepare, fetch, build, launch, complete, fail, cancel | dies anywhere; two runs of one deployment; polls for cancellation between steps |
| Build slots | `db/services/deployment-build-capacity.ts`, `deployment-build-lease-state.ts`, `worker/deployment-build-lease.ts` | `deploymentBuildLeases` (deployment, ownerToken, expiresAt), `servers.maxConcurrentBuilds`, a local timer per build | wait, acquire, renew, release, throw out expired rows | only acquisitions take the server lock; renewals may be late, lost or refused; timer and row expire separately |
| Watchdog | `db/services/deployment-watchdog.ts` | the list of one pass | list silent rows; read, look for the lease of and fail each | four statements without a lock; the last one asks only for the status |

How they interact. An upload reserves a place and later creates its row; everything else creates its
row directly, if there is room (**admission**). A row is then handed to Temporal, or found by the
legacy poller, and claimed (**claim**); a claimed build is `waiting`, an image deployment is in
`prepare`. The run checks, fetches, asks for a build slot (**slots**), builds, launches and concludes
the row (**record**). Meanwhile a user may cancel, an operator may move the row, whatever executes it, a failed dispatch may fail it, the watchdog may
fail it when it goes silent, and the acquisition of another deployment may fail it when it finds its
build lease expired. Each status change writes an intent to the provider-feedback outbox in the
same transaction. The components meet in the deployment row, in the server row (limits and lock) and
in the lease rows; the modules meet in the same places (see [Modules](#modules)).

What makes them correct:

- *admission*: newcomers stay within the limit; an upload that keeps streaming keeps its place; a
  request that fails does not take the place of another;
- *claim*: one deployment of a service at a time; a withdrawn deployment is not executed; a queued
  deployment is not forgotten;
- *record*: it concludes once, announces every stage it passed and nothing after its conclusion;
  whoever was told how it ended was told the truth; an accepted cancellation is not forgotten; an
  active deployment ends;
- *slots*: a build that runs owns a live lease; builds never exceed the limit by a new one; oldest
  first; a healthy build is not failed as abandoned; a slot of a dead worker becomes free.

### The protocols around the core

| component | code | state it keeps | operations | what makes it hard |
|---|---|---|---|---|
| Provider feedback outbox | `db/services/provider-feedback-*.ts`, `worker/provider-feedback-*.ts` | feedback rows (sequence, status, attempts, claim lease), targets (provider, external ids, lease), the comment row of a pull request with a lease of its own | queue, claim, deliver, record, give up; claim, list, update, create, save the comment | the provider's calls take effect or not, with or without an answer; one target per deployment, but one comment for all previews of a pull request |
| Approval dispatch | `db/services/approvals.ts`, `approval-dispatch-*.ts`, `worker/approval-action-dispatch-monitor.ts` | requests, dispatch rows (status, attempts, operation id, claim lease), the operation's row and workflow | ask, approve, reject, expire; claim, check, create, start, record; reconcile, requeue; the stages of a restore | effect and record are apart; an operator requeues what may have taken effect; nothing renews the lease; a restore's activities are tried again and write its row by its id alone |
| Webhook recovery | `db/services/webhook-delivery-recovery-*.ts`, `routes/webhook-*.ts` | delivery (status, attempt token, lease), its targets, deployments by delivery and target | claim, select, register, recover, trigger, start, record, complete, fail | a delivery is repeated while an attempt runs; creating deployments does not ask for the lease; the configuration changes between attempts |

What makes them correct:

- *feedback*: one external deployment per deployment and one comment per pull request, however often a
  delivery is repeated; transitions shown in order and once; recorded ids never replaced; nothing waits
  for ever;
- *approvals*: decided once; one operation each, only if approved: a deployment executed at most once, a
  restore at most as often as its activity has attempts; success reported only of a row that says so
  then; a dispatch comes to an end unless its workflow gives the row up (it can: see
  [Findings](#where-the-code-departs-from-what-is-said-of-it));
- *webhooks*: each target settled once and deployed at most once; the delivery closed only when nothing
  it knows is open; an attempt does not stay in flight; an interrupted target is retried (it is not:
  see [Findings](#where-the-code-departs-from-what-is-said-of-it)).

### Other components

| component | state | why it is not modelled |
|---|---|---|
| Development tasks, server metrics and their outbox | claims with heartbeats, an outbox with leases | variations of the claims, leases and outboxes above; next in the plan |
| Backups, restores, control-plane recovery | workflow state | long external commands; the stages of the restore an approval starts are part of `ApprovalDispatch` |
| Planning, environment layering, previews, schedules, accounts, audit, notifications, executors, clients | records and derived data | sequential code, I/O, rendering |

`PROJECT.json` lists all components with their sources and every hazard at its line.

## Modules

| detailed module | abstract specification it implements |
|---|---|
| `BuildSlots` | `BuildSemaphore`: a counting semaphore with a changing limit |
| `DeploymentLifecycle` | `DeploymentOutcome`: one conclusion, announced, and nothing after it |
| `ProviderFeedback` (with `PreviewComment`) | `FeedbackStream`: transitions published in order, each at most once |
| `ApprovalDispatch` | `ApprovedAction`: decided once, a bounded number of executions, only after an approval; success reported only while the record says so |
| `WebhookRecovery` | `PushDelivery`: targets settled once and deployed at most once |
| `DeploymentClaims`, `DeploymentQueue` | their invariants and action properties |

`MC…` modules give the constants their values, `…Proofs` modules hold the theorems.

The four modules of the core each follow one aspect of the same rows and take the others as environment
steps that the other modules justify:

- `BuildSlots` takes claims, cancellation, operators' transitions, failed dispatches and the watchdog as
  steps on `status`; `DeploymentLifecycle` has them in detail.
- `DeploymentLifecycle` follows one deployment; `Grant` and `Deny` stand for the decision of
  `BuildSlots`, whose `EveryRequestSettles` justifies its fairness, and `FailAbandoned` for another
  deployment's acquisition.
- `DeploymentClaims` follows all rows, reduced to how each came by its status; that an active row is
  concluded is `ActiveDeploymentEnds` of `DeploymentLifecycle`.
- `DeploymentQueue` follows what counts against the queue limit; `MoveOn` stands for everything that
  happens to a row once it exists.

The three protocols meet the core at the deployment's row. `DeploymentLifecycle` writes a feedback intent
with every accepted transition, `QueueIntent` of `ProviderFeedback` is that write. `Trigger` of
`WebhookRecovery` is the creation of a deployment, `StartWorkflow` its dispatch, `DeploymentEnds` the rest
of its life; `CreateOperation` and `StartWorkflow` of `ApprovalDispatch` are the same for a deployment or a
restore, `RunDeployment`, `CloseDeployment`, `EndDeployment` and `MoveByHand` the rest of a deployment's
life. A start that fails also fails the deployment of a push; approvals ask for the
row to be kept (`preserveDispatchRetry`), so that their next attempt can start it.

### BuildSlots

| code | model |
|---|---|
| lease row: `ownerToken`, `expiresAt` | `holder`, `ttl` (ticks left) |
| `leaseExpiryWatchdog` | `watchdog` (ticks left), armed in `Recheck` and `RenewalAnswered` |
| answer to a lease statement under way | `lag` |
| `withDeploymentBuildLease` | `MarkWaiting`, `Check`, `LockServer`, `Decide`, `MarkAcquired`, `Recheck`, `FinishBuild`, `AbortForLeaseLoss`, `Release` |
| `tryAcquireDeploymentBuildLease` | `LockServer` (lock, SELECT of expired rows) and `Decide` (DELETE, failing of the abandoned, decision) |
| `renewDeploymentBuildLease` | `SendRenewal`, `Renew`, `RenewalAnswered` |
| a statement throws, a worker dies | `StatementFails`, `Crash` |
| operators' dispatch, complete and fail (`execution.ts`) | `OperatorTransition`, for the statuses in `JobStatus` |
| the failure transition of `dispatchDeploymentExecution` | `DispatchFails` |
| the watchdog's SELECT of a lease, and its UPDATE | `WatchdogSelect`, `WatchdogFail` |

The last three end a row, or move it, whoever executes it: under a build as well, which goes on and learns
of it from its own next transition. The watchdog asks whether the row is silent, active and without a live
lease, and may find it so for a live run; between its SELECT and its UPDATE anything may happen. That an
active row is silent is not tracked here: any of them may be. What is left for a build is
`BuildingIsNotWaiting`: its row is a running or an ended one, so no poller claims it again and no waiter
counts it among the builds before it.

A run whose lease is lost is `aborted`: the abort signals the build, and the command may run for a moment
longer. `Running`, the users of the semaphore, ends with the signal; how long Docker takes to obey is not
modelled.

SELECT and DELETE of an acquisition are separate, because renewals take no server lock and may commit
between them; everything else in that transaction is one step, as the lock makes it. The lease's
expiry is computed by the database's clock in the statement that writes it, so `ttl` starts in full
at that statement. The expiry test uses the application's clock: clocks of application and database
are taken to agree.

### DeploymentLifecycle

One row, with any number of runs and users. Status and conclusion, whether `updatedAt` is older than
the watchdog's timeout (`silent`), whether the snapshot holds a cancellation request, the owner of
the build lease and whether it is live. Whoever reads the snapshot and writes it back later keeps
what it has read: `dispatch` (`dispatchDeploymentExecution`, from the creation on), `sawCancel`
(`persistDeploymentComposeEnvState`) and `candidate` (the watchdog). `runDeployment` is split at
every statement that reads or writes shared state; Docker, Git and SSH commands are steps that end or
throw (`StepFails`). In particular a compose project's move to `deploy` and its start are two steps
(`MoveToDeploy`, `Launch`), with statements in between that ask for nothing. Two runs of one deployment are real: `claimDeploymentForExecution` answers
"claimed" for a row that is active already, and a process that loses Temporal falls back to polling
(`index.ts`). 
The watchdog's pass is four statements: it lists silent rows without a live lease (`WatchdogList`), reads
each of them (`WatchdogRead`), looks for its lease again without a lock (`WatchdogCheck`), and updates it
under a condition on the status alone (`WatchdogMark`), with the snapshot it has read. It has one pass at a
time. The code's second look uses the clock of the list, so a lease that runs out under way still counts as
live there; the model's look may also find that one expired and so goes on at least as often.

### DeploymentClaims

A claim is one UPDATE under READ COMMITTED: the conditions on other rows (`ActiveDeploymentConflict`,
`OlderQueuedBuild`) are evaluated in the snapshot of the statement's beginning, the row itself as it is
at commit. `BeginClaim`/`BeginPoll` take the snapshot, `EndClaim`/`EndPoll` commit. Deployments are
numbered by `created_at`, which is when their transaction began; `Create` commits them in any order.
`SKIP LOCKED` lets a poller take any candidate. Rows an operator moved by hand are `moved` rather than
`claimed`, because that operation checks nothing and promises nothing about other deployments.

### DeploymentQueue

A reservation's `expiresAt` is the number of ticks left, down to `-MaxWait`, since a call's clock may be
that old: `wait` counts the ticks since a call read its clock, and a reservation is live *for a call*
(`LiveFor`) if it expires after that clock. `ReserveDeploymentQueueSlot` renews whether or not there is
room and inserts only if there is. A commit whose answer is lost leaves a row that the request does not
know of (`renewer`), so its catch block, which releases by id and `expiresAt`, cannot release it.
A heartbeat that fails when the stream has already ended is ignored, as in `streamBodyToFile`.

### ProviderFeedback, PreviewComment

| code | model |
|---|---|
| `deploymentFeedback` rows by `sequence`; their status and attempts | `rows[t]`, a sequence of `[state, attempts]` |
| claim token and expiry of row and target, written together | `lease[t]`: holder and whether it is unexpired |
| `queueDeploymentProviderFeedback`, inside the transition | `QueueIntent` |
| `claimNextProviderFeedback` | `Claim` with `Claimable`, which looks at all earlier rows of the target |
| `GithubProviderFeedbackAdapter.deliver` | `FindDeployment`, `CreateDeployment`, `FindStatus`, `CreateStatus`, then the upsert of the comment, `FinishUpsert` |
| `provider-feedback-pr-comments.ts`, `upsertComment` | `PreviewComment`: `ClaimComment`, `FindComment`, `UpdateComment`, `CreateComment`, `SaveComment` |
| `recordProviderFeedbackSuccess`, `…Failure`, `…Skipped` | `Record`, under the lease |

The provider is external; it is modelled by what the adapter uses: it keeps what was created, lists it with
its marker, and a call may fail before or after its effect. Heartbeats renew both leases while a processor
lives, so a lease of a live processor that is lost is counted as a fault (`MaxFaults`). Under `Timely`
no such fault befalls a processor between the beginning and the end of a call to the provider: without it
two processors can both find nothing and both create, and no code on this side can prevent that.
`QueueIntent` always appends, although the code inserts an intent only once for each transition: a
deployment's row accepts each transition once, so no second intent arises.
`OneExternalIdentity` and `PublishedInOrder` rest on `Timely`; `DeliveredIsShown` and `IdentityIsKept` hold without it.

### ApprovalDispatch

`request`, `dispatch`, `lease` and `operation` are the rows of `approvalRequests`, of the dispatches with
their claim, and of the deployment or the restore; `workflow` is what Temporal has under the operation's
id. A rejection is two statements (`BeginReject`, `EndReject`), an approval is one transaction with the
row locked. `Check` stands for the re-reading of payload, actor, request and target, whose outcome
changes with `Rebind`. A refusal of `CreateOperation` may be final or not, as the code classifies it. The id
of an operation is drawn when the request is approved and never again; the second id of the model exists
only to be refuted (`OperationId`, `SameId`).

A request asks for a deployment or a restore (`kind`), which differ in who writes their rows. A deployment's
writers are guarded by its status, its activity has one attempt, and an active one ends
(`ActiveDeploymentEnds`); one that is still queued when its workflow could not claim it stays queued. A restore
goes through the stages of `restoreWorkflow`:

| code | model |
|---|---|
| `resolveRestoreContext`, before the try block; returns null, throws, or sets the row to "running" | stage `open`: `StageFails` closes the workflow, `Writes` "running" |
| download, `executeRestore` | stage `executing`, counted by `ran` |
| `markRestoreSucceeded` | stage `executed`, writes "succeeded" |
| events, audit entries and notifications after it, still inside the try block | stage `recorded`; a failure there leads to `failing` |
| the catch block: `markRestoreFailed` | stage `failing`, writes "failed" |
| an activity returns; an attempt throws, times out or loses its answer; a non-retryable error | `ActivityReturns`, `AttemptFails` (the second failure is the activity's), `StageFails` |
| `workflowExecutionTimeout` of one hour | `WorkflowTimesOut` |
| an attempt the engine has given up goes on and writes | `Forsake`, `StrayWrite` |

Rows of restores are updated by their id, without a condition on their status. Stray writes are counted among
the faults. `ran` counts the beginnings of the activity that carries the operation out, hence for a restore those
of `executeRestore`; a backup that is downloaded straight into its target is in the target before, and that
download is not counted. An approved compose release and an approved preview are both deployments.

### WebhookRecovery

`lease` is the attempt: its token is fresh, so whoever holds it is the last who claimed. `Select`,
`Register`, `Refresh`, `StartTarget`, `Record`, `Complete` and `Fail` ask for it in their statements;
`Recover`, `Trigger` and `StartWorkflow` do not, and that is where two attempts meet. `Key` is the
services of the project and the one target that a push has when it deploys nothing. `StatusOfTargets` is
`completeWebhookDeliveryAttempt`'s summary; it counts the targets of all attempts. A `Trigger` that the
unique index refuses throws, which fails the attempt.

## Runs

All runs are exhaustive. State counts are distinct states.

| run | instance | what it shows |
|---|---|---|
| `slots_contention` (2.1 M) | 2 builds, 1 run each, limit 1–2, lease 3, heartbeat 2, lag 1 ticks; operators dispatch, complete and fail | type invariant; a slot has a live lease; a building deployment has left the queue and is not failed as abandoned; oldest first; the slots refine a counting semaphore with a changing limit |
| `slots_fencing` (178 k) | 2 runs of the younger build behind an older one with no worker, limit 1, lease 3; operators fail | owner tokens fence two workers of one deployment; every request for a slot is answered |
| `lifecycle_temporal` (553 k) | 2 runs, 1 user, compose, Temporal | type invariant; answers are true; one conclusion, nothing announced after it; no run has a slot when the watchdog finds no live lease or an acquisition throws out the deployment's row; a run without another one beside it launches nothing after a user was told "cancelled" |
| `lifecycle_live` (132 k) | 2 runs, Dockerfile, Temporal | an active deployment ends wherever its runs die |
| `lifecycle_lost_cancellation` (violated) | 2 runs, 1 user, image, Temporal | an accepted cancellation request is overwritten by the dispatch (an image has no compose write-back; that one is the subject of the proof below) |
| `claims_poller` (4 k) | 3 deployments of 2 services on one server, 1 poller, whose claims cannot overlap | a service is serialized; every queued deployment leaves the queue |
| `claims_temporal` (89 k) | the same with one workflow per deployment | withdrawn deployments are not executed; a queued one waits for ever only behind a build nobody will claim |
| `queue_admission` (302 k) | one upload sent twice, one direct deployment, limit 1–2, TTL 6, interval 2, wait 1 | newcomers respect the limit; the queue outgrows it only by a late call or an operator; an upload keeps its place; a renewed place is not taken by another request |
| `feedback` (539 k) | 2 processors, 2 previews of one pull request with 2 and 1 transitions, 2 attempts, 1 fault, 1 deleted comment | type invariant; one external identity; what is recorded as delivered is shown; recorded ids stay; transitions in order and once; every transition settles |
| `approvals` (461 k) | 1 request for a deployment or a restore, 1 user, 2 monitors, 2 attempts, 2 faults, 1 requeue | type invariant; submitted means started; decisions stand; a deployment is executed at most once, a restore at most twice, and success reported only of a row that says so then; every approval settles unless its workflow gives the row up |
| `webhook` (152 k) | 2 requests, 2 services, 1 fault, 1 change of configuration | type invariant; completed means handed over; settled once, deployed at most once; attempts end |
| `webhook_stuck` (violated) | 1 request, 1 service, 1 fault | an interrupted target is not retried once its deployment has failed |

**Why the bounds are enough.** Interactions here are pairwise: two claims, two runs of a row, two
requests for one id, a builder and the acquisition that throws it out. Two actors of each kind give
every such pair; the claims need a third deployment, so that a build can be held back by its service
while another waits for it by age. The limit of one makes everyone wait, two lets it be lowered under
two users. The timing constants are the smallest that satisfy the assumptions the code's values
satisfy (120 s lease and 30 s heartbeat; one hour TTL and 20 minutes interval) and in which a timer,
a renewal and an expiry can fall in any order that these allow. Counters are bounded by construction:
ticks left stop at zero (`-MaxWait` for reservations), waits stop at `MaxLag` and `MaxWait`, which are
assumptions about the environment and named as such. In the protocols the faults are counted (`MaxFaults`), so
that a behaviour is a finite fight that the code must win afterwards; one fault in `feedback` and in
`webhook` already makes two processors work on the same row, two in `approvals` let the second one fail
as well. (`WebhookRecovery` without liveness was also checked once with two faults, 1.2 million states.)
`feedback` has two transitions of one deployment, for their order, and one of another, for the comment they
share; with one deleted comment the second update of an upsert always finds what it listed, and with
`Failures = {"retry"}` a dead letter comes from used-up attempts or from a changed identity. `approvals` has
one request, since monitors' steps on different requests touch different rows; two faults are a lost lease and a
stray write of the same restore, or two stray writes. In `slots_fencing`, of what operators do, only
failing a row is left, which keeps the liveness check small; `slots_contention` has it all. The theorems hold without any of these bounds.
Symmetry is used in one run, over the two runs of `lifecycle_temporal`, which checks safety only.

`CHECK_DEADLOCK FALSE` stands in the lifecycle and claims configurations and in those of the three protocols,
where the system does come to rest: all deployments have ended, all rows are settled and nobody asks for
another. `BuildSlots` and `DeploymentQueue`
never stop, since an operator can always change the limit.

## Where the code departs from what is said of it

Two of these are runs that TLC finds violated, and `PROJECT.json` quotes the statements they contradict:

1. **A lost cancellation** (`lifecycle_lost_cancellation`). `dispatchDeploymentExecution` writes the
   snapshot of the creation back, with the workflow ids, after the workflow has started. A request
   made in between disappears. `CancellationStandsWithoutWriteBack` proves that the write-backs are the
   only cause: without Temporal and without a compose source requests stand. (A conclusion is never lost:
   `OneEndingIsAnnounced`.)
2. **A delivery that cannot recover** (`webhook_stuck`). If the start of a workflow fails, or the deployment
   fails before its outcome was recorded, the row stays and the target stays open. Every redelivery looks
   for a deployment that has not failed, finds none, inserts another one for the same delivery and target,
   and is refused by the unique index `deployments_webhook_delivery_target_idx`. `FailedTargetsAreLost`
   proves that this is for good: once no request has the good news still to record, the target is never
   recorded as completed, however often the delivery is repeated.

The others are properties of the modules that the code does not have. They are stated where their state is
and can be checked with the instance given here; no configuration is kept for them.

3. **A failed release** (`BuildSlots!HealthyRunNotAbandoned`; 2 builds, limit 1, lease 2, heartbeat 1,
   failing releases). The release of a build lease is only logged when it fails ("it will expire
   automatically"). Meanwhile the run goes on to launch the service; the next acquisition on the server finds
   the row expired and fails the deployment as `BUILD_LEASE_EXPIRED`. The same happens after a release that
   succeeds, but commits only after the row has expired: the acquisition has selected the row already, and
   fails whatever deployment it listed. `ReleasedRunsAreNotAbandoned` proves that these two are all: if
   releases succeed and commit in time, no deployment whose only run lives is failed. TLC refutes the
   conclusion without either hypothesis.
4. **The watchdog's second look** (`DeploymentLifecycle!WatchdogSparesFreshRows` and `WatchdogSparesBuilders`;
   the instance of `lifecycle_temporal`). The watchdog's update repeats the test of the status, but neither that
   of `updatedAt` nor that of the lease, which it has made in a SELECT before, without a lock. So a row whose
   heartbeat has come back is failed, and a slot can be granted between the SELECT and the UPDATE: a run that has
   a slot is failed as stuck. `BuildersStaySpared` proves what does hold: no run has a slot at the moment at
   which the watchdog finds no live lease, nor when an acquisition fails the deployment of an expired row.
   In the same way `OperatorMoves` and `DispatchFails` end a row under a run that builds; no source promises
   otherwise, and the run learns of it when its next transition is refused.
5. **Two deployments of a service** (`DeploymentClaims!ServiceSerialized`; the instance of `claims_temporal`).
   Two workflows claim in overlapping statements; each snapshot shows the other row queued.
   `SeparateClaimsSerializeServices` proves that the overlap is the only cause, for any mix of workflows and
   pollers, and `OnePollerSerializesServices` that a single poller cannot do it. For builds of one server the
   comparison of ages helps: `OrderedBuildsAreSerialized` proves that two of them are claimed together only
   if the older one became visible after the younger one.
6. **One more than the limit** (`DeploymentQueue!CreatedWithinLimit`; two uploads, one direct deployment).
   `createDeploymentRecord` reads the clock, then waits for the server row. A reservation that expires during
   the wait has been discounted for the deployment that held the lock before, and is consumed all the same.
   `OverrunsAreLate` is checked and proved: apart from an operator who dispatches a running row again, only
   a call whose reservation ran out while it waited makes the queue outgrow its limit.
7. **A deleted comment** (`ProviderFeedback`, seen in the instance of `feedback`). `docs/docs/deployments/compose.md`
   says that every state is published and one comment kept. When a user deletes the comment the upsert
   creates another, but a deployment that had recorded the old id then fails `assertStableExternalIdentity`:
   its transition, whose status has been published, becomes a dead letter, and those after it wait behind it.
8. **A cancelled deployment that is launched** (`DeploymentLifecycle!CancelledIsNotLaunched`; the instance of
   `lifecycle_temporal`, and the same with `Source = "dockerfile"`). It takes a second run. The first one has
   moved the row to `deploy` (a Dockerfile build when it got its slot, a compose project just before its start) and
   is about to launch; between the transition and the start nothing asks for the row again. The second run marks
   the row as `waiting`, the user cancels and is told "cancelled", since a waiting deployment does nothing,
   and the first run starts the containers. `LoneRunStopsWhenCancelled`, checked and proved for every source
   (`LoneRunStops`), says that this is the only way: beside such a launch there is another run that has got as
   far as marking the row.
9. **A restore that loses its success** (`ApprovalDispatch!ReportsStayTrue`; the instance of `approvals`, a trace of
   14 states). `markRestoreSucceeded` is inside the try block together with the events, audit entries and
   notifications that follow it (`worker/temporal/workflows/restore-workflow.ts:161-236`), and both it and
   `markRestoreFailed` update the row by its id alone (`restore-recording-activities.ts`). When an audit entry
   cannot be written the catch block turns "succeeded" into "failed", after the reconciliation may have copied
   the success; the dispatch then says "succeeded" for good of a restore that says "failed".
   `DeploymentsAreReportedTruly` proves that deployments have no such report.
10. **A restore that nobody ends** (`ApprovalDispatch!EveryApprovalIsReported`; the same instance, a trace of 13
   states). `resolveRestoreContext` is called before the try block: when it finds nothing to restore or throws, the
   workflow is over and the row still "queued". The execution timeout of an hour ends a workflow anywhere, and the
   row stays "running". The reconciliation then never finds an end, the dispatch stays "dispatched", and since it
   was submitted no operator can requeue it. `ApprovalSettles` is checked with exactly this exception
   (`Stranded`), which also covers a deployment whose workflow gave up before it could claim the row.

An approval may also be shown as failed although its operation runs: the answer of the workflow's start was
lost in the last attempt. The documentation lets an operator "retry a dispatch that never reached the worker",
which this one has reached; requeueing it is harmless, because it keeps its operation id
(`DispatchImplementsAction`). For deployments `DeploymentsAreReportedTruly` proves that this lost answer is the
only way to a wrong report: a success is one, and the failure of a dispatch that was recorded as submitted is that
of its deployment.

## Fairness

`Spec` has none; safety is checked and proved without it. The liveness runs use `LiveSpec`:

- *BuildSlots*: statements return and processes take their next step (weak fairness; crashes are
  separate actions without fairness). `LockServer` and `Tick` have strong fairness: PostgreSQL serves
  waiters for a row lock in turn, and time passes however often runs poll. The watchdog polls: it selects
  a row that nobody executes any more, which has gone silent, and its update follows. No fairness makes it
  select a row under a live run.
- *DeploymentLifecycle*: runs that do not crash advance; `Grant` has strong fairness, which
  `EveryRequestSettles` stands for; a row nobody touches goes silent and leases expire (strong, since
  they are disabled again and again, and only for a row whose runs are all gone); the watchdog lists such rows
  and finishes its passes. No fairness for users, operators,
  claims or aborts.
- *DeploymentClaims*: workflows and pollers try again, an UPDATE that keeps failing succeeds in the end
  unless the workflow gives up, runs end, active rows are concluded. Nothing makes sure that a deployment
  is dispatched: a process may die between the commit and the start of the workflow. `QueuedIsClaimed`
  therefore excepts deployments that nobody will claim, and builds behind them, and by that states
  exactly who is held up by whom.
- *ProviderFeedback*: monitors poll, and a processor that has not died works on until its call returns; the
  lease of one that died runs out. Nothing makes a call succeed: it is the number of attempts that ends it.
- *ApprovalDispatch*: monitors poll and work on, leases of those that died run out, the reconciliation runs in
  the same loop. A deployment's workflow claims its row or gives up, a running deployment ends
  (`ActiveDeploymentEnds`); a restore's current activity returns or an attempt of it fails, since every one of them
  has a timeout. Nothing makes an activity succeed. No fairness for users and operators.
- *WebhookRecovery*: the provider delivers again until it sees success, a request is worked on until it is
  answered, the lease of one that died runs out. The redelivery is what the ledger is made for; without it
  an interrupted delivery stays as it is, since no monitor looks at it.

## Proofs

8205 obligations, no assumption but those on constants: finiteness and disjointness of the sets, and

- `BuildSlots!TimingAssumption`: `MaxLag < Heartbeat < LeaseDuration`. The answer to a lease statement
  reaches the worker within a heartbeat interval (30 s). Without it the timer's safety margin is
  not one.
- `DeploymentQueue!TimingAssumption`: `Interval + 3 MaxWait < TTL`. The interval is a third of the TTL of
  one hour: calls may wait up to 13 minutes for the server row.
- `Timely`, in `OneIdentityEach` and `TransitionsInOrder` only: a live processor keeps its lease while it calls
  the provider (see ProviderFeedback above).

Some theorems state what the code does under a condition that the code does not enforce. Each is the positive side of a
[finding](#where-the-code-departs-from-what-is-said-of-it), and its condition is a formula of its own:
`ReleasesSucceed` and `ReleasesInTime` (with one run for each deployment), `OneClaimAtATime`, `InAgeOrder`
(without pollers), `OnePoller`, and no Temporal and no compose source. `LoneRunStopsWhenCancelled` has its
condition, that no other run has got as far as marking the row, within the property that TLC checks.

| theorem | argument |
|---|---|
| `BuildSlotsProofs!TypeCorrect`, `LiveLease` | `Inv` adds to the types: a run that has not been granted a slot owns no row; only a building run looks at answers; and `Margin`, the relation of timer and row: `ttl + lag >= LeaseDuration` until the timer is armed, `ttl + MaxLag >= watchdog + Heartbeat` afterwards. That a slot has a live lease is not inductive without it, because nothing in one state else says that the row outlives the timer. |
| `SlotsImplementSemaphore` | under `Inv`, the running builds are at most as many as the kept lease rows, and a new grant finds fewer of these than the limit; every other step leaves the set, or changes the limit, or stutters. |
| `BuildsAreNotAbandoned` | `SlotNotSeenExpired`: an acquisition selects expired rows under the server lock, where slots are granted, so no row of a slot is among those it fails; a lease error stands only on a failed row (`ExpiredIsFailed`), from which no build begins. |
| `BuildsHaveLeftTheQueue` | a run has marked its row `deploy` and looked at it again when its build begins; whoever writes the row under the build (operators, a failed dispatch, the watchdog, a cancellation) ends it or moves it to `deploy`, and only another run would put it back to `waiting`. |
| `OlderBuildsComeFirst` | a grant's position in the queue counts the older waiting builds; the row it adds is new, so position and kept rows together stay within the capacity. |
| `RunningBuildsAreBounded` | from the same two facts about grants: lowering the limit evicts nobody, but no grant leads beyond the largest limit. |
| `ReleasedRunsAreNotAbandoned` | `FinishedRow`: between the end of the build and its release the row of a run was not selected as expired; after the release it is gone. |
| `DeploymentLifecycleProofs!LifecycleTypeCorrect`, `LifecycleImplementsOutcome` | `RowEffect`: every step of every writer either leaves the row or makes one of the legal writes; with `Concluded` (terminal iff concluded) each is a step of `DeploymentOutcome`. |
| `AnswersStayTrue` | a conclusion never changes, and an answer is given in the step that makes it true. |
| `OneEndingIsAnnounced` | by `RowEffect` and `Concluded` an ending is announced in the step that concludes the row, and no step announces afterwards. |
| `DeploymentIsBuiltOnce`, `BuildersStaySpared` | `BuilderHoldsLease`: a run in the slot holds the deployment's lease, and it is live. The lease names one run; the watchdog goes on only if it sees no live one, and an acquisition fails the deployment only together with the deletion of an expired one. |
| `LoneRunStops` | while no other run has marked the row (`Alone`), a run that has begun has left `queued` behind (`Begun`), one that was given its slot has left `waiting` as well (`Acquired`), and one that is about to launch is not cancelled (`NotCancelled`): an immediate cancellation needs `queued` or `waiting`, and only another run's mark would bring that back. |
| `CancellationStandsWithoutWriteBack` | `NoWriteBack` (no dispatch, no persisting run) and `RequestKept`: nobody clears the request but the watchdog, which concludes the row in the same step. |
| `DeploymentClaimsProofs!ClaimsTypeCorrect`, `WithdrawnStaysIdle` | `ExecutedWasStarted`: who executes a row has seen it started, and a started row is never withdrawn. |
| `SeparateClaimsSerializeServices`, `OnePollerSerializesServices` | `SnapshotsAreUpToDate`: while one claim is under way nothing else becomes claimed, so a row that is free of conflicts in its snapshot still is. One poller is a case of it. |
| `OrderedBuildsAreSerialized` | `Aged`: no snapshot shows a build without the older ones; `SnapshotsAreSound`: what it shows as over is over. Hence `YoungerWaits`: a build is claimed only after the older ones of its service and server are over. |
| `PollersDoNotShare` | a poller's job is a started row, and only queued rows are taken. |
| `DeploymentQueueProofs!QueueTypeCorrect`, `NewcomersFit` | whatever expires for a later clock has expired for the state: `Live` is a subset of `LiveFor(c)` for every call, so whoever found room finds it in the state. |
| `QueueOverrunsAreLate` | step by step over what raises the occupancy: a call that counts as an occupant in its own clock's `LiveFor` but not in `Live` is late. |
| `RenewedPlacesStay` | a live reservation is live for every call, hence never purged; releases name the `expiresAt` of their own request. |
| `UploadsKeepPlaces` | `PlaceHeld`: while an upload is alone, its reservation has `TTL - MaxWait - Interval` ticks left beyond the time to its next heartbeat, less what its calls have waited. |
| `ApprovalDispatchProofs!ApprovalTypeCorrect`, `SubmissionsAreReal` | `Allowed`: a dispatch row, and an operation, exists only for an approved request; `Progress`: a monitor's step rests on the row or the workflow it has seen; `Recorded`: what a dispatch row says exists. What exists is never taken away (`Kept`), so it may be checked in one step and used in a later one, whoever holds the lease. |
| `DeploymentsAreReportedTruly` | `Reported`: who was submitted is in no monitor's hands, because a holder's row is claimable (`Recorded`), so only the reconciliation writes it afterwards; and a deployment that has ended stays as it ended. |
| `DecisionsStand` | the only write to a decided request is that of `EndReject`, whose condition is read in the same statement. |
| `DispatchImplementsAction` | all operations of a request have one id (`OneId`), and the engine starts one workflow for it. `Counted`: each execution has used up an attempt of its activity, or moved the workflow past it for good, so there are never more than `Attempts`. Only the rows of restores lose a success again (`Revoke`). |
| `WebhookRecoveryProofs!RecoveryTypeCorrect`, `CompletedTargetsRun` | `AllGrounded`: a request that is about to record "completed" has seen the deployment and its workflow, and these stay, so the record is true even if the target was handed over by another attempt. |
| `FailedTargetsAreLost` | `Lost` is kept by every step: a failed deployment is not recovered, a second one not inserted (`OneRow`), and only a recovered or inserted one is started or recorded as completed. |
| `RecoverySettlesOnce` | `OneRow`: by the unique index a target has at most one row; a closed delivery has no open target and no live lease, and every write asks for one. |
| `ProviderFeedbackProofs!FeedbackTypeCorrect`, `DeliveriesAreShown`, `RecordedIdsStay` | `Knows`: while the lease is a processor's own, its row is open and next in turn and the ids it was given are the recorded ones; what it names exists, and stays. Only the holder records, so what is recorded is true and replaces nothing. |
| `OneIdentityEach`, `TransitionsInOrder` (for `Timely`) | `Alone`: who calls the provider holds the lease, so what it did not find is still missing when it creates it (`Unmade`; `NoneToCreate` for the comment, in `PreviewCommentProofs`). A status is shown only after the rows before it are closed (`Placed`), hence in order. |
| `EachDuplicateCostsAFault`, `OneIdentityUntilAFault` (without `Timely`) | `AllPaid`: what exists, and the strays that call the provider without the lease and may each make one more, are together at most one more than the faults; while the holder is about to create, there is room for one (`Paid`, `Room`). A stray has lost its lease at work, which is a fault. |

Only model-checked: liveness (`EveryRequestSettles`, `ActiveDeploymentEnds`, `QueuedIsClaimed`,
`EveryTransitionSettles`, `ApprovalSettles`, `AttemptsEnd`), which needs fairness and ENABLED, both out of
the prover's reach; and the violations above, where the trace is the proof. Every other property of a passing run has a
theorem. Where a theorem states something no run checks, TLC was asked first, on the instance of its module's run.

## What is not modelled

- Contents: names, images, compose documents, logs, audit entries, permissions. A guard that depends
  on them (an unknown project, a foreign team) ends a request before it changes anything.
- Clock skew between application and database; a clock that jumps.
- Failures of the database itself other than a statement that throws, a transaction that rolls back and
  an answer that is lost after the commit.
- Time spent persisting an upload's artifacts: nothing renews the reservation then, `UploadKeepsPlace`
  ends with the stream. A creation that comes too late is refused.
- Reservations for a deployment that exists already: an upload that is sent again after its deployment
  was created reserves a second place, which is not consumed and counts until it expires.
  The model shows it; it is bounded by the TTL and contradicts nothing that is documented.
- The provider's side beyond what the adapter uses: pages of more than 100 results, the ids of statuses. The
  adapter for GitLab, and providers without an adapter, whose rows are deferred.
- Pull-request deliveries, which are claimed once and have no attempt lease; rows of the ledger's earlier
  format; the statuses "rejected", which nobody writes. How a branch preview's approval is answered.
- Development tasks and the metrics outbox. Their claims (conditional updates, heartbeats, a watchdog) and
  their outbox (leases, attempts, dead letters) repeat patterns that `DeploymentClaims`,
  `DeploymentLifecycle` and `ProviderFeedback` check where they are hardest.
- The components listed as not modelled in `PROJECT.json`, for the reasons given there.

## Plan

Done, in this order: `BuildSlots` with `BuildSemaphore`; `DeploymentLifecycle` with `DeploymentOutcome`;
`DeploymentClaims`; `DeploymentQueue`; their proofs; `ProviderFeedback` with `FeedbackStream`;
`ApprovalDispatch` with `ApprovedAction`; `WebhookRecovery` with `PushDelivery`; proofs of the last three.

Then theorems under the conditions of the findings, so that each finding has its boundary.

Next, most important first:

1. The clock of `DeploymentQueue` split into the application's and the database's, and the margin that
   `UploadsKeepPlaces` leaves for their difference.
2. A refinement of `DeploymentClaims` to an abstract queue per service, under the condition of
   `SeparateClaimsSerializeServices`.
3. Development tasks and the metrics outbox, as far as they differ from what is modelled.
