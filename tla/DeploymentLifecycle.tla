-------------------------- MODULE DeploymentLifecycle --------------------------
(***************************************************************************)
(* The life of one deployment row, from "queued" to its conclusion.         *)
(*                                                                         *)
(* Many writers share the row and hold no lock across their statements: the *)
(* runs that execute the deployment, the user who cancels it, the process   *)
(* that hands it to Temporal, an operator, the deployment watchdog, and      *)
(* build-slot acquisitions that find its lease expired.  Status updates are  *)
(* conditional UPDATEs; the JSON snapshot, which holds the cancellation      *)
(* request, is read, changed in memory and written back whole.              *)
(*                                                                         *)
(* Of the snapshot only cancelRequestedAt is kept, of updatedAt only         *)
(* whether it is older than the watchdog's timeout.                         *)
(***************************************************************************)
EXTENDS Naturals, FiniteSets

CONSTANTS
  Run,        \* executions of runDeployment on this deployment
  NoRun,      \* the owner of a build lease that does not exist
  User,       \* callers of cancelDeployment
  Source,     \* sourceType; nixpacks and buildpack behave like dockerfile
  Temporal    \* isTemporalEnabled()

ASSUME RunAssumption == NoRun \notin Run
ASSUME SourceAssumption == Source \in {"image", "dockerfile", "compose"}
ASSUME TemporalAssumption == Temporal \in BOOLEAN

VARIABLES
  status,           \* deployments.status
  conclusion,       \* deployments.conclusion
  intents,          \* transitions in the deployment's provider-feedback outbox
  silent,           \* updatedAt is older than the watchdog's timeout
  cancelRequested,  \* configSnapshot.cancelRequestedAt is set
  lease,            \* owner of the build lease row
  leaseLive,        \* the row's expiresAt lies ahead
  dispatch,         \* where dispatchDeploymentExecution is
  pass,             \* how far the watchdog's pass is with this row
  candidate,        \* cancelRequested in the row the pass has read
  request,          \* what each cancelDeployment call has read or answered
  phase,            \* where each run is in runDeployment, or how it ended
  sawWaiting,       \* the row a run started from was waiting
  sawCancel         \* cancelRequested in the snapshot a run will write back

rowVars    == <<status, conclusion, intents, silent>>
leaseVars  == <<lease, leaseLive>>
watchVars  == <<pass, candidate>>
runVars    == <<phase, sawWaiting, sawCancel>>
vars == <<rowVars, cancelRequested, leaseVars, dispatch, watchVars, request, runVars>>

Terminal  == {"completed", "failed"}
Active    == {"waiting", "prepare", "deploy"}
Status    == {"queued"} \cup Active \cup Terminal
Final     == {"completed", "failed", "cancelled"}
Stage     == {"queued"} \cup Active
Building  == {"granted", "recheck", "building"}
\* Phases with the progress heartbeat running, inside runDeployment's try block.
Executing == Building \cup
             {"started", "preparing", "prepared", "fetching", "persisting", "fetched",
              "planned", "remarking", "asking", "cleared", "built", "launching",
              "starting", "launched", "checked"}
Live      == Executing \cup {"failing", "cancelling"}
Phase     == Live \cup {"idle", "claimed", "succeeded", "failed", "cancelled", "crashed"}

TypeOK ==
  /\ status \in Status
  /\ conclusion \in {"none", "succeeded", "failed", "cancelled"}
  /\ intents \subseteq Stage \cup Final
  /\ silent \in BOOLEAN
  /\ cancelRequested \in BOOLEAN
  /\ lease \in Run \cup {NoRun}
  /\ leaseLive \in BOOLEAN
  /\ dispatch \in {"starting", "recording", "over"}
  /\ pass \in {"none", "listed", "read", "unleased"}
  /\ candidate \in BOOLEAN
  /\ request \in [User -> {"none", "read queued", "read running",
                           "cancelled", "requested", "refused"}]
  /\ phase \in [Run -> Phase]
  /\ sawWaiting \in [Run -> BOOLEAN]
  /\ sawCancel \in [Run -> BOOLEAN]

Init ==
  /\ status = "queued"
  /\ conclusion = "none"
  /\ intents = {"queued"}
  /\ silent = FALSE
  /\ cancelRequested = FALSE
  /\ lease = NoRun
  /\ leaseLive = FALSE
  /\ dispatch = IF Temporal THEN "starting" ELSE "over"
  /\ pass = "none"
  /\ candidate = FALSE
  /\ request = [u \in User |-> "none"]
  /\ phase = [r \in Run |-> "idle"]
  /\ sawWaiting = [r \in Run |-> FALSE]
  /\ sawCancel = [r \in Run |-> FALSE]

-------------------------------------------------------------------------------
(* Row updates.  Each commits together with its feedback intent.            *)

Write(s, c) ==
  /\ status' = s
  /\ conclusion' = c
  /\ intents' = intents \cup {IF c = "cancelled" THEN c ELSE s}
  /\ silent' = FALSE

\* transitionDeploymentWithFeedback: a terminal row is left alone.  Mutated
\* forms stand before the definition they replace: here a lost status filter.
AcceptsAlways == TRUE
Accepts == status \notin Terminal
Transition(s, c) == IF Accepts THEN Write(s, c) ELSE UNCHANGED rowVars

\* The guarded updates of the build-slot code.
Mark(s) == IF status \in Active THEN Write(s, "none") ELSE UNCHANGED rowVars

LeaseIsLive == lease # NoRun /\ leaseLive
Goto(r, from, to) == phase[r] = from /\ phase' = [phase EXCEPT ![r] = to]

-------------------------------------------------------------------------------
(* A user cancels.                                                          *)

\* cancelDeployment reads the row and may answer at once.
ReadForCancel(u) ==
  /\ request[u] = "none"
  /\ request' = [request EXCEPT ![u] =
       IF status \in Terminal THEN "refused"
       ELSE IF cancelRequested THEN "requested"
       ELSE IF status \in {"queued", "waiting"} THEN "read queued" ELSE "read running"]
  /\ UNCHANGED <<rowVars, cancelRequested, leaseVars, dispatch, watchVars, runVars>>

\* A mutant of the next step, whose answer ignores whether a row was updated.
CancelUnchecked(u) ==
  /\ request[u] = "read queued"
  /\ IF status \in {"queued", "waiting"}
     THEN Write("failed", "cancelled") /\ cancelRequested' = TRUE
     ELSE UNCHANGED <<rowVars, cancelRequested>>
  /\ request' = [request EXCEPT ![u] = "cancelled"]
  /\ UNCHANGED <<leaseVars, dispatch, watchVars, runVars>>

\* A row read as queued or waiting is failed if it still is.
CancelQueued(u) ==
  /\ request[u] = "read queued"
  /\ IF status \in {"queued", "waiting"}
     THEN /\ Write("failed", "cancelled")
          /\ cancelRequested' = TRUE
          /\ request' = [request EXCEPT ![u] = "cancelled"]
     ELSE /\ request' = [request EXCEPT ![u] = "refused"]
          /\ UNCHANGED <<rowVars, cancelRequested>>
  /\ UNCHANGED <<leaseVars, dispatch, watchVars, runVars>>

\* A row read as running gets the request written, whatever it is by now.
RequestCancellation(u) ==
  /\ request[u] = "read running"
  /\ request' = [request EXCEPT ![u] = "requested"]
  /\ cancelRequested' = TRUE
  /\ silent' = FALSE
  /\ UNCHANGED <<status, conclusion, intents, leaseVars, dispatch, watchVars, runVars>>

-------------------------------------------------------------------------------
(* The hand-over to Temporal, which holds the snapshot of the new row.      *)

StartWorkflow ==
  /\ dispatch = "starting"
  /\ dispatch' = "recording"
  /\ UNCHANGED <<rowVars, cancelRequested, leaseVars, watchVars, request, runVars>>

RecordWorkflow ==
  /\ dispatch = "recording"
  /\ dispatch' = "over"
  /\ cancelRequested' = FALSE
  /\ silent' = FALSE
  /\ UNCHANGED <<status, conclusion, intents, leaseVars, watchVars, request, runVars>>

\* Either statement throws: the deployment is failed, unless the caller keeps
\* the dispatch for a retry or the process dies.
DispatchFails ==
  /\ dispatch # "over"
  /\ dispatch' = "over"
  /\ Transition("failed", "failed") \/ UNCHANGED rowVars
  /\ UNCHANGED <<cancelRequested, leaseVars, watchVars, request, runVars>>

-------------------------------------------------------------------------------
(* An operator moves the job by hand.                                       *)

OperatorMoves ==
  /\ Accepts
  /\ Write("deploy", "none") \/ Write("completed", "succeeded") \/ Write("failed", "failed")
  /\ UNCHANGED <<cancelRequested, leaseVars, dispatch, watchVars, request, runVars>>

-------------------------------------------------------------------------------
(* A run begins.                                                            *)

\* The mutant writes the health status shown to users, which is no row status of a run.
ClaimedAsRunning == "running"
ClaimedStatus == IF Source = "image" THEN "prepare" ELSE "waiting"

Claim(r) ==
  /\ status = "queued"
  /\ Goto(r, "idle", "claimed")
  /\ Write(ClaimedStatus, "none")
  /\ sawWaiting' = [sawWaiting EXCEPT ![r] = ClaimedStatus = "waiting"]
  /\ UNCHANGED <<cancelRequested, leaseVars, dispatch, watchVars, request, sawCancel>>

\* A workflow's claim also succeeds on a row that is already active.
ClaimAgain(r) ==
  /\ Temporal /\ dispatch # "starting"
  /\ status \in Active
  /\ Goto(r, "idle", "claimed")
  /\ sawWaiting' = [sawWaiting EXCEPT ![r] = status = "waiting"]
  /\ UNCHANGED <<rowVars, cancelRequested, leaseVars, dispatch, watchVars, request, sawCancel>>

\* runDeployment is entered; a Temporal activity reads the row again.
Start(r) ==
  /\ Goto(r, "claimed", "started")
  /\ \/ UNCHANGED sawWaiting
     \/ Temporal /\ sawWaiting' = [sawWaiting EXCEPT ![r] = status = "waiting"]
  /\ UNCHANGED <<rowVars, cancelRequested, leaseVars, dispatch, watchVars, request, sawCancel>>

\* throwIfDeploymentCancellationRequested, and where a run goes on from it.
AfterCheck(r) ==
  [started  |-> IF sawWaiting[r] THEN "prepared" ELSE "preparing",
   prepared |-> "fetching", fetched |-> "planned",
   built    |-> IF Source = "dockerfile" THEN "starting" ELSE "launching",
   launched |-> "checked"]

Check(r) ==
  /\ phase[r] \in DOMAIN AfterCheck(r)
  /\ phase' = [phase EXCEPT ![r] = IF cancelRequested THEN "cancelling"
                                   ELSE AfterCheck(r)[phase[r]]]
  /\ sawWaiting' = [sawWaiting EXCEPT ![r] = FALSE]
  /\ UNCHANGED <<rowVars, cancelRequested, leaseVars, dispatch, watchVars, request, sawCancel>>

\* A mutant of the next step, which goes on whether or not a row was updated.
RequireUnchecked(r, s, c, from, to) ==
  /\ Goto(r, from, to)
  /\ Transition(s, c)
  /\ UNCHANGED <<cancelRequested, leaseVars, dispatch, watchVars, request,
                 sawWaiting, sawCancel>>

\* A transition that must be accepted for the run to go on.
Require(r, s, c, from, to) ==
  /\ Goto(r, from, IF Accepts THEN to ELSE "failing")
  /\ Transition(s, c)
  /\ UNCHANGED <<cancelRequested, leaseVars, dispatch, watchVars, request,
                 sawWaiting, sawCancel>>

Prepare(r) == Require(r, "prepare", "none", "preparing", "prepared")

-------------------------------------------------------------------------------
(* Fetching the source.                                                     *)

\* A compose deployment persists its materialized environment: it reads the
\* snapshot and, in another statement, writes it back with its own fields.
Fetch(r) ==
  /\ Goto(r, "fetching", IF Source = "compose" THEN "persisting" ELSE "fetched")
  /\ sawCancel' = [sawCancel EXCEPT ![r] = Source = "compose" /\ cancelRequested]
  /\ UNCHANGED <<rowVars, cancelRequested, leaseVars, dispatch, watchVars, request, sawWaiting>>

PersistComposeEnv(r) ==
  /\ Goto(r, "persisting", "fetched")
  /\ cancelRequested' = sawCancel[r]
  /\ sawCancel' = [sawCancel EXCEPT ![r] = FALSE]
  /\ silent' = FALSE
  /\ UNCHANGED <<status, conclusion, intents, leaseVars, dispatch, watchVars, request,
                 sawWaiting>>

-------------------------------------------------------------------------------
(* Building, seen from the row; BuildSlots decides who is given a slot.     *)

MarkWaiting(r) ==
  /\ Source # "image"
  /\ Goto(r, "planned", "asking") \/ Goto(r, "remarking", "asking")
  /\ Mark("waiting")
  /\ UNCHANGED <<cancelRequested, leaseVars, dispatch, watchVars, request,
                 sawWaiting, sawCancel>>

\* The head of the waiting loop also stops for a row that is terminal.
CheckWaiting(r) ==
  /\ phase[r] = "asking"
  /\ phase' = [phase EXCEPT ![r] = IF cancelRequested THEN "cancelling"
                                   ELSE IF status \in Terminal THEN "failing" ELSE "cleared"]
  /\ UNCHANGED <<rowVars, cancelRequested, leaseVars, dispatch, watchVars, request,
                 sawWaiting, sawCancel>>

\* tryAcquireDeploymentBuildLease gives the run a slot; an expired row of this
\* deployment is replaced, a live one of another run keeps it waiting.
Grant(r) ==
  /\ Goto(r, "cleared", "granted")
  /\ ~LeaseIsLive
  /\ lease' = r
  /\ leaseLive' = TRUE
  /\ UNCHANGED <<rowVars, cancelRequested, dispatch, watchVars, request,
                 sawWaiting, sawCancel>>

Deny(r) ==
  /\ Goto(r, "cleared", "asking") \/ Goto(r, "cleared", "remarking")
  /\ UNCHANGED <<rowVars, cancelRequested, leaseVars, dispatch, watchVars, request,
                 sawWaiting, sawCancel>>

MarkAcquired(r) ==
  /\ Goto(r, "granted", "recheck")
  /\ Mark("deploy")
  /\ UNCHANGED <<cancelRequested, leaseVars, dispatch, watchVars, request,
                 sawWaiting, sawCancel>>

Release(r) ==
  IF lease = r THEN lease' = NoRun /\ leaseLive' = FALSE ELSE UNCHANGED leaseVars

\* A cancellation leaves the lease row behind, a terminal row releases it.
Recheck(r) ==
  /\ \/ cancelRequested /\ Goto(r, "recheck", "cancelling") /\ UNCHANGED leaseVars
     \/ /\ ~cancelRequested /\ status \in Terminal
        /\ Goto(r, "recheck", "failing")
        /\ Release(r)
     \/ /\ ~cancelRequested /\ status \notin Terminal
        /\ Goto(r, "recheck", "building")
        /\ UNCHANGED leaseVars
  /\ UNCHANGED <<rowVars, cancelRequested, dispatch, watchVars, request,
                 sawWaiting, sawCancel>>

\* The build returns; a release that fails leaves the row to expire.
FinishBuild(r) ==
  /\ Goto(r, "building", "built")
  /\ Release(r) \/ UNCHANGED leaseVars
  /\ UNCHANGED <<rowVars, cancelRequested, dispatch, watchVars, request,
                 sawWaiting, sawCancel>>

-------------------------------------------------------------------------------
(* Starting the service, and the end of a run.                              *)

\* Images, and compose deployments whether or not they built something, move to
\* deploy first; a Dockerfile build did so when it was given its slot.
MoveToDeploy(r) ==
  \/ Source # "dockerfile" /\ Require(r, "deploy", "none", "planned", "starting")
  \/ Source = "compose" /\ Require(r, "deploy", "none", "launching", "starting")

\* Docker is told to start the service, after statements that ask for nothing.
Launch(r) ==
  /\ Goto(r, "starting", "launched")
  /\ UNCHANGED <<rowVars, cancelRequested, leaseVars, dispatch, watchVars, request,
                 sawWaiting, sawCancel>>

Complete(r) == Require(r, "completed", "succeeded", "checked", "succeeded")

\* A statement or a Docker command inside the try block throws.
StepFails(r) ==
  /\ phase[r] \in Executing
  /\ phase' = [phase EXCEPT ![r] = "failing"]
  /\ (phase[r] = "building" /\ Release(r)) \/ UNCHANGED leaseVars
  /\ sawWaiting' = [sawWaiting EXCEPT ![r] = FALSE]
  /\ sawCancel' = [sawCancel EXCEPT ![r] = FALSE]
  /\ UNCHANGED <<rowVars, cancelRequested, dispatch, watchVars, request>>

\* The workflow engine aborts the activity, which then ends like a cancelled one.
EngineAborts(r) ==
  /\ Temporal
  /\ phase[r] \in Executing
  /\ phase' = [phase EXCEPT ![r] = "cancelling"]
  /\ (phase[r] = "building" /\ Release(r)) \/ UNCHANGED leaseVars
  /\ sawWaiting' = [sawWaiting EXCEPT ![r] = FALSE]
  /\ sawCancel' = [sawCancel EXCEPT ![r] = FALSE]
  /\ UNCHANGED <<rowVars, cancelRequested, dispatch, watchVars, request>>

\* The catch block; its own transition may be rejected as well.
Fail(r) ==
  /\ Goto(r, "failing", "failed")
  /\ Transition("failed", "failed")
  /\ UNCHANGED <<cancelRequested, leaseVars, dispatch, watchVars, request,
                 sawWaiting, sawCancel>>

ConcludeCancelled(r) ==
  /\ Goto(r, "cancelling", IF Accepts THEN "cancelled" ELSE "failed")
  /\ Transition("failed", "cancelled")
  /\ UNCHANGED <<cancelRequested, leaseVars, dispatch, watchVars, request,
                 sawWaiting, sawCancel>>

\* The process dies, or the run throws before its try block or in its catch
\* block: nobody concludes the row.
Crash(r) ==
  /\ phase[r] \in Live \cup {"claimed"}
  /\ phase' = [phase EXCEPT ![r] = "crashed"]
  /\ sawWaiting' = [sawWaiting EXCEPT ![r] = FALSE]
  /\ sawCancel' = [sawCancel EXCEPT ![r] = FALSE]
  /\ UNCHANGED <<rowVars, cancelRequested, leaseVars, dispatch, watchVars, request>>

-------------------------------------------------------------------------------
(* Heartbeats, and those who clean up after a run.                          *)

Touch ==
  /\ \E r \in Run : phase[r] \in Live
  /\ silent
  /\ silent' = FALSE
  /\ UNCHANGED <<status, conclusion, intents, cancelRequested, leaseVars, dispatch,
                 watchVars, request, runVars>>

\* The row gets older than the timeout.  A live run touches it every 30 s, but a
\* touch that fails is only logged, so a live run may fall silent as well.
GoSilent ==
  /\ status \in Active
  /\ ~silent
  /\ silent' = TRUE
  /\ UNCHANGED <<status, conclusion, intents, cancelRequested, leaseVars, dispatch,
                 watchVars, request, runVars>>

\* A builder renews its row.
ExpireLease ==
  /\ LeaseIsLive
  /\ phase[lease] \notin Building
  /\ leaseLive' = FALSE
  /\ UNCHANGED <<rowVars, cancelRequested, lease, dispatch, watchVars, request, runVars>>

\* Another deployment's acquisition throws out the expired row and fails this
\* deployment as abandoned.
FailAbandoned ==
  /\ lease # NoRun /\ ~leaseLive
  /\ lease' = NoRun
  /\ IF status \in Active THEN Write("failed", "failed") ELSE UNCHANGED rowVars
  /\ UNCHANGED <<cancelRequested, leaseLive, dispatch, watchVars, request, runVars>>

\* The statuses the watchdog looks at; the mutant forgets the waiting rows.
WatchedWithoutWaiting == {"prepare", "deploy"}
Watched == Active

\* A pass lists silent rows without a live lease ...
WatchdogList ==
  /\ pass = "none"
  /\ status \in Watched
  /\ silent /\ ~LeaseIsLive
  /\ pass' = "listed"
  /\ UNCHANGED <<rowVars, cancelRequested, leaseVars, dispatch, candidate, request, runVars>>

\* ... reads each of them whole ...
WatchdogRead ==
  /\ pass = "listed"
  /\ pass' = IF status \in Watched THEN "read" ELSE "none"
  /\ candidate' = (status \in Watched /\ cancelRequested)
  /\ UNCHANGED <<rowVars, cancelRequested, leaseVars, dispatch, request, runVars>>

\* A mutant that takes the list's word for the lease.
NotAskedAgain == TRUE
NoLiveBuildLease == ~LeaseIsLive

\* ... looks for its lease again, without a lock.  It compares with the clock of
\* the list, and so goes on less often than here, where a lease may run out
\* under way ...
WatchdogCheck ==
  /\ pass = "read"
  /\ \/ NoLiveBuildLease /\ pass' = "unleased" /\ UNCHANGED candidate
     \/ ~NoLiveBuildLease /\ pass' = "none" /\ candidate' = FALSE
  /\ UNCHANGED <<rowVars, cancelRequested, leaseVars, dispatch, request, runVars>>

\* ... and fails it, asking for its status alone, and writes the snapshot it has
\* read back with its diagnosis.
WatchdogMark ==
  /\ pass = "unleased"
  /\ pass' = "none" /\ candidate' = FALSE
  /\ IF status \in Watched
     THEN Write("failed", "failed") /\ cancelRequested' = candidate
     ELSE UNCHANGED <<rowVars, cancelRequested>>
  /\ UNCHANGED <<leaseVars, dispatch, request, runVars>>

-------------------------------------------------------------------------------
UserStep(u) == ReadForCancel(u) \/ CancelQueued(u) \/ RequestCancellation(u)

\* What a run does while nothing goes wrong.
Advance(r) ==
  \/ Start(r) \/ Check(r) \/ Prepare(r) \/ Fetch(r) \/ PersistComposeEnv(r)
  \/ MarkWaiting(r) \/ CheckWaiting(r) \/ Deny(r) \/ MarkAcquired(r) \/ Recheck(r)
  \/ FinishBuild(r) \/ MoveToDeploy(r) \/ Launch(r) \/ Complete(r) \/ Fail(r) \/ ConcludeCancelled(r)

RunStep(r) ==
  \/ Claim(r) \/ ClaimAgain(r) \/ Advance(r) \/ Grant(r)
  \/ StepFails(r) \/ EngineAborts(r) \/ Crash(r)

OtherStep ==
  \/ StartWorkflow \/ RecordWorkflow \/ DispatchFails \/ OperatorMoves
  \/ Touch \/ GoSilent \/ ExpireLease \/ FailAbandoned
  \/ WatchdogList \/ WatchdogRead \/ WatchdogCheck \/ WatchdogMark

Next == (\E u \in User : UserStep(u)) \/ (\E r \in Run : RunStep(r)) \/ OtherStep

Spec == Init /\ [][Next]_vars

Deserted == \A r \in Run : phase[r] \notin Live

\* Fairness: runs that do not crash keep executing and are given a slot in the
\* end (EveryRequestSettles of BuildSlots), leases run out, the watchdog polls,
\* and neither users nor operators refresh a row for ever.
LiveSpec ==
  /\ Spec
  /\ \A r \in Run : WF_vars(Advance(r)) /\ SF_vars(Grant(r))
  /\ SF_vars(Deserted /\ GoSilent) /\ SF_vars(ExpireLease)
  /\ SF_vars(WatchdogList) /\ WF_vars(WatchdogRead \/ WatchdogCheck \/ WatchdogMark)

-------------------------------------------------------------------------------
(* Properties.                                                              *)

\* The record keeps its promise to those who watch it: whoever writes, in
\* whatever order, it concludes once and announces nothing afterwards.
Outcome == INSTANCE DeploymentOutcome
             WITH outcome <- conclusion, published <- intents
OutcomeIsFinal == Outcome!Spec

\* A user who was told "cancelled" sees the deployment end as cancelled, and a
\* run that reports an outcome to its engine reports the one the row has.
AnswersAreTrue ==
  /\ \A u \in User : request[u] = "cancelled" => conclusion = "cancelled"
  /\ \A r \in Run : phase[r] \in {"succeeded", "cancelled"} => conclusion = phase[r]

\* An accepted cancellation request stays with the deployment until it ends.
CancellationStands ==
  \A u \in User : request[u] = "requested" /\ status \in Active => cancelRequested

\* The watchdog fails only rows whose heartbeat is missing when it does. The code
\* does not keep this one: its update does not ask for updatedAt again.
WatchdogSparesFreshRows ==
  [][WatchdogMark /\ status' # status => silent]_vars

\* No run has a slot when the watchdog finds the deployment without a lease, or
\* when an acquisition that throws out expired leases fails the deployment.
BuildersAreSpared ==
  [][\/ WatchdogCheck /\ pass' = "unleased"
     \/ FailAbandoned /\ status' # status
     => \A r \in Run : phase[r] \notin Building]_vars

\* No run with a slot is failed by the watchdog.  The code does not keep this one:
\* a slot may be granted between the watchdog's last look and its update.
WatchdogSparesBuilders ==
  [][WatchdogMark /\ status' # status => \A r \in Run : phase[r] \notin Building]_vars

\* Once a user was told "cancelled", no run launches the service.  The code does
\* not keep this one: see the next (README, Findings).
CancelledIsNotLaunched ==
  [][\A r \in Run : Launch(r) => \A u \in User : request[u] # "cancelled"]_vars

\* Phases of a run that has not marked the row as waiting for a slot.
Unmarked == {"idle", "claimed", "started", "preparing", "prepared", "fetching",
             "persisting", "fetched", "planned"}

\* A run launches the service of a deployment that a user was told is cancelled
\* only beside another run, which has got far enough to put the row back among
\* the waiting ones after this run had moved it to deploy.
LoneRunStopsWhenCancelled ==
  [][\A r \in Run :
       Launch(r) /\ (\A q \in Run \ {r} : phase[q] \in Unmarked)
       => \A u \in User : request[u] # "cancelled"]_vars

\* An active deployment ends, although runs crash at any point and leave leases
\* behind.
ActiveDeploymentEnds == status \in Active ~> status \in Terminal
===============================================================================
