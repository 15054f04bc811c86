------------------------------ MODULE BuildSlots ------------------------------
(***************************************************************************)
(* Build slots of one target server.                                       *)
(*                                                                         *)
(* A deployment that builds an image runs its build inside                 *)
(* withDeploymentBuildLease: it waits for a slot, holds a lease row while   *)
(* it builds, renews the row, stops its own build before the row can       *)
(* expire, and deletes the row at the end.  Slots are handed out by         *)
(* tryAcquireDeploymentBuildLease, which first throws out expired rows and  *)
(* fails the deployments that let them expire.                             *)
(*                                                                         *)
(* Only acquisitions (and capacity changes) take the server row lock;      *)
(* renewals, releases and status updates interleave with them.             *)
(*                                                                         *)
(* Time is counted in ticks.  A row's expiresAt and a process's timer are   *)
(* kept as the number of ticks left, so no clock value is unbounded.        *)
(* Deployments are numbered in (created_at, id) order.                     *)
(***************************************************************************)
EXTENDS Naturals, FiniteSets

CONSTANTS
  Deployment,      \* image-building deployments of the server, numbered by age
  Run,             \* executions of withDeploymentBuildLease (owner tokens)
  RunOf,           \* the deployment each run executes
  NoRun,           \* a lease row that does not exist
  MaxCapacity,     \* the largest maxConcurrentBuilds an operator configures
  LeaseDuration,   \* DEFAULT_BUILD_LEASE_DURATION_MS, in ticks
  Heartbeat,       \* DEFAULT_BUILD_LEASE_HEARTBEAT_MS, in ticks
  MaxLag,          \* ticks from a lease statement to the timer armed after it
  JobStatus        \* statuses operators set, in this instance, on execution jobs

ASSUME DeploymentAssumption == IsFiniteSet(Deployment) /\ Deployment \subseteq Nat
ASSUME RunAssumption == RunOf \in [Run -> Deployment] /\ NoRun \notin Run
ASSUME JobAssumption == JobStatus \subseteq {"deploy", "completed", "failed"}
ASSUME CapacityAssumption == MaxCapacity \in Nat \ {0}
\* What the safety window of the local watchdog relies on: the answer to a
\* lease statement reaches the worker within one heartbeat interval.
ASSUME TimingAssumption ==
  /\ LeaseDuration \in Nat /\ Heartbeat \in Nat /\ MaxLag \in Nat
  /\ MaxLag < Heartbeat /\ Heartbeat < LeaseDuration

VARIABLES
  capacity,      \* servers.maxConcurrentBuilds
  status,        \* deployments.status
  error,         \* deployments.error: BUILD_LEASE_EXPIRED, or another or none
  cancel,        \* configSnapshot.cancelRequestedAt is set
  holder,        \* ownerToken of the deployment's lease row, or NoRun
  ttl,           \* ticks until the row's expiresAt, 0 once it has passed
  seenExpired,   \* expiredLeases of the acquisition that holds the server lock
  phase,         \* where each run is in withDeploymentBuildLease
  renewal,       \* the run's renewLease call
  lag,           \* ticks since the lease statement the run has not armed for
  watchdog,      \* ticks left of leaseExpiryWatchdog
  silent         \* the row whose liveBuildLease the deployment watchdog did not find

leaseVars == <<holder, ttl>>
rowVars   == <<status, error, cancel>>
runVars   == <<phase, renewal, lag, watchdog>>
vars == <<capacity, status, error, cancel, holder, ttl, seenExpired,
          phase, renewal, lag, watchdog, silent>>

Status    == {"queued", "waiting", "prepare", "deploy", "completed", "failed"}
Terminal  == {"completed", "failed"}
Buildable == {"waiting", "prepare", "deploy"}
Error     == {"lease expired", "other"}
Phase     == {"idle", "mark", "check", "acquire", "purging", "acquired", "recheck",
              "building", "aborted", "releasing", "built", "failing", "done", "crashed"}
\* A run asking for a slot, and a run that was given one.
Asking    == {"mark", "check", "acquire", "purging"}
Slotted   == {"acquired", "recheck", "building"}
Ended     == {"done", "crashed"}
Alive     == Phase \ (Ended \cup {"idle"})
Renewal   == {"none", "sent", "renewed", "refused"}

\* The local timer's length; the mutant leaves no margin before the expiry.
NoSafetyMargin == LeaseDuration
SafetyWindow == LeaseDuration - Heartbeat

TypeOK ==
  /\ capacity \in 1..MaxCapacity
  /\ status \in [Deployment -> Status]
  /\ error \in [Deployment -> Error]
  /\ cancel \in [Deployment -> BOOLEAN]
  /\ holder \in [Deployment -> Run \cup {NoRun}]
  /\ ttl \in [Deployment -> 0..LeaseDuration]
  /\ seenExpired \subseteq Deployment
  /\ phase \in [Run -> Phase]
  /\ renewal \in [Run -> Renewal]
  /\ lag \in [Run -> 0..MaxLag]
  /\ watchdog \in [Run -> 0..LeaseDuration]
  /\ silent \in SUBSET Deployment

Leased  == {d \in Deployment : holder[d] # NoRun}
\* lte(expiresAt, now); the mutant never finds a row expired.
NothingExpires == {}
Expired == {d \in Leased : ttl[d] = 0}
Holds(r) == holder[RunOf[r]] = r
Running == {r \in Run : phase[r] \in Slotted}

Init ==
  /\ capacity \in 1..MaxCapacity
  /\ status = [d \in Deployment |-> "queued"]
  /\ error = [d \in Deployment |-> "other"]
  /\ cancel = [d \in Deployment |-> FALSE]
  /\ holder = [d \in Deployment |-> NoRun]
  /\ ttl = [d \in Deployment |-> 0]
  /\ seenExpired = {}
  /\ phase = [r \in Run |-> "idle"]
  /\ renewal = [r \in Run |-> "none"]
  /\ lag = [r \in Run |-> 0]
  /\ watchdog = [r \in Run |-> 0]
  /\ silent = {}

-------------------------------------------------------------------------------
(* The deployment row, as others than the run write it.                     *)

\* A claimed build is counted as waiting.  Claims go oldest first, but pass over
\* a build whose service is busy: any order can happen here.
Claim(d) ==
  /\ status[d] = "queued"
  /\ status' = [status EXCEPT ![d] = "waiting"]
  /\ UNCHANGED <<capacity, error, cancel, leaseVars, seenExpired, runVars, silent>>

\* A user cancels: a queued or waiting row is failed at once, a running one
\* only has the request written into its snapshot (and so has one that was
\* running when cancelDeployment read it and is waiting by now).
Cancel(d) ==
  /\ status[d] \notin Terminal
  /\ ~cancel[d]
  /\ cancel' = [cancel EXCEPT ![d] = TRUE]
  /\ \/ /\ status[d] \in {"queued", "waiting"}
        /\ status' = [status EXCEPT ![d] = "failed"]
        /\ error' = [error EXCEPT ![d] = "other"]
     \/ status[d] # "queued" /\ UNCHANGED <<status, error>>
  /\ UNCHANGED <<capacity, leaseVars, seenExpired, runVars, silent>>

\* An operator dispatches, completes or fails an execution job: any row that has
\* not ended, whoever is executing it.  The error is left as it was.
OperatorTransition(d, s) ==
  /\ status[d] \notin Terminal
  /\ status' = [status EXCEPT ![d] = s]
  /\ UNCHANGED <<capacity, error, cancel, leaseVars, seenExpired, runVars, silent>>

\* The dispatch fails: the workflow was not started, or was and could not be
\* recorded on the row.
DispatchFails(d) ==
  /\ status[d] \notin Terminal
  /\ status' = [status EXCEPT ![d] = "failed"]
  /\ error' = [error EXCEPT ![d] = "other"]
  /\ UNCHANGED <<capacity, cancel, leaseVars, seenExpired, runVars, silent>>

\* The deployment watchdog looks for a live lease of an active row that has gone
\* silent.  When a row was written last is not kept here: any row may be silent.
WatchdogSelect(d) ==
  /\ status[d] \in Buildable
  /\ holder[d] # NoRun => ttl[d] = 0
  /\ silent = {} /\ silent' = {d}
  /\ UNCHANGED <<capacity, rowVars, leaseVars, seenExpired, runVars>>

\* Its update follows, and asks for the status alone.
WatchdogFail(d) ==
  /\ d \in silent
  /\ silent' = {}
  /\ IF status[d] \in Buildable
     THEN /\ status' = [status EXCEPT ![d] = "failed"]
          /\ error' = [error EXCEPT ![d] = "other"]
     ELSE UNCHANGED <<status, error>>
  /\ UNCHANGED <<capacity, cancel, leaseVars, seenExpired, runVars>>

\* An operator changes the limit, under the server row lock.
ConfigureServerCapacity(n) ==
  /\ \A r \in Run : phase[r] # "purging"
  /\ capacity' = n
  /\ UNCHANGED <<rowVars, leaseVars, seenExpired, runVars, silent>>

-------------------------------------------------------------------------------
(* Waiting for a slot.                                                      *)

Goto(r, from, to) == phase[r] = from /\ phase' = [phase EXCEPT ![r] = to]

\* runDeployment starts: a row that is not waiting is moved to prepare first,
\* and a terminal row rejects that.
Begin(r) ==
  LET d == RunOf[r] IN
  /\ status[d] # "queued"
  /\ IF status[d] \in Terminal
     THEN Goto(r, "idle", "done") /\ UNCHANGED status
     ELSE /\ Goto(r, "idle", "mark")
          /\ status' = IF status[d] = "waiting" THEN status
                       ELSE [status EXCEPT ![d] = "prepare"]
  /\ UNCHANGED <<capacity, error, cancel, leaseVars, seenExpired, renewal, lag, watchdog, silent>>

\* Mutated forms stand before the definition they replace: here a status
\* filter that has lost the waiting rows.
MarkPreparedOnly(d, s) ==
  status' = IF status[d] = "prepare" THEN [status EXCEPT ![d] = s] ELSE status

Mark(d, s) ==
  status' = IF status[d] \in Buildable THEN [status EXCEPT ![d] = s] ELSE status

MarkWaiting(r) ==
  /\ Goto(r, "mark", "check")
  /\ Mark(RunOf[r], "waiting")
  /\ UNCHANGED <<capacity, error, cancel, leaseVars, seenExpired, renewal, lag, watchdog, silent>>

\* isDeploymentActiveForBuild.
ActiveForBuild(d) == status[d] \notin Terminal

\* The checks at the head of the loop.
Check(r) ==
  /\ Goto(r, "check", IF cancel[RunOf[r]] \/ ~ActiveForBuild(RunOf[r])
                      THEN "failing" ELSE "acquire")
  /\ UNCHANGED <<capacity, rowVars, leaseVars, seenExpired, renewal, lag, watchdog, silent>>

\* The acquisition locks the server row and selects the expired leases.
LockServer(r) ==
  /\ \A q \in Run : phase[q] # "purging"
  /\ Goto(r, "acquire", "purging")
  /\ seenExpired' = Expired
  /\ UNCHANGED <<capacity, rowVars, leaseVars, renewal, lag, watchdog, silent>>

\* Leases left once the DELETE has evaluated the expiry again.
Kept == Leased \ Expired

\* Rows the acquisition fails: selected as expired, not its own deployment,
\* whether or not the DELETE still found them expired.
Abandoned(r) == {d \in seenExpired \ {RunOf[r]} : status[d] \in Buildable}

WaitingQueue(r) == {d \in Deployment \ Kept : status[d] = "waiting"} \ Abandoned(r)

\* A mutant that serves whoever asks first.
QueuePositionAnyOrder(r) == 1

QueuePosition(r) ==
  LET d == RunOf[r] IN
  1 + Cardinality(IF d \in WaitingQueue(r)
                  THEN {e \in WaitingQueue(r) : e < d} ELSE WaitingQueue(r))

\* A mutant that forgets the leases already given.
AvailableSlotsOfIdleServer == capacity

AvailableSlots == IF Cardinality(Kept) < capacity THEN capacity - Cardinality(Kept) ELSE 0

\* A kept row of the run itself is renewed; one of another run keeps it waiting.
GrantedToAnyOwner(r) == RunOf[r] \in Kept \/ QueuePosition(r) <= AvailableSlots

Granted(r) ==
  IF RunOf[r] \in Kept THEN Holds(r) ELSE QueuePosition(r) <= AvailableSlots

FailAbandoned(r) ==
  /\ status' = [d \in Deployment |-> IF d \in Abandoned(r) THEN "failed" ELSE status[d]]
  /\ error' = [d \in Deployment |-> IF d \in Abandoned(r) THEN "lease expired" ELSE error[d]]

\* A mutant that extends the old expiry instead of starting from the clock.
ExtendedExpiry(d) == ttl[d] + LeaseDuration
NewExpiry(d) == LeaseDuration

\* The rest of the transaction: the DELETE, the update of the abandoned
\* deployments, and the decision.  A waiting run tries again, after renewing
\* its waiting mark when that is due.
Decide(r) ==
  /\ phase[r] = "purging"
  /\ FailAbandoned(r)
  /\ seenExpired' = {}
  /\ \/ /\ Granted(r)
        /\ holder' = [d \in Deployment |-> IF d = RunOf[r] THEN r
                                           ELSE IF d \in Expired THEN NoRun ELSE holder[d]]
        /\ ttl' = [ttl EXCEPT ![RunOf[r]] = NewExpiry(RunOf[r])]
        /\ phase' = [phase EXCEPT ![r] = "acquired"]
     \/ /\ ~Granted(r)
        /\ holder' = [d \in Deployment |-> IF d \in Expired THEN NoRun ELSE holder[d]]
        /\ \E next \in {"check", "mark"} : phase' = [phase EXCEPT ![r] = next]
        /\ UNCHANGED ttl
  /\ UNCHANGED <<capacity, cancel, renewal, lag, watchdog, silent>>

MarkAcquired(r) ==
  /\ Goto(r, "acquired", "recheck")
  /\ Mark(RunOf[r], "deploy")
  /\ UNCHANGED <<capacity, error, cancel, leaseVars, seenExpired, renewal, lag, watchdog, silent>>

\* releaseDeploymentBuildLease deletes the run's own row; the mutant deletes
\* the deployment's row whoever owns it.
DropAnyLease(r) == holder' = [holder EXCEPT ![RunOf[r]] = NoRun]
DropLease(r) == holder' = IF Holds(r) THEN [holder EXCEPT ![RunOf[r]] = NoRun] ELSE holder

\* After the grant: a cancellation throws and leaves the row behind, a
\* terminal deployment releases it, otherwise the timer is armed and the build
\* starts.
Recheck(r) ==
  LET d == RunOf[r] IN
  /\ lag' = [lag EXCEPT ![r] = 0]
  /\ \/ /\ cancel[d]
        /\ Goto(r, "recheck", "failing")
        /\ UNCHANGED <<holder, watchdog>>
     \/ /\ ~cancel[d] /\ ~ActiveForBuild(d)
        /\ Goto(r, "recheck", "failing")
        /\ DropLease(r)
        /\ UNCHANGED watchdog
     \/ /\ ~cancel[d] /\ ActiveForBuild(d)
        /\ Goto(r, "recheck", "building")
        /\ watchdog' = [watchdog EXCEPT ![r] = SafetyWindow]
        /\ UNCHANGED holder
  /\ UNCHANGED <<capacity, rowVars, ttl, seenExpired, renewal, silent>>

\* A statement of the wait throws, or its answer is lost: what has been
\* committed stays, an open acquisition rolls back.
StatementFails(r) ==
  /\ phase[r] \in {"mark", "check", "acquire", "purging", "acquired", "recheck"}
  /\ phase' = [phase EXCEPT ![r] = "failing"]
  /\ seenExpired' = IF phase[r] = "purging" THEN {} ELSE seenExpired
  /\ lag' = [lag EXCEPT ![r] = 0]
  /\ UNCHANGED <<capacity, rowVars, leaseVars, renewal, watchdog, silent>>

-------------------------------------------------------------------------------
(* Building.                                                                *)

\* The interval timer calls renewLease unless a call is outstanding.
SendRenewal(r) ==
  /\ phase[r] = "building"
  /\ renewal[r] = "none"
  /\ renewal' = [renewal EXCEPT ![r] = "sent"]
  /\ UNCHANGED <<capacity, rowVars, leaseVars, seenExpired, phase, lag, watchdog, silent>>

\* The renewal's transaction commits.  It asks for the owner token and not for
\* the expiry, and it may commit after the build, or the process, has ended.
Renew(r) ==
  /\ renewal[r] = "sent"
  /\ IF Holds(r)
     THEN ttl' = [ttl EXCEPT ![RunOf[r]] = NewExpiry(RunOf[r])]
     ELSE UNCHANGED ttl
  /\ renewal' = [renewal EXCEPT ![r] =
                   IF phase[r] # "building" THEN "none"
                   ELSE IF Holds(r) THEN "renewed" ELSE "refused"]
  /\ UNCHANGED <<capacity, rowVars, holder, seenExpired, phase, lag, watchdog, silent>>

\* The answer rearms the timer.
RenewalAnswered(r) ==
  /\ phase[r] = "building"
  /\ renewal[r] = "renewed"
  /\ renewal' = [renewal EXCEPT ![r] = "none"]
  /\ lag' = [lag EXCEPT ![r] = 0]
  /\ watchdog' = [watchdog EXCEPT ![r] = SafetyWindow]
  /\ UNCHANGED <<capacity, rowVars, leaseVars, seenExpired, phase, silent>>

\* The build leaves the callback: an outstanding statement stays outstanding,
\* an answer is no longer looked at.
StopBuilding(r, next) ==
  /\ Goto(r, "building", next)
  /\ renewal' = [renewal EXCEPT ![r] = IF @ = "sent" THEN "sent" ELSE "none"]
  /\ lag' = [lag EXCEPT ![r] = 0]
  /\ watchdog' = [watchdog EXCEPT ![r] = 0]

\* abortForLeaseLoss: the timer fires, the renewal is refused or it throws.
AbortForLeaseLoss(r) ==
  /\ watchdog[r] = 0 \/ renewal[r] \in {"sent", "refused"}
  /\ StopBuilding(r, "aborted")
  /\ UNCHANGED <<capacity, rowVars, leaseVars, seenExpired, silent>>

FinishBuild(r) ==
  /\ StopBuilding(r, "releasing")
  /\ UNCHANGED <<capacity, rowVars, leaseVars, seenExpired, silent>>

\* The finally block deletes the run's row; when the statement fails the row is
\* left to expire.  A build that lost its lease fails, another one may succeed.
Release(r) ==
  /\ \/ Goto(r, "aborted", "failing")
     \/ \E next \in {"built", "failing"} : Goto(r, "releasing", next)
  /\ \/ DropLease(r)
     \/ Holds(r) /\ UNCHANGED holder
  /\ UNCHANGED <<capacity, rowVars, ttl, seenExpired, renewal, lag, watchdog, silent>>

-------------------------------------------------------------------------------
(* The end of a run.                                                        *)

\* A terminal row rejects the run's last transition.
Conclude(r, from, s) ==
  LET d == RunOf[r] IN
  /\ Goto(r, from, "done")
  /\ IF status[d] \in Terminal THEN UNCHANGED <<status, error>>
     ELSE /\ status' = [status EXCEPT ![d] = s]
          /\ error' = IF s = "failed" THEN [error EXCEPT ![d] = "other"] ELSE error
  /\ UNCHANGED <<capacity, cancel, leaseVars, seenExpired, renewal, lag, watchdog, silent>>

Complete(r) == ~cancel[RunOf[r]] /\ Conclude(r, "built", "completed")
FailBuilt(r) == Conclude(r, "built", "failed")
Fail(r) == Conclude(r, "failing", "failed")

\* The worker process dies; a transaction it had open rolls back.
Crash(r) ==
  /\ phase[r] \in Alive
  /\ phase' = [phase EXCEPT ![r] = "crashed"]
  /\ seenExpired' = IF phase[r] = "purging" THEN {} ELSE seenExpired
  /\ renewal' = [renewal EXCEPT ![r] = IF @ = "sent" THEN "sent" ELSE "none"]
  /\ lag' = [lag EXCEPT ![r] = 0]
  /\ watchdog' = [watchdog EXCEPT ![r] = 0]
  /\ UNCHANGED <<capacity, rowVars, leaseVars, silent>>

-------------------------------------------------------------------------------
(* Time.                                                                    *)

\* Waiting for the timer to be armed after a lease statement.
Arming(r) ==
  \/ phase[r] \in {"acquired", "recheck"}
  \/ phase[r] = "building" /\ renewal[r] = "renewed"

\* A tick is long: a transaction fits in it, a due timer fires before it, and
\* the answer to a lease statement takes at most MaxLag of them.
Tick ==
  /\ silent = {}
  /\ \A r \in Run :
       /\ phase[r] # "purging"
       /\ phase[r] = "building" => watchdog[r] > 0
       /\ Arming(r) => lag[r] < MaxLag
  /\ ttl' = [d \in Deployment |-> IF ttl[d] > 0 THEN ttl[d] - 1 ELSE 0]
  /\ lag' = [r \in Run |-> IF Arming(r) THEN lag[r] + 1 ELSE lag[r]]
  /\ watchdog' = [r \in Run |-> IF phase[r] = "building" THEN watchdog[r] - 1
                                ELSE watchdog[r]]
  /\ UNCHANGED <<capacity, rowVars, holder, seenExpired, phase, renewal, silent>>

RowStep(d) ==
  \/ Claim(d) \/ Cancel(d) \/ DispatchFails(d) \/ WatchdogSelect(d) \/ WatchdogFail(d)
  \/ \E s \in JobStatus : OperatorTransition(d, s)

RunStep(r) ==
  \/ Begin(r) \/ MarkWaiting(r) \/ Check(r) \/ LockServer(r) \/ Decide(r)
  \/ MarkAcquired(r) \/ Recheck(r) \/ StatementFails(r)
  \/ SendRenewal(r) \/ Renew(r) \/ RenewalAnswered(r)
  \/ AbortForLeaseLoss(r) \/ FinishBuild(r) \/ Release(r)
  \/ Complete(r) \/ FailBuilt(r) \/ Fail(r) \/ Crash(r)

Next ==
  \/ \E d \in Deployment : RowStep(d)
  \/ \E r \in Run : RunStep(r)
  \/ \E n \in 1..MaxCapacity : ConfigureServerCapacity(n)
  \/ Tick

Spec == Init /\ [][Next]_vars

\* Nobody executes the deployment, so nobody writes its row any more.
Deserted(d) == \A r \in Run : RunOf[r] = d => phase[r] \notin Alive

\* Fairness: processes keep executing, statements are answered, builds end
\* (the deployment timeout ends those that hang), a queue of waiters on the
\* server row lock is served in turn, the watchdog polls and finds a deserted row
\* silent, and time passes however often runs poll.
RunFairness(r) ==
  /\ WF_vars(MarkWaiting(r)) /\ WF_vars(Check(r)) /\ SF_vars(LockServer(r))
  /\ WF_vars(Decide(r)) /\ WF_vars(MarkAcquired(r)) /\ WF_vars(Recheck(r))
  /\ WF_vars(Renew(r)) /\ WF_vars(RenewalAnswered(r))
  /\ WF_vars(AbortForLeaseLoss(r) \/ FinishBuild(r)) /\ WF_vars(Release(r))
  /\ WF_vars(Complete(r) \/ FailBuilt(r)) /\ WF_vars(Fail(r))

LiveSpec ==
  /\ Spec
  /\ SF_vars(Tick)
  /\ \A r \in Run : RunFairness(r)
  /\ \A d \in Deployment : WF_vars(Deserted(d) /\ WatchdogSelect(d)) /\ WF_vars(WatchdogFail(d))

-------------------------------------------------------------------------------
(* Properties.                                                              *)

\* Whoever was given a slot still owns an unexpired lease row: the local timer
\* stops every build before the row it relies on can be thrown out.
SlotHasLiveLease == \A r \in Running : Holds(r) /\ ttl[RunOf[r]] > 0

\* A build has left the queue for good: under the only run of a deployment its row
\* is a running or an ended one, which no poller claims and no waiter counts.
BuildingIsNotWaiting ==
  \A r \in Run :
    /\ phase[r] = "building"
    /\ \A q \in Run : RunOf[q] = RunOf[r] => q = r
    => status[RunOf[r]] \in Terminal \cup {"deploy"}

\* A run that keeps executing after its build is not failed as abandoned either.
\* The code does not keep this one: a release that fails leaves the row to expire
\* under the run (README, Findings).
HealthyRunNotAbandoned ==
  \A r \in Run : phase[r] \in {"building", "built"} => error[RunOf[r]] # "lease expired"

\* No build is ever failed for an expired lease while it is building.
HealthyBuildNotAbandoned ==
  \A r \in Run : phase[r] = "building" => error[RunOf[r]] # "lease expired"

Waiting(d) == status[d] = "waiting" /\ holder[d] = NoRun

\* A slot goes to a build only when enough slots remain for every older build
\* that is still waiting.
OldestFirst ==
  [][\A r \in Run : r \in Running' \ Running =>
       Cardinality({e \in Deployment : e < RunOf[r] /\ Waiting(e)'})
         + Cardinality(Leased') <= capacity]_vars

\* The builds of a server behave like users of a counting semaphore.
Semaphore == INSTANCE BuildSemaphore WITH limit <- capacity, users <- Running
SlotsAreASemaphore == Semaphore!Spec

\* A run that asks for a slot gets one or gives up, whoever crashed holding one.
EveryRequestSettles == \A r \in Run : phase[r] \in Asking ~> phase[r] \notin Asking
===============================================================================
