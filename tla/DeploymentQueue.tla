---------------------------- MODULE DeploymentQueue ----------------------------
(***************************************************************************)
(* Admission to the deployment queue of one server.                         *)
(*                                                                         *)
(* A server takes maxQueuedDeployments deployments that are queued or wait  *)
(* for a build slot.  An upload reserves its place before it streams, renews *)
(* the reservation while it streams, and gives it up for its deployment row; *)
(* other requests create their row if there is room.  All of them decide     *)
(* under the server row lock, with a clock they read before they asked for   *)
(* the lock.                                                                *)
(*                                                                         *)
(* Time is counted in ticks.  A reservation's expiresAt is kept as the ticks *)
(* left until it, below zero once it has passed; a call's clock as the ticks *)
(* that have passed since it was read.                                      *)
(***************************************************************************)
EXTENDS Integers, FiniteSets

CONSTANTS
  Upload,     \* deployments admitted through a reservation, which has their id
  Direct,     \* deployments created without one, by one request each
  Attempt,    \* requests that upload
  UploadOf,   \* the upload each of them handles
  Nobody,
  MaxLimit,   \* the largest maxQueuedDeployments an operator configures
  TTL,        \* DEPLOYMENT_QUEUE_RESERVATION_TTL_MS, in ticks
  Interval,   \* heartbeatIntervalMs of an upload, in ticks
  MaxWait     \* ticks a call waits for the server row at most

ASSUME DeploymentAssumption ==
  IsFiniteSet(Upload) /\ IsFiniteSet(Direct) /\ Upload \cap Direct = {}
ASSUME AttemptAssumption ==
  UploadOf \in [Attempt -> Upload] /\ Attempt \cap Direct = {} /\ Nobody \notin Attempt
ASSUME LimitAssumption == MaxLimit \in Nat \ {0}
\* What an upload relies on to keep its place: its next renewal commits before
\* the last one has run out, although each may wait, and the renewal between
\* them may have failed while the stream came to its end.
ASSUME TimingAssumption ==
  /\ TTL \in Nat /\ Interval \in Nat \ {0} /\ MaxWait \in Nat
  /\ Interval + 3 * MaxWait < TTL

VARIABLES
  limit,       \* servers.maxQueuedDeployments
  deployment,  \* deployments.status, as far as the queue is concerned
  reserved,    \* uploads with a row in deploymentQueueReservations
  left,        \* ticks until that row's expiresAt
  renewer,     \* the request whose last answer named that expiresAt
  phase,       \* where each request is
  wait,        \* ticks since its outstanding call read the clock
  beat         \* ticks until its next heartbeat

reservationVars == <<reserved, left, renewer>>
requestVars == <<phase, wait, beat>>
vars == <<limit, deployment, reserved, left, renewer, phase, wait, beat>>

Deployment == Upload \cup Direct
Request == Attempt \cup Direct
Calling == {"reserving", "renewing", "finishing", "creating"}
Uploading == {"streaming", "renewing", "finishing"}
Phase == Calling \cup {"idle", "streaming", "persisting", "failing", "over"}

TypeOK ==
  /\ limit \in 1..MaxLimit
  /\ deployment \in [Deployment -> {"none", "queued", "running", "over"}]
  /\ reserved \subseteq Upload
  /\ left \in [Upload -> -MaxWait..TTL]
  /\ renewer \in [Upload -> Attempt \cup {Nobody}]
  /\ phase \in [Request -> Phase]
  /\ wait \in [Request -> 0..MaxWait]
  /\ beat \in [Attempt -> 0..TTL]

Init ==
  /\ limit \in 1..MaxLimit
  /\ deployment = [d \in Deployment |-> "none"]
  /\ reserved = {}
  /\ left = [u \in Upload |-> -MaxWait]
  /\ renewer = [u \in Upload |-> Nobody]
  /\ phase = [c \in Request |-> "idle"]
  /\ wait = [c \in Request |-> 0]
  /\ beat = [a \in Attempt |-> 0]

-------------------------------------------------------------------------------
(* What a call sees under the lock.                                         *)

Queued == {d \in Deployment : deployment[d] = "queued"}

\* gt(expiresAt, now), with the clock of call c.
LiveFor(c) == {u \in reserved : left[u] > -wait[c]}

\* Mutated forms stand before the definition they replace: here a count that
\* forgets the reservations.
RoomBesidesQueued(c) == Cardinality(Queued) < limit

\* countDeploymentQueueOccupancyForServer, compared with the limit.
Room(c) == Cardinality(Queued) + Cardinality(LiveFor(c)) < limit

\* Whether a request can renew or consume a reservation of its upload. The mutant
\* takes one that has expired as well.
HoldsAnyRow(a) == UploadOf[a] \in reserved
HoldsPlace(a) == UploadOf[a] \in LiveFor(a)

-------------------------------------------------------------------------------
(* Uploads.                                                                 *)

\* A call reads the clock and asks for the lock.
Call(c, from, to) ==
  /\ phase[c] = from
  /\ phase' = [phase EXCEPT ![c] = to]
  /\ wait' = [wait EXCEPT ![c] = 0]

Start(a) == Call(a, "idle", "reserving") /\ UNCHANGED <<limit, deployment, reservationVars, beat>>

\* The mutant lets a heartbeat wait until the reservation has run out.
HeartbeatAtExpiry == TTL
HeartbeatInterval == Interval

\* Where a request goes on with its reservation: the stream begins or goes on,
\* or there is nothing (more) to stream.
Resume(a) ==
  \/ /\ phase[a] \in {"reserving", "renewing"}
     /\ phase' = [phase EXCEPT ![a] = "streaming"]
     /\ beat' = [beat EXCEPT ![a] = HeartbeatInterval]
  \/ /\ phase[a] \in {"reserving", "finishing"}
     /\ phase' = [phase EXCEPT ![a] = "persisting"]
     /\ UNCHANGED beat

\* Where a call that throws leads to; a heartbeat that fails after its stream
\* has ended is ignored, and the request reads the clock for its last renewal.
AfterFailure(c) ==
  {"failing"} \cup (IF phase[c] = "renewing" THEN {"finishing"} ELSE {})

\* A mutant that extends the old expiry instead of starting from the clock.
ExtendedExpiry(a) == left[UploadOf[a]] + TTL
NewExpiry(a) == TTL - wait[a]

\* The call's transaction commits, and its answer arrives or is lost.
Write(a) ==
  LET u == UploadOf[a] IN
  /\ reserved' = LiveFor(a) \cup {u}
  /\ left' = [left EXCEPT ![u] = NewExpiry(a)]
  /\ \/ Resume(a) /\ renewer' = [renewer EXCEPT ![u] = a]
     \/ /\ \E next \in AfterFailure(a) : phase' = [phase EXCEPT ![a] = next]
        /\ renewer' = [renewer EXCEPT ![u] = Nobody]
        /\ UNCHANGED beat
  /\ wait' = [wait EXCEPT ![a] = 0]
  /\ UNCHANGED <<limit, deployment>>

Fail(c) ==
  /\ \E next \in AfterFailure(c) : phase' = [phase EXCEPT ![c] = next]
  /\ wait' = [wait EXCEPT ![c] = 0]
  /\ UNCHANGED <<limit, deployment, reservationVars, beat>>

\* reserveDeploymentQueueSlot: expired rows are deleted, a row of the upload is
\* renewed whether or not there is room, a new one needs room; without it the
\* transaction, and its delete, is rolled back.
ReserveDeploymentQueueSlot(a) ==
  /\ phase[a] \in Calling \ {"creating"}
  /\ IF HoldsPlace(a) \/ Room(a) THEN Write(a) ELSE Fail(a)

Heartbeat(a) ==
  /\ beat[a] = 0
  /\ Call(a, "streaming", "renewing")
  /\ UNCHANGED <<limit, deployment, reservationVars, beat>>

FinishStream(a) ==
  /\ Call(a, "streaming", "finishing")
  /\ UNCHANGED <<limit, deployment, reservationVars, beat>>

\* No heartbeat runs while the artifacts are persisted, however long that takes.
FinishPersisting(a) ==
  /\ Call(a, "persisting", "creating")
  /\ UNCHANGED <<limit, deployment, reservationVars, beat>>

\* createDeploymentRecord for an upload: an existing row is returned, otherwise
\* the reservation is consumed if it has not expired.  The hand-over that
\* follows may throw.
CreateUploaded(a) ==
  LET u == UploadOf[a] IN
  /\ phase[a] = "creating"
  /\ \/ /\ deployment[u] # "none"
        /\ \E next \in {"over", "failing"} : phase' = [phase EXCEPT ![a] = next]
        /\ UNCHANGED <<deployment, reservationVars>>
     \/ /\ deployment[u] = "none" /\ HoldsPlace(a)
        /\ reserved' = reserved \ {u}
        /\ renewer' = [renewer EXCEPT ![u] = Nobody]
        /\ deployment' = [deployment EXCEPT ![u] = "queued"]
        /\ \E next \in {"over", "failing"} : phase' = [phase EXCEPT ![a] = next]
        /\ UNCHANGED left
     \/ /\ deployment[u] = "none" /\ ~HoldsPlace(a)
        /\ phase' = [phase EXCEPT ![a] = "failing"]
        /\ UNCHANGED <<deployment, reservationVars>>
  /\ wait' = [wait EXCEPT ![a] = 0]
  /\ UNCHANGED <<limit, beat>>

\* A statement, the stream or a file operation throws.
Throw(a) == phase[a] \in Phase \ {"idle", "failing", "over"} /\ Fail(a)

\* The catch block gives up the reservation this request has named last, or its
\* statement fails.  The mutant gives up whatever reservation there is.
ReleaseAny(a) == reserved' = reserved \ {UploadOf[a]}
ReleaseNamed(a) ==
  reserved' = IF renewer[UploadOf[a]] = a THEN reserved \ {UploadOf[a]} ELSE reserved

ReleaseDeploymentQueueReservation(a) ==
  /\ phase[a] = "failing"
  /\ phase' = [phase EXCEPT ![a] = "over"]
  /\ ReleaseNamed(a) \/ UNCHANGED reserved
  /\ renewer' = [renewer EXCEPT ![UploadOf[a]] = IF @ = a THEN Nobody ELSE @]
  /\ UNCHANGED <<limit, deployment, left, wait, beat>>

\* The process dies.
Crash(a) ==
  /\ phase[a] \notin {"idle", "over"}
  /\ phase' = [phase EXCEPT ![a] = "over"]
  /\ wait' = [wait EXCEPT ![a] = 0]
  /\ UNCHANGED <<limit, deployment, reservationVars, beat>>

-------------------------------------------------------------------------------
(* Everybody else.                                                          *)

AskDirect(d) ==
  Call(d, "idle", "creating") /\ UNCHANGED <<limit, deployment, reservationVars, beat>>

\* createDeploymentRecord without a reservation.
CreateDirect(d) ==
  /\ phase[d] = "creating"
  /\ deployment' = IF Room(d) THEN [deployment EXCEPT ![d] = "queued"] ELSE deployment
  /\ phase' = [phase EXCEPT ![d] = "over"]
  /\ wait' = [wait EXCEPT ![d] = 0]
  /\ UNCHANGED <<limit, reservationVars, beat>>

\* A deployment leaves the queue, ends, or waits for a build slot although it
\* was running, which an operator who dispatches it by hand makes possible.
MoveOn(d) ==
  /\ \/ deployment[d] = "queued" /\ deployment' = [deployment EXCEPT ![d] = "running"]
     \/ deployment[d] = "running" /\ deployment' = [deployment EXCEPT ![d] = "queued"]
     \/ /\ deployment[d] \in {"queued", "running"}
        /\ deployment' = [deployment EXCEPT ![d] = "over"]
  /\ UNCHANGED <<limit, reservationVars, requestVars>>

ConfigureServerCapacity(n) ==
  /\ limit' = n
  /\ UNCHANGED <<deployment, reservationVars, requestVars>>

\* A due heartbeat fires, and a call that has waited for long gets the lock,
\* before the tick.
Tick ==
  /\ \A c \in Request : phase[c] \in Calling => wait[c] < MaxWait
  /\ \A a \in Attempt : phase[a] = "streaming" => beat[a] > 0
  /\ left' = [u \in Upload |-> IF left[u] > -MaxWait THEN left[u] - 1 ELSE left[u]]
  /\ wait' = [c \in Request |-> IF phase[c] \in Calling THEN wait[c] + 1 ELSE wait[c]]
  /\ beat' = [a \in Attempt |-> IF phase[a] = "streaming" THEN beat[a] - 1 ELSE beat[a]]
  /\ UNCHANGED <<limit, deployment, reserved, renewer, phase>>

-------------------------------------------------------------------------------
UploadStep(a) ==
  \/ Start(a) \/ ReserveDeploymentQueueSlot(a) \/ Heartbeat(a) \/ FinishStream(a)
  \/ FinishPersisting(a) \/ CreateUploaded(a) \/ Throw(a)
  \/ ReleaseDeploymentQueueReservation(a) \/ Crash(a)

Next ==
  \/ \E a \in Attempt : UploadStep(a)
  \/ \E d \in Direct : AskDirect(d) \/ CreateDirect(d)
  \/ \E d \in Deployment : MoveOn(d)
  \/ \E n \in 1..MaxLimit : ConfigureServerCapacity(n)
  \/ Tick

Spec == Init /\ [][Next]_vars

-------------------------------------------------------------------------------
(* Properties.                                                              *)

Live == {u \in reserved : left[u] > 0}
Occupancy == Cardinality(Queued) + Cardinality(Live)

\* Whoever had no place before gets one only within the limit, however long
\* its call has waited and whatever has expired meanwhile.
NewcomersRespectLimit ==
  [][\/ reserved' \ reserved # {}
     \/ \E d \in Direct : deployment[d] = "none" /\ deployment'[d] = "queued"
     => Occupancy' <= limit]_vars

\* A deployment is never created beyond the limit, except in the place of its
\* own live reservation. The code does not keep this one: it compares the expiry
\* of the reservation with a clock it read before it waited for the server row.
CreatedWithinLimit ==
  [][(\E d \in Deployment : deployment[d] = "none" /\ deployment'[d] = "queued")
     => Occupancy' <= limit \/ Occupancy' <= Occupancy]_vars

\* The queue outgrows its limit in two ways only: an operator's dispatch sends a
\* deployment back to it, or a request is granted the renewal or the consumption
\* of a reservation that ran out while it waited for the server row.
OverrunsAreLate ==
  [][Occupancy' > Occupancy /\ Occupancy' > limit
     => \/ \E d \in Deployment : deployment[d] = "running" /\ deployment'[d] = "queued"
        \/ \E a \in Attempt : /\ phase[a] \in Calling /\ phase'[a] # phase[a]
                              /\ UploadOf[a] \in LiveFor(a) \ Live]_vars

\* An upload that is the only one of its deployment keeps its place from its
\* first reservation until its stream ends and its last renewal is answered.
UploadKeepsPlace ==
  \A a \in Attempt :
    /\ phase[a] \in Uploading
    /\ \A b \in Attempt \ {a} : UploadOf[b] = UploadOf[a] => phase[b] = "idle"
    => UploadOf[a] \in Live

\* The place an upload has renewed last is taken from it by no other request,
\* failed or finished, but by the creation of its deployment.
RenewedPlaceStays ==
  [][\A a \in Attempt :
       LET u == UploadOf[a] IN
       phase[a] \in Uploading /\ phase'[a] = phase[a] /\ renewer[u] = a /\ u \in Live
       => u \in reserved' \/ deployment'[u] # "none"]_vars
===============================================================================
