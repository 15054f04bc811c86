-------------------------- MODULE DeploymentQueueProofs --------------------------
(* Theorems about DeploymentQueue, for every number of uploads and requests,    *)
(* every limit, and every timing that satisfies TimingAssumption.              *)
EXTENDS DeploymentQueue, FiniteSetTheorems, TLAPS

-------------------------------------------------------------------------------
(* Type correctness.                                                           *)

LEMMA InitTypeOK == Init => TypeOK
  BY AttemptAssumption, TimingAssumption DEF Init, TypeOK, Request, Phase, Calling

LEMMA UploadTyped ==
  ASSUME TypeOK, NEW a \in Attempt, UploadStep(a)
  PROVE  TypeOK'
<1> DEFINE u == UploadOf[a]
<1>1. u \in Upload /\ u \in Deployment /\ a \in Request
  BY AttemptAssumption DEF Deployment, Request
<1>2. limit' = limit
  BY DEF UploadStep, Start, ReserveDeploymentQueueSlot, Write, Fail, Heartbeat, FinishStream,
         FinishPersisting, CreateUploaded, Throw, ReleaseDeploymentQueueReservation, Crash
<1>3. deployment' \in [Deployment -> {"none", "queued", "running", "over"}]
  BY <1>1 DEF TypeOK, UploadStep, Start, ReserveDeploymentQueueSlot, Write, Fail, Heartbeat,
         FinishStream, FinishPersisting, CreateUploaded, Throw,
         ReleaseDeploymentQueueReservation, Crash
<1>4. reserved' \subseteq Upload
  BY <1>1 DEF TypeOK, UploadStep, Start, ReserveDeploymentQueueSlot, Write, Fail, Heartbeat,
         FinishStream, FinishPersisting, CreateUploaded, Throw, reservationVars, LiveFor,
         ReleaseDeploymentQueueReservation, ReleaseNamed, Crash
<1>5. left' \in [Upload -> -MaxWait..TTL]
  <2>1. NewExpiry(a) \in -MaxWait..TTL
    BY <1>1, TimingAssumption DEF TypeOK, NewExpiry
  <2> QED BY <1>1, <2>1 DEF TypeOK, UploadStep, Start, ReserveDeploymentQueueSlot, Write,
         Fail, Heartbeat, FinishStream, FinishPersisting, CreateUploaded, Throw,
         reservationVars, ReleaseDeploymentQueueReservation, Crash
<1>6. renewer' \in [Upload -> Attempt \cup {Nobody}]
  BY <1>1 DEF TypeOK, UploadStep, Start, ReserveDeploymentQueueSlot, Write, Fail, Heartbeat,
         FinishStream, FinishPersisting, CreateUploaded, Throw, reservationVars,
         ReleaseDeploymentQueueReservation, Crash
<1>7. phase' \in [Request -> Phase]
  BY <1>1 DEF TypeOK, UploadStep, Start, Call, ReserveDeploymentQueueSlot, Write, Resume, Fail,
         AfterFailure,
         Heartbeat, FinishStream, FinishPersisting, CreateUploaded, Throw, Phase, Calling,
         ReleaseDeploymentQueueReservation, Crash
<1>8. wait' \in [Request -> 0..MaxWait]
  BY <1>1, TimingAssumption DEF TypeOK, UploadStep, Start, Call, ReserveDeploymentQueueSlot,
         Write, Fail, Heartbeat, FinishStream, FinishPersisting, CreateUploaded, Throw,
         ReleaseDeploymentQueueReservation, Crash
<1>9. beat' \in [Attempt -> 0..TTL]
  <2>1. HeartbeatInterval \in 0..TTL
    BY TimingAssumption DEF HeartbeatInterval
  <2> QED BY <2>1 DEF TypeOK, UploadStep, Start, ReserveDeploymentQueueSlot, Write, Resume,
         Fail, Heartbeat, FinishStream, FinishPersisting, CreateUploaded, Throw,
         ReleaseDeploymentQueueReservation, Crash
<1> QED BY <1>2, <1>3, <1>4, <1>5, <1>6, <1>7, <1>8, <1>9 DEF TypeOK

LEMMA OtherTyped ==
  ASSUME TypeOK,
         \/ \E d \in Direct : AskDirect(d) \/ CreateDirect(d)
         \/ \E d \in Deployment : MoveOn(d)
         \/ \E n \in 1..MaxLimit : ConfigureServerCapacity(n)
  PROVE  TypeOK'
<1>1. CASE \E d \in Direct : AskDirect(d) \/ CreateDirect(d)
  <2> PICK d \in Direct : AskDirect(d) \/ CreateDirect(d)
    BY <1>1
  <2>1. d \in Request /\ d \in Deployment
    BY DEF Request, Deployment
  <2>2. UNCHANGED <<limit, reserved, left, renewer, beat>>
    BY DEF AskDirect, CreateDirect, reservationVars
  <2>3. deployment' \in [Deployment -> {"none", "queued", "running", "over"}]
    BY <2>1 DEF TypeOK, AskDirect, CreateDirect
  <2>4. phase' \in [Request -> Phase] /\ wait' \in [Request -> 0..MaxWait]
    BY <2>1, TimingAssumption DEF TypeOK, AskDirect, CreateDirect, Call, Phase, Calling
  <2> QED BY <2>2, <2>3, <2>4 DEF TypeOK
<1>2. CASE \E d \in Deployment : MoveOn(d)
  BY <1>2 DEF TypeOK, MoveOn, reservationVars, requestVars
<1>3. CASE \E n \in 1..MaxLimit : ConfigureServerCapacity(n)
  BY <1>3 DEF TypeOK, ConfigureServerCapacity, reservationVars, requestVars
<1> QED BY <1>1, <1>2, <1>3

LEMMA TickTyped ==
  ASSUME TypeOK, Tick
  PROVE  TypeOK'
<1>1. left' \in [Upload -> -MaxWait..TTL]
  BY TimingAssumption DEF TypeOK, Tick
<1>2. wait' \in [Request -> 0..MaxWait]
  BY TimingAssumption DEF TypeOK, Tick
<1>3. beat' \in [Attempt -> 0..TTL]
  BY TimingAssumption DEF TypeOK, Tick
<1> QED BY <1>1, <1>2, <1>3 DEF TypeOK, Tick

LEMMA StepTypeOK == TypeOK /\ [Next]_vars => TypeOK'
<1> SUFFICES ASSUME TypeOK, [Next]_vars PROVE TypeOK'
  OBVIOUS
<1>1. CASE UNCHANGED vars
  BY <1>1 DEF TypeOK, vars
<1> QED BY <1>1, UploadTyped, OtherTyped, TickTyped DEF Next

\* Every variable keeps its type; no expiry, wait or timer leaves its range.
THEOREM QueueTypeCorrect == Spec => []TypeOK
  BY InitTypeOK, StepTypeOK, PTL DEF Spec

-------------------------------------------------------------------------------
(* Admission.                                                                  *)

LEMMA FiniteCounts ==
  ASSUME TypeOK
  PROVE  /\ IsFiniteSet(Queued) /\ Cardinality(Queued) \in Nat
         /\ IsFiniteSet(Live) /\ Cardinality(Live) \in Nat
         /\ \A c : IsFiniteSet(LiveFor(c)) /\ Cardinality(LiveFor(c)) \in Nat
<1>1. IsFiniteSet(Deployment)
  BY DeploymentAssumption, FS_Union DEF Deployment
<1>2. IsFiniteSet(Queued)
  BY <1>1, FS_Subset DEF Queued
<1>3. ASSUME NEW c PROVE IsFiniteSet(LiveFor(c))
  BY DeploymentAssumption, FS_Subset DEF LiveFor, TypeOK
<1>4. IsFiniteSet(Live)
  BY DeploymentAssumption, FS_Subset DEF Live, TypeOK
<1> QED BY <1>2, <1>3, <1>4, FS_CardinalityType

\* A reservation that does not hold its place needs room for itself beside all
\* that are live.
LEMMA RoomIsEnough ==
  ASSUME TypeOK, NEW a \in Attempt, Write(a), Room(a), UploadOf[a] \notin LiveFor(a)
  PROVE  Occupancy' <= limit
<1> DEFINE u == UploadOf[a]
<1>1. Queued' = Queued /\ Live' \subseteq LiveFor(a) \cup {u}
  BY DEF Write, Queued, Live
<1>2. /\ IsFiniteSet(LiveFor(a) \cup {u})
      /\ Cardinality(LiveFor(a) \cup {u}) = Cardinality(LiveFor(a)) + 1
  BY FiniteCounts, FS_AddElement
<1>3. /\ Cardinality(Live') <= Cardinality(LiveFor(a)) + 1
      /\ Cardinality(Live') \in Nat
  BY <1>1, <1>2, FS_Subset, FS_CardinalityType
<1>4. Cardinality(Queued) + Cardinality(LiveFor(a)) < limit
  BY DEF Room
<1>5. Cardinality(Queued) + Cardinality(Live') <= limit
  BY <1>3, <1>4, FiniteCounts DEF TypeOK
<1> QED BY <1>1, <1>5 DEF Occupancy

LEMMA NewReservationFits ==
  ASSUME TypeOK, NEW a \in Attempt, ReserveDeploymentQueueSlot(a), reserved' \ reserved # {}
  PROVE  Occupancy' <= limit
<1>1. Write(a) /\ UploadOf[a] \notin LiveFor(a)
  BY DEF ReserveDeploymentQueueSlot, Write, Fail, reservationVars, LiveFor
<1>2. Room(a)
  BY <1>1 DEF ReserveDeploymentQueueSlot, Write, Fail, reservationVars, HoldsPlace, LiveFor
<1> QED BY <1>1, <1>2, RoomIsEnough

\* So does a deployment that is created without a reservation.
LEMMA DirectFits ==
  ASSUME TypeOK, NEW d \in Direct, CreateDirect(d), Room(d)
  PROVE  Occupancy' <= limit
<1>1. d \in Deployment /\ d \in Request
  BY DEF Deployment, Request
<1>2. deployment' = [deployment EXCEPT ![d] = "queued"]
  BY DEF CreateDirect
<1>3. Queued' = Queued \cup {d}
  BY <1>1, <1>2 DEF Queued, TypeOK
<1>4. Live' = Live
  BY DEF CreateDirect, reservationVars, Live
<1>5. Live \subseteq LiveFor(d)
  BY <1>1, TimingAssumption DEF Live, LiveFor, TypeOK
<1>6. Cardinality(Live) <= Cardinality(LiveFor(d)) /\ Cardinality(Live) \in Nat
  BY <1>5, FiniteCounts, FS_Subset, FS_CardinalityType
<1>7. Cardinality(Queued') <= Cardinality(Queued) + 1 /\ Cardinality(Queued') \in Nat
  <2>1. IsFiniteSet(Queued) /\ Cardinality(Queued) \in Nat
    BY FiniteCounts
  <2>2. /\ IsFiniteSet(Queued \cup {d})
        /\ \/ Cardinality(Queued \cup {d}) = Cardinality(Queued)
           \/ Cardinality(Queued \cup {d}) = Cardinality(Queued) + 1
    BY <2>1, FS_AddElement
  <2> QED BY <1>3, <2>1, <2>2
<1>8. Cardinality(Queued) + Cardinality(LiveFor(d)) < limit
  BY DEF Room
<1> QED BY <1>4, <1>6, <1>7, <1>8, FiniteCounts DEF Occupancy, TypeOK

\* Nobody is admitted to a full queue without a place of its own, however long
\* calls wait for the lock with the clock they have read.
THEOREM NewcomersFit == Spec => NewcomersRespectLimit
<1>1. ASSUME TypeOK, [Next]_vars,
             \/ reserved' \ reserved # {}
             \/ \E d \in Direct : deployment[d] = "none" /\ deployment'[d] = "queued"
      PROVE  Occupancy' <= limit
  <2>1. CASE UNCHANGED vars
    BY <1>1, <2>1 DEF vars
  <2>2. ASSUME NEW a \in Attempt, UploadStep(a)
        PROVE  Occupancy' <= limit
    <3>1. \A d \in Direct : deployment'[d] = deployment[d]
      <4>1. UploadOf[a] \notin Direct
        BY AttemptAssumption, DeploymentAssumption
      <4>2. \/ deployment' = deployment
            \/ deployment' = [deployment EXCEPT ![UploadOf[a]] = "queued"]
        BY <2>2 DEF UploadStep, Start, ReserveDeploymentQueueSlot, Write, Fail, Heartbeat,
              FinishStream, FinishPersisting, CreateUploaded, Throw,
              ReleaseDeploymentQueueReservation, Crash
      <4> QED BY <1>1, <4>1, <4>2 DEF TypeOK, Deployment
    <3>2. reserved' \ reserved # {}
      BY <1>1, <3>1
    <3>3. ReserveDeploymentQueueSlot(a)
      BY <2>2, <3>2 DEF UploadStep, Start, Fail, Heartbeat, FinishStream, FinishPersisting,
              CreateUploaded, Throw, ReleaseDeploymentQueueReservation, ReleaseNamed, Crash,
              reservationVars
    <3> QED BY <1>1, <3>2, <3>3, NewReservationFits
  <2>3. ASSUME NEW d \in Direct, AskDirect(d)
        PROVE  FALSE
    BY <1>1, <2>3 DEF AskDirect, reservationVars
  <2>4. ASSUME NEW d \in Direct, CreateDirect(d)
        PROVE  Occupancy' <= limit
    <3>1. \E e \in Direct : deployment[e] = "none" /\ deployment'[e] = "queued"
      BY <1>1, <2>4 DEF CreateDirect, reservationVars
    <3>2. Room(d)
      BY <2>4, <3>1 DEF CreateDirect
    <3> QED BY <1>1, <2>4, <3>2, DirectFits
  <2>5. ASSUME NEW d \in Deployment, MoveOn(d)
        PROVE  FALSE
    BY <1>1, <2>5 DEF MoveOn, reservationVars, TypeOK, Deployment
  <2>6. ASSUME NEW n \in 1..MaxLimit, ConfigureServerCapacity(n)
        PROVE  FALSE
    BY <1>1, <2>6 DEF ConfigureServerCapacity, reservationVars
  <2>7. CASE Tick
    BY <1>1, <2>7 DEF Tick
  <2> QED BY <1>1, <2>1, <2>2, <2>3, <2>4, <2>5, <2>6, <2>7 DEF Next
<1>2. TypeOK /\ [Next]_vars =>
        [\/ reserved' \ reserved # {}
         \/ \E d \in Direct : deployment[d] = "none" /\ deployment'[d] = "queued"
         => Occupancy' <= limit]_vars
  BY <1>1
<1> QED BY <1>2, QueueTypeCorrect, PTL DEF Spec, NewcomersRespectLimit

-------------------------------------------------------------------------------
(* Where the queue outgrows its limit.                                         *)

\* A request's reservation ran out while its call waited for the server row.
Late(a) ==
  phase[a] \in Calling /\ phase'[a] # phase[a] /\ UploadOf[a] \in LiveFor(a) \ Live

\* Fewer rows take no more places.
LEMMA FewerTakeLess ==
  ASSUME TypeOK, Queued' \subseteq Queued, Live' \subseteq Live
  PROVE  Occupancy' <= Occupancy
<1>1. Cardinality(Queued') <= Cardinality(Queued) /\ Cardinality(Queued') \in Nat
  BY FiniteCounts, FS_Subset, FS_CardinalityType
<1>2. Cardinality(Live') <= Cardinality(Live) /\ Cardinality(Live') \in Nat
  BY FiniteCounts, FS_Subset, FS_CardinalityType
<1> QED BY <1>1, <1>2, FiniteCounts DEF Occupancy

LEMMA ReservationOverruns ==
  ASSUME TypeOK, NEW a \in Attempt, ReserveDeploymentQueueSlot(a)
  PROVE  Occupancy' <= limit \/ Occupancy' <= Occupancy \/ Late(a)
<1> DEFINE u == UploadOf[a]
<1>1. CASE Fail(a)
  BY <1>1, FewerTakeLess DEF Fail, reservationVars, Queued, Live
<1>2. CASE Write(a) /\ ~HoldsPlace(a) /\ Room(a)
  BY <1>2, RoomIsEnough DEF HoldsPlace
<1>3. CASE Write(a) /\ HoldsPlace(a) /\ u \in Live
  BY <1>3, FewerTakeLess DEF Write, Queued, Live, LiveFor
<1>4. CASE Write(a) /\ HoldsPlace(a) /\ u \notin Live
  <2>1. a \in Request /\ phase[a] \in {"reserving", "renewing", "finishing"}
    BY DEF Request, ReserveDeploymentQueueSlot, Calling
  <2>2. phase'[a] # phase[a]
    BY <1>4, <2>1 DEF Write, Resume, AfterFailure, TypeOK
  <2> QED BY <1>4, <2>1, <2>2 DEF Late, HoldsPlace, Calling
<1> QED BY <1>1, <1>2, <1>3, <1>4 DEF ReserveDeploymentQueueSlot

\* A deployment takes the place of its reservation.
LEMMA CreationOverruns ==
  ASSUME TypeOK, NEW a \in Attempt, CreateUploaded(a)
  PROVE  Occupancy' <= Occupancy \/ Late(a)
<1> DEFINE u == UploadOf[a]
<1>1. u \in Upload /\ u \in Deployment /\ a \in Request
  BY AttemptAssumption DEF Deployment, Request
<1>2. CASE UNCHANGED <<deployment, reservationVars>>
  BY <1>2, FewerTakeLess DEF reservationVars, Queued, Live
<1>3. CASE deployment[u] = "none" /\ u \in LiveFor(a) /\ u \in Live /\ reserved' = reserved \ {u}
           /\ deployment' = [deployment EXCEPT ![u] = "queued"] /\ UNCHANGED left
  <2>1. Queued' = Queued \cup {u} /\ u \notin Queued
    BY <1>1, <1>3 DEF Queued, TypeOK
  <2>2. Live' = Live \ {u}
    BY <1>3 DEF Live
  <2>3. Cardinality(Queued') = Cardinality(Queued) + 1
    BY <2>1, FiniteCounts, FS_AddElement
  <2>4. Cardinality(Live') = Cardinality(Live) - 1
    BY <1>3, <2>2, FiniteCounts, FS_RemoveElement
  <2> QED BY <2>3, <2>4, FiniteCounts DEF Occupancy
<1>4. CASE u \in LiveFor(a) /\ u \notin Live
  <2>1. phase[a] = "creating" /\ phase'[a] # phase[a]
    BY <1>1 DEF CreateUploaded, TypeOK
  <2> QED BY <1>4, <2>1 DEF Late, Calling
<1> QED BY <1>2, <1>3, <1>4 DEF CreateUploaded, HoldsPlace

LEMMA QueueOverruns ==
  ASSUME TypeOK, [Next]_vars
  PROVE  \/ Occupancy' <= limit \/ Occupancy' <= Occupancy
         \/ \E d \in Deployment : deployment[d] = "running" /\ deployment'[d] = "queued"
         \/ \E a \in Attempt : Late(a)
<1>1. ASSUME NEW a \in Attempt, UploadStep(a)
      PROVE  Occupancy' <= limit \/ Occupancy' <= Occupancy \/ Late(a)
  <2>1. CASE \/ Start(a) \/ Heartbeat(a) \/ FinishStream(a) \/ FinishPersisting(a)
             \/ Throw(a) \/ ReleaseDeploymentQueueReservation(a) \/ Crash(a)
    <3>1. Queued' = Queued /\ Live' \subseteq Live
      BY <2>1 DEF Start, Heartbeat, FinishStream, FinishPersisting, Throw, Fail, Crash, Queued,
         Live, reservationVars, ReleaseDeploymentQueueReservation, ReleaseNamed
    <3> QED BY <3>1, FewerTakeLess
  <2> QED BY <1>1, <2>1, ReservationOverruns, CreationOverruns DEF UploadStep
<1>2. ASSUME NEW d \in Direct, AskDirect(d) \/ CreateDirect(d)
      PROVE  Occupancy' <= limit \/ Occupancy' <= Occupancy
  <2>1. CASE CreateDirect(d) /\ Room(d)
    BY <2>1, DirectFits
  <2>2. CASE AskDirect(d) \/ (CreateDirect(d) /\ ~Room(d))
    BY <2>2, FewerTakeLess DEF AskDirect, CreateDirect, reservationVars, Queued, Live
  <2> QED BY <1>2, <2>1, <2>2
<1>3. ASSUME NEW d \in Deployment, MoveOn(d),
             ~\E e \in Deployment : deployment[e] = "running" /\ deployment'[e] = "queued"
      PROVE  Occupancy' <= Occupancy
  <2>1. \A e \in Deployment : deployment'[e] = "queued" => deployment[e] = "queued"
    BY <1>3 DEF MoveOn, TypeOK
  <2>2. Queued' \subseteq Queued /\ Live' = Live
    BY <1>3, <2>1 DEF MoveOn, Queued, Live, reservationVars
  <2> QED BY <2>2, FewerTakeLess
<1>4. CASE UNCHANGED vars \/ \E n \in 1..MaxLimit : ConfigureServerCapacity(n)
  BY <1>4, FewerTakeLess DEF vars, ConfigureServerCapacity, reservationVars, Queued, Live
<1>5. CASE Tick
  <2>1. Live' \subseteq Live
    BY <1>5, TimingAssumption DEF Tick, Live, TypeOK
  <2> QED BY <1>5, <2>1, FewerTakeLess DEF Tick, Queued
<1> QED BY <1>1, <1>2, <1>3, <1>4, <1>5 DEF Next

\* The queue is counted in numbers, after a step as before it.
LEMMA OccupancyTyped ==
  ASSUME TypeOK, TypeOK'
  PROVE  Occupancy \in Nat /\ limit \in Nat /\ Occupancy' \in Nat
<1>1. Queued' \subseteq Deployment /\ IsFiniteSet(Deployment)
  BY DeploymentAssumption, FS_Union DEF Deployment, Queued
<1>2. Live' \subseteq Upload /\ IsFiniteSet(Upload)
  BY DeploymentAssumption DEF Live, TypeOK
<1>3. Cardinality(Queued') \in Nat /\ Cardinality(Live') \in Nat
  BY <1>1, <1>2, FS_Subset, FS_CardinalityType
<1> QED BY <1>3, FiniteCounts DEF Occupancy, TypeOK

\* However many requests there are and however long they wait, the queue outgrows
\* its limit only when an operator's dispatch sends a deployment back to it, or by a
\* request whose own reservation ran out while it waited for the server row.
THEOREM QueueOverrunsAreLate == Spec => OverrunsAreLate
<1>1. TypeOK /\ TypeOK' /\ [Next]_vars =>
        [Occupancy' > Occupancy /\ Occupancy' > limit
         => \/ \E d \in Deployment : deployment[d] = "running" /\ deployment'[d] = "queued"
            \/ \E a \in Attempt : /\ phase[a] \in Calling /\ phase'[a] # phase[a]
                                  /\ UploadOf[a] \in LiveFor(a) \ Live]_vars
  <2>1. ASSUME TypeOK, TypeOK', [Next]_vars, Occupancy' > Occupancy, Occupancy' > limit
        PROVE  \/ \E d \in Deployment : deployment[d] = "running" /\ deployment'[d] = "queued"
               \/ \E a \in Attempt : Late(a)
    <3>1. Occupancy \in Nat /\ limit \in Nat /\ Occupancy' \in Nat
      BY <2>1, OccupancyTyped
    <3> QED BY <2>1, <3>1, QueueOverruns
  <2> QED BY <2>1 DEF Late
<1> QED BY <1>1, QueueTypeCorrect, PTL DEF Spec, OverrunsAreLate

-------------------------------------------------------------------------------
(* Renewed places.                                                             *)

\* What an upload has renewed last, other requests leave alone.
LEMMA OthersSparePlace ==
  ASSUME TypeOK, NEW a \in Attempt, NEW b \in Attempt, UploadStep(b),
         UploadOf[a] \in Live,
         UploadOf[b] # UploadOf[a] \/ (renewer[UploadOf[a]] = a /\ b # a)
  PROVE  UploadOf[a] \in reserved' \/ deployment'[UploadOf[a]] # "none"
<1>1. UploadOf[a] \in reserved /\ left[UploadOf[a]] > 0 /\ UploadOf[a] \in Upload
  BY AttemptAssumption DEF Live
<1>2. UploadOf[a] \in LiveFor(b)
  BY <1>1, TimingAssumption DEF LiveFor, TypeOK, Request
<1>3. UploadOf[b] \in Upload /\ UploadOf[b] \in Deployment
  BY AttemptAssumption DEF Deployment
<1> QED BY <1>1, <1>2, <1>3 DEF TypeOK, UploadStep, Start, ReserveDeploymentQueueSlot, Write,
       Fail, Heartbeat, FinishStream, FinishPersisting, CreateUploaded, Throw, reservationVars,
       ReleaseDeploymentQueueReservation, ReleaseNamed, Crash

\* No other request, sent again, failed or finished, takes the place an upload
\* has renewed last, unless it creates the deployment.
THEOREM RenewedPlacesStay == Spec => RenewedPlaceStays
<1>1. ASSUME TypeOK, [Next]_vars, NEW a \in Attempt, phase[a] \in Uploading,
             phase'[a] = phase[a], renewer[UploadOf[a]] = a, UploadOf[a] \in Live
      PROVE  UploadOf[a] \in reserved' \/ deployment'[UploadOf[a]] # "none"
  <2>1. UploadOf[a] \in reserved
    BY <1>1 DEF Live
  <2>2. ASSUME NEW b \in Attempt, UploadStep(b)
        PROVE  UploadOf[a] \in reserved' \/ deployment'[UploadOf[a]] # "none"
    <3>1. CASE b = a
      <4>1. a \in Request
        BY DEF Request
      <4>2. reserved' = reserved \/ UploadOf[a] \in reserved'
        BY <1>1, <2>2, <3>1 DEF Uploading, UploadStep, Start, ReserveDeploymentQueueSlot,
           Write, Fail, Heartbeat, FinishStream, FinishPersisting, CreateUploaded, Throw,
           reservationVars, ReleaseDeploymentQueueReservation, Crash
      <4> QED BY <2>1, <4>2
    <3>2. CASE b # a
      BY <1>1, <2>2, <3>2, OthersSparePlace
    <3> QED BY <3>1, <3>2
  <2>3. CASE UNCHANGED vars
    BY <2>1, <2>3 DEF vars
  <2>4. CASE (\E d \in Direct : AskDirect(d) \/ CreateDirect(d)) \/ (\E d \in Deployment : MoveOn(d))
    BY <2>1, <2>4 DEF AskDirect, CreateDirect, MoveOn, reservationVars
  <2>5. CASE (\E n \in 1..MaxLimit : ConfigureServerCapacity(n)) \/ Tick
    BY <2>1, <2>5 DEF ConfigureServerCapacity, Tick, reservationVars
  <2> QED BY <1>1, <2>2, <2>3, <2>4, <2>5 DEF Next
<1>2. TypeOK /\ [Next]_vars =>
        [\A a \in Attempt :
           LET u == UploadOf[a] IN
           phase[a] \in Uploading /\ phase'[a] = phase[a] /\ renewer[u] = a /\ u \in Live
           => u \in reserved' \/ deployment'[u] # "none"]_vars
  BY <1>1
<1> QED BY <1>2, QueueTypeCorrect, PTL DEF Spec, RenewedPlaceStays

-------------------------------------------------------------------------------
(* An upload keeps its place while it streams.                                 *)

Alone(a) == \A b \in Attempt \ {a} : UploadOf[b] = UploadOf[a] => phase[b] = "idle"

\* What is left of a reservation when the heartbeat after it falls due, its own
\* call having waited; that heartbeat waits in its turn, and if it fails while
\* the stream ends, so does the last renewal after it.
Margin == TTL - MaxWait - Interval

EnoughLeft(a) ==
  left[UploadOf[a]] >= Margin + (CASE phase[a] = "streaming" -> beat[a]
                                   [] phase[a] = "renewing"  -> -wait[a]
                                   [] OTHER                  -> -wait[a] - MaxWait)

PlaceHeld ==
  \A a \in Attempt : phase[a] \in Uploading /\ Alone(a) =>
    /\ UploadOf[a] \in reserved
    /\ phase[a] = "streaming" => beat[a] \in 0..Interval
    /\ EnoughLeft(a)

\* A place that is held has not run out, for any clock.
LEMMA HeldIsLive ==
  ASSUME TypeOK, PlaceHeld, NEW a \in Attempt, phase[a] \in Uploading, Alone(a)
  PROVE  UploadOf[a] \in Live
<1>1. UploadOf[a] \in reserved /\ UploadOf[a] \in Upload /\ a \in Request
  BY AttemptAssumption DEF PlaceHeld, Request
<1>2. left[UploadOf[a]] > 0
  BY <1>1, TimingAssumption DEF PlaceHeld, EnoughLeft, Margin, TypeOK
<1> QED BY <1>1, <1>2 DEF Live

\* A request that has begun is never idle again.
LEMMA AloneBefore ==
  ASSUME TypeOK, [Next]_vars, NEW a \in Attempt, Alone(a)'
  PROVE  Alone(a)
<1>1. ASSUME NEW c \in Attempt, phase[c] # "idle"
      PROVE  phase'[c] # "idle"
  <2>1. c \in Request
    BY DEF Request
  <2>2. ASSUME NEW b \in Attempt, UploadStep(b)
        PROVE  phase'[c] # "idle"
    BY <1>1, <2>1, <2>2 DEF TypeOK, UploadStep, Start, Call, ReserveDeploymentQueueSlot, Write,
       Resume, AfterFailure, Fail, Heartbeat, FinishStream, FinishPersisting, CreateUploaded, Throw,
       ReleaseDeploymentQueueReservation, Crash
  <2>3. ASSUME NEW d \in Direct, AskDirect(d) \/ CreateDirect(d)
        PROVE  phase'[c] # "idle"
    BY <1>1, <2>1, <2>3 DEF TypeOK, AskDirect, CreateDirect, Call
  <2>4. CASE \/ UNCHANGED vars \/ Tick \/ \E d \in Deployment : MoveOn(d)
             \/ \E n \in 1..MaxLimit : ConfigureServerCapacity(n)
    BY <1>1, <2>4 DEF vars, Tick, MoveOn, ConfigureServerCapacity, requestVars
  <2> QED BY <2>2, <2>3, <2>4 DEF Next
<1> QED BY <1>1 DEF Alone

\* A request's own steps.
LEMMA OwnStepHolds ==
  ASSUME TypeOK, PlaceHeld, NEW a \in Attempt, UploadStep(a), phase'[a] \in Uploading, Alone(a)
  PROVE  /\ UploadOf[a] \in reserved'
         /\ phase'[a] = "streaming" => beat'[a] \in 0..Interval
         /\ EnoughLeft(a)'
<1>1. a \in Request /\ UploadOf[a] \in Upload
  BY AttemptAssumption DEF Request
<1>2. CASE Write(a)
  <2>1. \/ phase'[a] = "streaming" /\ beat'[a] = Interval
        \/ phase'[a] = "finishing"
    BY <1>1, <1>2 DEF Write, Resume, AfterFailure, HeartbeatInterval, Uploading, TypeOK
  <2>2. left'[UploadOf[a]] = TTL - wait[a] /\ wait'[a] = 0 /\ wait[a] \in 0..MaxWait
    BY <1>1, <1>2 DEF Write, NewExpiry, TypeOK
  <2>3. EnoughLeft(a)'
    BY <2>1, <2>2, TimingAssumption DEF EnoughLeft, Margin
  <2> QED BY <1>2, <2>1, <2>3, TimingAssumption DEF Write
<1>3. CASE Fail(a)
  <2>1. phase[a] = "renewing" /\ phase'[a] = "finishing" /\ wait'[a] = 0
    BY <1>1, <1>3 DEF Fail, AfterFailure, Uploading, TypeOK
  <2>2. UNCHANGED <<reserved, left>>
    BY <1>3 DEF Fail, reservationVars
  <2>3. UploadOf[a] \in reserved /\ EnoughLeft(a) /\ wait[a] \in 0..MaxWait
    BY <1>1, <2>1 DEF PlaceHeld, Uploading, TypeOK
  <2>4. left[UploadOf[a]] \in Int
    BY <1>1, TimingAssumption DEF TypeOK
  <2> QED BY <2>1, <2>2, <2>3, <2>4, TimingAssumption DEF EnoughLeft, Margin
<1>4. CASE Heartbeat(a) \/ FinishStream(a)
  <2>1. phase[a] = "streaming" /\ phase'[a] # "streaming" /\ wait'[a] = 0
    BY <1>1, <1>4 DEF Heartbeat, FinishStream, Call, TypeOK
  <2>2. UNCHANGED <<reserved, left>>
    BY <1>4 DEF Heartbeat, FinishStream, reservationVars
  <2>3. UploadOf[a] \in reserved /\ beat[a] \in 0..Interval /\ EnoughLeft(a)
    BY <2>1 DEF PlaceHeld, Uploading
  <2>4. left[UploadOf[a]] \in Int
    BY <1>1, TimingAssumption DEF TypeOK
  <2> QED BY <2>1, <2>2, <2>3, <2>4, TimingAssumption DEF EnoughLeft, Margin
<1>5. CASE \/ Start(a) \/ FinishPersisting(a) \/ CreateUploaded(a)
           \/ ReleaseDeploymentQueueReservation(a) \/ Crash(a)
  BY <1>1, <1>5 DEF Start, FinishPersisting, Call, CreateUploaded, Crash,
     ReleaseDeploymentQueueReservation, Uploading, TypeOK
<1> QED BY <1>2, <1>3, <1>4, <1>5 DEF UploadStep, ReserveDeploymentQueueSlot, Throw

\* The steps of a request for another upload.
LEMMA OtherStepHolds ==
  ASSUME TypeOK, PlaceHeld, NEW a \in Attempt, NEW b \in Attempt, UploadStep(b),
         UploadOf[b] # UploadOf[a], phase[a] \in Uploading, Alone(a)
  PROVE  /\ UploadOf[a] \in reserved'
         /\ phase'[a] = phase[a] /\ wait'[a] = wait[a] /\ beat'[a] = beat[a]
         /\ left'[UploadOf[a]] = left[UploadOf[a]]
<1>1. a \in Request /\ b \in Request /\ a # b
  BY DEF Request
<1>2. UploadOf[a] \in Live
  BY HeldIsLive
<1>3. UploadOf[a] \in LiveFor(b) /\ UploadOf[a] \in Upload /\ UploadOf[b] \in Upload
  BY <1>1, <1>2, AttemptAssumption, TimingAssumption DEF Live, LiveFor, TypeOK
<1>4. UploadOf[a] \in reserved'
  BY <1>2, <1>3 DEF UploadStep, Start, ReserveDeploymentQueueSlot, Write, Fail, Heartbeat,
     FinishStream, FinishPersisting, CreateUploaded, Throw, reservationVars, Live,
     ReleaseDeploymentQueueReservation, ReleaseNamed, Crash
<1>5. phase'[a] = phase[a] /\ wait'[a] = wait[a]
  BY <1>1 DEF TypeOK, UploadStep, Start, Call, ReserveDeploymentQueueSlot, Write, Resume, Fail,
     AfterFailure,
     Heartbeat, FinishStream, FinishPersisting, CreateUploaded, Throw,
     ReleaseDeploymentQueueReservation, Crash
<1>6. beat'[a] = beat[a]
  BY <1>1 DEF TypeOK, UploadStep, Start, ReserveDeploymentQueueSlot, Write, Resume, Fail,
     Heartbeat, FinishStream, FinishPersisting, CreateUploaded, Throw,
     ReleaseDeploymentQueueReservation, Crash
<1>7. left'[UploadOf[a]] = left[UploadOf[a]]
  BY <1>3 DEF TypeOK, UploadStep, Start, ReserveDeploymentQueueSlot, Write, Fail, Heartbeat,
     FinishStream, FinishPersisting, CreateUploaded, Throw, reservationVars,
     ReleaseDeploymentQueueReservation, Crash
<1> QED BY <1>4, <1>5, <1>6, <1>7

LEMMA TickHolds ==
  ASSUME TypeOK, PlaceHeld, NEW a \in Attempt, Tick, phase[a] \in Uploading, Alone(a)
  PROVE  /\ UploadOf[a] \in reserved'
         /\ phase'[a] = "streaming" => beat'[a] \in 0..Interval
         /\ EnoughLeft(a)'
<1>1. a \in Request /\ UploadOf[a] \in Upload
  BY AttemptAssumption DEF Request
<1>2. UploadOf[a] \in Live
  BY HeldIsLive
<1>3. left'[UploadOf[a]] = left[UploadOf[a]] - 1 /\ left[UploadOf[a]] \in Int
  BY <1>1, <1>2, TimingAssumption DEF Tick, Live, TypeOK
<1>4. phase' = phase /\ reserved' = reserved
  BY DEF Tick
<1>5. CASE phase[a] = "streaming"
  <2>1. beat'[a] = beat[a] - 1 /\ beat[a] > 0
    BY <1>5 DEF Tick
  <2> QED BY <1>3, <1>4, <1>5, <2>1, TimingAssumption
          DEF PlaceHeld, EnoughLeft, Margin, Uploading
<1>6. CASE phase[a] # "streaming"
  <2>1. wait'[a] = wait[a] + 1 /\ wait[a] \in Int
    BY <1>1, <1>6, TimingAssumption DEF Tick, Uploading, Calling, TypeOK
  <2> QED BY <1>3, <1>4, <1>6, <2>1, TimingAssumption DEF PlaceHeld, EnoughLeft, Margin
<1> QED BY <1>5, <1>6

LEMMA PlaceHeldStep ==
  ASSUME TypeOK, PlaceHeld, [Next]_vars
  PROVE  PlaceHeld'
<1> SUFFICES ASSUME NEW a \in Attempt, phase'[a] \in Uploading, Alone(a)'
             PROVE  /\ UploadOf[a] \in reserved'
                    /\ phase'[a] = "streaming" => beat'[a] \in 0..Interval
                    /\ EnoughLeft(a)'
  BY DEF PlaceHeld
<1>1. Alone(a)
  BY AloneBefore
<1>2. ASSUME NEW b \in Attempt, UploadStep(b), b # a, UploadOf[b] = UploadOf[a]
      PROVE  FALSE
  <2>1. phase'[b] = "idle" /\ phase[b] = "idle" /\ b \in Request
    BY <1>1, <1>2 DEF Alone, Request
  <2> QED BY <1>2, <2>1 DEF TypeOK, UploadStep, Start, Call, ReserveDeploymentQueueSlot,
       Heartbeat, FinishStream, FinishPersisting, CreateUploaded, Throw, Calling,
       ReleaseDeploymentQueueReservation, Crash
<1>3. ASSUME NEW b \in Attempt, UploadStep(b), UploadOf[b] # UploadOf[a]
      PROVE  /\ UploadOf[a] \in reserved'
             /\ phase'[a] = "streaming" => beat'[a] \in 0..Interval
             /\ EnoughLeft(a)'
  <2>1. phase[a] \in Uploading
    <3>1. a \in Request /\ b \in Request /\ a # b
      BY <1>3 DEF Request
    <3> QED BY <1>3, <3>1 DEF TypeOK, UploadStep, Start, Call, ReserveDeploymentQueueSlot,
         Write, Resume, AfterFailure, Fail, Heartbeat, FinishStream, FinishPersisting, CreateUploaded, Throw,
         ReleaseDeploymentQueueReservation, Crash
  <2> QED BY <1>1, <1>3, <2>1, OtherStepHolds DEF PlaceHeld, EnoughLeft, Margin
<1>4. CASE Tick
  BY <1>1, <1>4, TickHolds DEF Tick
<1>5. CASE (\E d \in Direct : AskDirect(d) \/ CreateDirect(d)) \/ UNCHANGED vars
           \/ (\E d \in Deployment : MoveOn(d))
           \/ (\E n \in 1..MaxLimit : ConfigureServerCapacity(n))
  <2>1. UNCHANGED <<reserved, left, beat>>
    BY <1>5 DEF AskDirect, CreateDirect, MoveOn, ConfigureServerCapacity, reservationVars,
                requestVars, vars
  <2>2. phase'[a] = phase[a] /\ wait'[a] = wait[a]
    <3>1. a \notin Direct /\ a \in Request
      BY AttemptAssumption DEF Request
    <3> QED BY <1>5, <3>1 DEF AskDirect, CreateDirect, Call, MoveOn, ConfigureServerCapacity,
                              requestVars, vars, TypeOK
  <2> QED BY <1>1, <2>1, <2>2 DEF PlaceHeld, EnoughLeft, Margin
<1> QED BY <1>1, <1>2, <1>3, <1>4, <1>5, OwnStepHolds DEF Next

\* An upload that is alone keeps its place while its stream is as slow as it
\* likes, if heartbeats and lock waits are as short as TimingAssumption says.
THEOREM UploadsKeepPlaces == Spec => []UploadKeepsPlace
<1>1. Init => PlaceHeld
  BY DEF Init, PlaceHeld, Uploading, Request
<1>2. TypeOK /\ PlaceHeld /\ [Next]_vars => PlaceHeld'
  BY PlaceHeldStep
<1>3. TypeOK /\ PlaceHeld => UploadKeepsPlace
  BY HeldIsLive DEF UploadKeepsPlace, Alone
<1> QED BY <1>1, <1>2, <1>3, QueueTypeCorrect, PTL DEF Spec
=================================================================================
