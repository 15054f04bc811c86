-------------------------- MODULE WebhookRecoveryProofs --------------------------
(* Proofs about WebhookRecovery, for any requests and services, any number of    *)
(* faults and any changes of the configuration.                                 *)
(*                                                                             *)
(* The invariant says what a request may rely on between two of its steps: the   *)
(* target it works on is known, the deployment it hands over exists, and the     *)
(* outcome it is about to record is true. Nobody takes any of that back.        *)
EXTENDS WebhookRecovery, TLAPS

WorkRow == [step : Steps, fresh : BOOLEAN, found : SUBSET Key, todo : SUBSET Key,
            key : Key \cup {Nobody}, outcome : {"none", "failed"} \cup Terminal]
OnTarget == {"recover", "trigger", "start", "record"}

(* A request that works on a target has one. *)
HasTarget == \A h \in Handler : work[h].step \in OnTarget => work[h].key \in Key
Typed == TypeOK /\ HasTarget

LEMMA InitTyped == Init => Typed
BY BoundsAssumption
   DEF Init, Typed, TypeOK, HasTarget, OnTarget, Idle, Unleased, Key, Steps, Closed, Eligible,
       Terminal

LEMMA Works ==
  ASSUME Typed, NEW h \in Handler
  PROVE  work \in [Handler -> WorkRow] /\ work[h] \in WorkRow
BY DEF Typed, TypeOK, WorkRow

(* A request may go on with anything of the right type. *)
LEMMA WorkReplaced ==
  ASSUME Typed, NEW h \in Handler, NEW w \in WorkRow, w.step \in OnTarget => w.key \in Key,
         work' = [work EXCEPT ![h] = w]
  PROVE  work' \in [Handler -> WorkRow] /\ HasTarget'
BY Works DEF HasTarget, Typed, WorkRow

LEMMA GoTyped ==
  ASSUME Typed, NEW h \in Handler, NEW s \in Steps, Go(h, s),
         s \in OnTarget => work[h].key \in Key
  PROVE  work' \in [Handler -> WorkRow] /\ HasTarget'
<1>. DEFINE w == [work[h] EXCEPT !.step = s]
<1>1. w \in WorkRow /\ w.step = s /\ w.key = work[h].key
  BY Works DEF WorkRow
<1>2. work' = [work EXCEPT ![h] = w]
  BY DEF Go
<1>. HIDE DEF w
<1>. QED BY <1>1, <1>2, WorkReplaced

LEMMA HaveTyped ==
  ASSUME Typed, NEW h \in Handler, NEW o \in {"failed"} \cup Terminal, Have(h, o),
         work[h].key \in Key
  PROVE  work' \in [Handler -> WorkRow] /\ HasTarget'
<1>. DEFINE w == [work[h] EXCEPT !.step = "record", !.outcome = o]
<1>1. work[h] \in WorkRow
  BY Works
<1>2. w \in WorkRow /\ w.key = work[h].key
  BY <1>1 DEF WorkRow, Steps
<1>3. work' = [work EXCEPT ![h] = w]
  BY DEF Have
<1>. HIDE DEF w
<1>. QED BY <1>2, <1>3, WorkReplaced

LEMMA FinishTyped ==
  ASSUME Typed, NEW h \in Handler, Finish(h)
  PROVE  work' \in [Handler -> WorkRow] /\ HasTarget'
<1>1. Idle \in WorkRow /\ Idle.step \notin OnTarget
  BY DEF Idle, WorkRow, Steps, OnTarget
<1>. QED BY <1>1, WorkReplaced DEF Finish

LEMMA TargetTyped ==
  ASSUME Typed, NEW k \in Key, NEW s \in {"pending", "failed"} \cup Terminal, SetTarget(k, s)
  PROVE  target' \in [Key -> {"none"} \cup Eligible \cup Terminal]
BY DEF SetTarget, Typed, TypeOK, Eligible, Terminal

LEMMA ClaimTyped ==
  ASSUME Typed, NEW h \in Handler, Claim(h)
  PROVE  Typed'
<1>. DEFINE w == [work[h] EXCEPT !.step = "select", !.fresh = (delivery = "new")]
<1>1. work[h] \in WorkRow
  BY Works
<1>2. w \in WorkRow /\ w.step \notin OnTarget
  BY <1>1 DEF WorkRow, Steps, OnTarget
<1>3. work' = [work EXCEPT ![h] = w]
  BY DEF Claim
<1>. HIDE DEF w
<1>4. work' \in [Handler -> WorkRow] /\ HasTarget'
  BY <1>2, <1>3, WorkReplaced
<1>5. /\ lease' \in [holder : Handler \cup {Nobody}, live : BOOLEAN]
      /\ lease'.live => lease'.holder # Nobody /\ delivery' = "processing"
      /\ delivery' = "processing"
  BY NobodyAssumption DEF Claim
<1>. QED BY <1>4, <1>5 DEF Claim, Typed, TypeOK, WorkRow, deploymentVars

LEMMA ProcessTyped ==
  ASSUME Typed, NEW h \in Handler, Process(h)
  PROVE  Typed'
<1>. USE DEF ledgerVars, deploymentVars
<1>0. work \in [Handler -> WorkRow] /\ work[h] \in WorkRow
  BY Works
<1>1. CASE Select(h)
  <2>. DEFINE open == {k \in Key : target[k] \in Eligible}
              w == [work[h] EXCEPT !.step = "register", !.found = Discovered,
                                   !.todo = open \cup Discovered]
  <2>1. Discovered \in SUBSET Key /\ open \in SUBSET Key
    BY DEF Discovered, Key, Typed, TypeOK
  <2>. HIDE DEF open
  <2>2. w \in WorkRow /\ w.step \notin OnTarget
    BY <1>0, <2>1 DEF WorkRow, Steps, OnTarget
  <2>3. work' = [work EXCEPT ![h] = w]
    BY <1>1 DEF Select, open
  <2>. HIDE DEF w
  <2>4. work' \in [Handler -> WorkRow] /\ HasTarget'
    BY <2>2, <2>3, WorkReplaced
  <2>. QED BY <1>1, <2>4 DEF Select, Typed, TypeOK, WorkRow
<1>2. CASE Register(h)
  <2>1. PICK k \in work[h].todo :
           /\ SetTarget(k, IF k \in work[h].found THEN "pending" ELSE "ignored")
           /\ work' = [work EXCEPT ![h] = [work[h] EXCEPT !.todo = work[h].todo \ {k}]]
    BY <1>2 DEF Register
  <2>2. k \in Key
    BY <1>0 DEF WorkRow
  <2>3. target' \in [Key -> {"none"} \cup Eligible \cup Terminal]
    BY <2>1, <2>2, TargetTyped DEF Terminal
  <2>. DEFINE w == [work[h] EXCEPT !.todo = work[h].todo \ {k}]
  <2>4. w \in WorkRow /\ w.step = "register"
    BY <1>0, <1>2 DEF Register, WorkRow
  <2>5. work' = [work EXCEPT ![h] = w]
    BY <2>1
  <2>. HIDE DEF w
  <2>6. work' \in [Handler -> WorkRow] /\ HasTarget'
    BY <2>4, <2>5, WorkReplaced DEF OnTarget
  <2>. QED BY <1>2, <2>3, <2>6 DEF Register, Typed, TypeOK, WorkRow
<1>3. CASE Refresh(h)
  <2>. DEFINE all == work[h].fresh \/ \A q \in Key : target[q] = "none"
              d == {k \in Discovered : all \/ target[k] \in Eligible}
              w == [Idle EXCEPT !.step = "next", !.todo = d]
  <2>1. d \in SUBSET Key
    BY DEF Discovered, Key, Typed, TypeOK
  <2>2. work' = [work EXCEPT ![h] = w]
    BY <1>3 DEF Refresh
  <2>. HIDE DEF d, all
  <2>3. w \in WorkRow /\ w.step \notin OnTarget
    BY <2>1 DEF WorkRow, Steps, OnTarget, Idle
  <2>. HIDE DEF w
  <2>4. work' \in [Handler -> WorkRow] /\ HasTarget'
    BY <2>2, <2>3, WorkReplaced
  <2>. QED BY <1>3, <2>4 DEF Refresh, Typed, TypeOK, WorkRow
<1>4. CASE StartTarget(h)
  <2>1. PICK k \in work[h].todo :
           /\ SetTarget(k, "pending")
           /\ work' = [work EXCEPT ![h].key = k, ![h].outcome = "ignored",
                                   ![h].step = IF k = Project THEN "record" ELSE "recover"]
    BY <1>4 DEF StartTarget
  <2>2. k \in Key
    BY <1>0 DEF WorkRow
  <2>3. target' \in [Key -> {"none"} \cup Eligible \cup Terminal]
    BY <2>1, <2>2, TargetTyped
  <2>. DEFINE s == IF k = Project THEN "record" ELSE "recover"
              w == [work[h] EXCEPT !.key = k, !.outcome = "ignored", !.step = s]
  <2>4. s \in Steps
    BY DEF Steps
  <2>5. work' = [work EXCEPT ![h] = w]
    BY <2>1
  <2>. HIDE DEF s
  <2>6. w \in WorkRow /\ w.key = k
    BY <1>0, <2>2, <2>4 DEF WorkRow, Terminal
  <2>. HIDE DEF w
  <2>7. work' \in [Handler -> WorkRow] /\ HasTarget'
    BY <2>2, <2>5, <2>6, WorkReplaced
  <2>. QED BY <1>4, <2>3, <2>7 DEF StartTarget, Typed, TypeOK, WorkRow
<1>5. CASE Recover(h)
  <2>1. work[h].key \in Key
    BY <1>5 DEF Recover, Typed, HasTarget, OnTarget
  <2>2. Have(h, "completed") \/ \E s \in {"trigger", "start"} : Go(h, s)
    BY <1>5 DEF Recover
  <2>3. work' \in [Handler -> WorkRow] /\ HasTarget'
    BY <2>1, <2>2, GoTyped, HaveTyped DEF Steps, Terminal
  <2>. QED BY <1>5, <2>3 DEF Recover, Typed, TypeOK, WorkRow
<1>6. CASE Trigger(h)
  <2>. DEFINE k == work[h].key
  <2>1. k \in Key
    BY <1>6 DEF Trigger, Typed, HasTarget, OnTarget
  <2>2. Have(h, "failed") \/ \E s \in {"start", "fail"} : Go(h, s)
    BY <1>6 DEF Trigger
  <2>3. work' \in [Handler -> WorkRow] /\ HasTarget'
    BY <2>1, <2>2, GoTyped, HaveTyped DEF Steps, Terminal, OnTarget
  <2>4. \/ UNCHANGED <<rows, deployment>>
        \/ /\ rows' = [rows EXCEPT ![k] = rows[k] + 1]
           /\ deployment' = [deployment EXCEPT ![k] = "queued"]
    BY <1>6 DEF Trigger
  <2>5. /\ rows' \in [Key -> Nat]
        /\ deployment' \in [Key -> {"none", "queued", "done", "failed"}]
    BY <2>1, <2>4 DEF Typed, TypeOK
  <2>. QED BY <1>6, <2>3, <2>5 DEF Trigger, Typed, TypeOK, WorkRow
<1>7. CASE StartWorkflow(h)
  <2>. DEFINE k == work[h].key
  <2>1. k \in Key
    BY <1>7 DEF StartWorkflow, Typed, HasTarget, OnTarget
  <2>2. Have(h, "completed") \/ Go(h, "fail")
    BY <1>7 DEF StartWorkflow
  <2>3. work' \in [Handler -> WorkRow] /\ HasTarget'
    BY <2>1, <2>2, GoTyped, HaveTyped DEF Steps, Terminal, OnTarget
  <2>4. /\ \/ workflow' = workflow
           \/ workflow' = [workflow EXCEPT ![k] = TRUE]
        /\ \/ deployment' = deployment
           \/ deployment' = [deployment EXCEPT ![k] = IF deployment[k] = "queued" THEN "failed"
                                                      ELSE deployment[k]]
    BY <1>7 DEF StartWorkflow
  <2>5. /\ workflow' \in [Key -> BOOLEAN]
        /\ deployment' \in [Key -> {"none", "queued", "done", "failed"}]
    BY <2>1, <2>4 DEF Typed, TypeOK
  <2>6. faults' \in 0..MaxFaults
    BY <1>7, BoundsAssumption DEF StartWorkflow, Typed, TypeOK
  <2>. QED BY <1>7, <2>3, <2>5, <2>6 DEF StartWorkflow, Typed, TypeOK, WorkRow
<1>8. CASE Record(h)
  <2>. DEFINE w == [work[h] EXCEPT !.step = "next", !.todo = work[h].todo \ {work[h].key},
                                   !.key = Nobody, !.outcome = "none"]
  <2>1. work[h].key \in Key
    BY <1>8 DEF Record, Typed, HasTarget, OnTarget
  <2>2. target' \in [Key -> {"none"} \cup Eligible \cup Terminal]
    BY <1>0, <1>8, <2>1 DEF Record, SetTarget, WorkRow, Typed, TypeOK, Eligible, Terminal
  <2>3. w \in WorkRow /\ w.step \notin OnTarget
    BY <1>0 DEF WorkRow, Steps, OnTarget
  <2>4. work' = [work EXCEPT ![h] = w]
    BY <1>8 DEF Record
  <2>. HIDE DEF w
  <2>5. work' \in [Handler -> WorkRow] /\ HasTarget'
    BY <2>3, <2>4, WorkReplaced
  <2>. QED BY <1>8, <2>2, <2>5 DEF Record, Typed, TypeOK, WorkRow
<1>9. ASSUME NEW s \in {"succeeded", "failed"}, EndAttempt(h, s) PROVE Typed'
  <2>1. work' \in [Handler -> WorkRow] /\ HasTarget'
    BY <1>9, FinishTyped DEF EndAttempt
  <2>2. delivery' \in {"new", "processing", "failed", "partial"} \cup Closed
    BY <1>9 DEF EndAttempt, StatusOfTargets, Closed
  <2>3. lease' = Unleased
    BY <1>9 DEF EndAttempt, Released
  <2>. QED BY <1>9, <2>1, <2>2, <2>3 DEF EndAttempt, Unleased, Typed, TypeOK, WorkRow
<1>10. CASE GiveUp(h)
  <2>1. work' \in [Handler -> WorkRow] /\ HasTarget'
    BY <1>10, FinishTyped DEF GiveUp
  <2>. QED BY <1>10, <2>1 DEF GiveUp, Typed, TypeOK, WorkRow
<1>. QED BY <1>1, <1>2, <1>3, <1>4, <1>5, <1>6, <1>7, <1>8, <1>9, <1>10
         DEF Process, Complete, Fail

LEMMA NextTyped == Typed /\ [Next]_vars => Typed'
<1>. SUFFICES ASSUME Typed, [Next]_vars PROVE Typed'
  OBVIOUS
<1>. USE DEF ledgerVars, deploymentVars
<1>1. ASSUME NEW h \in Handler, Interrupt(h) PROVE Typed'
  <2>1. Go(h, "fail") \/ Finish(h)
    BY <1>1 DEF Interrupt
  <2>2. work' \in [Handler -> WorkRow] /\ HasTarget'
    BY <2>1, GoTyped, FinishTyped DEF Steps, OnTarget
  <2>3. faults' \in 0..MaxFaults
    BY <1>1, BoundsAssumption DEF Interrupt, Typed, TypeOK
  <2>. QED BY <1>1, <2>2, <2>3 DEF Interrupt, Typed, TypeOK, WorkRow
<1>2. CASE LoseLease
  <2>1. /\ lease' \in [holder : Handler \cup {Nobody}, live : BOOLEAN]
        /\ ~lease'.live
    BY <1>2 DEF LoseLease, Typed, TypeOK
  <2>2. faults' \in 0..MaxFaults
    BY <1>2, BoundsAssumption DEF LoseLease, Typed, TypeOK
  <2>. QED BY <1>2, <2>1, <2>2 DEF LoseLease, Typed, TypeOK, HasTarget
<1>3. CASE Reconfigure
  BY <1>3, BoundsAssumption DEF Reconfigure, Typed, TypeOK, HasTarget
<1>4. ASSUME NEW k \in Service, DeploymentEnds(k) PROVE Typed'
  <2>1. k \in Key
    BY DEF Key
  <2>2. deployment' \in [Key -> {"none", "queued", "done", "failed"}]
    BY <1>4, <2>1 DEF DeploymentEnds, Typed, TypeOK
  <2>. QED BY <1>4, <2>2 DEF DeploymentEnds, Typed, TypeOK, HasTarget
<1>5. CASE UNCHANGED vars
  BY <1>5 DEF vars, Typed, TypeOK, HasTarget
<1>. QED BY <1>1, <1>2, <1>3, <1>4, <1>5, ClaimTyped, ProcessTyped DEF Next

(* A delivery has at most one deployment for a target. *)
OneRow == \A k \in Key : rows[k] \in {0, 1} /\ (deployment[k] # "none" => rows[k] = 1)

(* What a request relies on between two steps. *)
Grounded(h) ==
    LET k == work[h].key
    IN  /\ work[h].step \in OnTarget => target[k] # "none"
        /\ work[h].step = "start" => deployment[k] # "none"
        /\ work[h].step = "record" => work[h].outcome # "none"
        /\ work[h].step = "record" /\ work[h].outcome = "completed" =>
              deployment[k] # "none" /\ workflow[k]
        /\ work[h].step = "register" =>
              \A q \in work[h].todo \ work[h].found : target[q] # "none"
AllGrounded == \A h \in Handler : Grounded(h)

IInv == Typed /\ OneRow /\ AllGrounded /\ CompletedIsHandedOver

(* What no step takes back. *)
Kept == \A k \in Key :
    /\ target[k] # "none" => target'[k] # "none"
    /\ deployment[k] # "none" => deployment'[k] # "none"
    /\ workflow[k] => workflow'[k]

LEMMA InitInv == Init => IInv
<1>. SUFFICES ASSUME Init PROVE IInv
  OBVIOUS
<1>1. Typed
  BY InitTyped
<1>2. OneRow /\ CompletedIsHandedOver
  BY DEF Init, OneRow, CompletedIsHandedOver
<1>3. AllGrounded
  BY DEF Init, AllGrounded, Grounded, Idle, OnTarget
<1>. QED BY <1>1, <1>2, <1>3 DEF IInv

(* A request that does not move stays grounded while others work. *)
LEMMA OthersGrounded ==
  ASSUME Typed, Kept, NEW h \in Handler, Grounded(h), work'[h] = work[h]
  PROVE  Grounded(h)'
<1>1. work[h].step \in OnTarget => work[h].key \in Key
  BY DEF Typed, HasTarget
<1>2. work[h].todo \subseteq Key
  BY Works DEF WorkRow
<1>. QED BY <1>1, <1>2 DEF Grounded, Kept, OnTarget

LEMMA Moves ==
  ASSUME Typed, NEW h \in Handler,
         Process(h) \/ Claim(h) \/ Interrupt(h)
  PROVE  \A g \in Handler \ {h} : work'[g] = work[g]
BY DEF Typed, TypeOK, Process, Claim, Interrupt, Select, Register, Refresh, StartTarget, Recover,
       Trigger, StartWorkflow, Record, Complete, Fail, EndAttempt, GiveUp, Go, Have, Finish

LEMMA TargetEffect ==
  ASSUME Typed, NEW k \in Key, NEW s, SetTarget(k, s)
  PROVE  \A q \in Key : target'[q] = IF q = k /\ target[k] \notin Terminal THEN s ELSE target[q]
BY DEF SetTarget, Typed, TypeOK

LEMMA GoEffect ==
  ASSUME Typed, NEW h \in Handler, NEW s, Go(h, s)
  PROVE  /\ work'[h].step = s /\ work'[h].key = work[h].key
         /\ work'[h].todo = work[h].todo /\ work'[h].found = work[h].found
BY Works DEF Go, WorkRow

LEMMA HaveEffect ==
  ASSUME Typed, NEW h \in Handler, NEW o, Have(h, o)
  PROVE  work'[h].step = "record" /\ work'[h].key = work[h].key /\ work'[h].outcome = o
BY Works DEF Have, WorkRow

(* A request that rests, or answers with a failure, relies on nothing. *)
LEMMA RestGrounded ==
  ASSUME NEW h \in Handler, work'[h].step \in {"idle", "select", "next", "fail"}
  PROVE  Grounded(h)'
BY DEF Grounded, OnTarget

LEMMA ProcessInv ==
  ASSUME IInv, NEW h \in Handler, Process(h)
  PROVE  OneRow' /\ CompletedIsHandedOver' /\ Kept /\ Grounded(h)'
<1>. USE DEF IInv, ledgerVars, deploymentVars
<1>0. /\ work \in [Handler -> WorkRow] /\ work[h] \in WorkRow
      /\ work[h].step \in OnTarget => work[h].key \in Key /\ target[work[h].key] # "none"
      /\ Grounded(h)
  BY Works DEF Typed, HasTarget, AllGrounded, Grounded
<1>1. CASE Select(h)
  <2>1. UNCHANGED <<target, rows, deployment, workflow>>
    BY <1>1 DEF Select
  <2>2. OneRow' /\ CompletedIsHandedOver' /\ Kept
    BY <2>1 DEF OneRow, CompletedIsHandedOver, Kept
  <2>3. /\ work'[h].step = "register" /\ work'[h].found = Discovered
        /\ work'[h].todo = {k \in Key : target[k] \in Eligible} \cup Discovered
    BY <1>0, <1>1 DEF Select, WorkRow
  <2>4. \A q \in work'[h].todo \ work'[h].found : target'[q] # "none"
    BY <2>1, <2>3 DEF Eligible
  <2>. QED BY <2>2, <2>3, <2>4 DEF Grounded, OnTarget
<1>2. CASE Register(h)
  <2>1. PICK k \in work[h].todo :
           /\ SetTarget(k, IF k \in work[h].found THEN "pending" ELSE "ignored")
           /\ work' = [work EXCEPT ![h].todo = work[h].todo \ {k}]
    BY <1>2 DEF Register
  <2>2. k \in Key /\ work[h].step = "register" /\ work[h].todo \subseteq Key
        /\ UNCHANGED <<rows, deployment, workflow>>
    BY <1>0, <1>2 DEF WorkRow, Register
  <2>3. \A q \in Key : target'[q] # target[q] => q = k /\ target'[q] \in {"pending", "ignored"}
    <3>. DEFINE s == IF k \in work[h].found THEN "pending" ELSE "ignored"
    <3>1. SetTarget(k, s) /\ s \in {"pending", "ignored"}
      BY <2>1
    <3>. HIDE DEF s
    <3>2. \A q \in Key : target'[q] = IF q = k /\ target[k] \notin Terminal THEN s ELSE target[q]
      BY <2>2, <3>1 DEF SetTarget, Typed, TypeOK
    <3>. QED BY <3>1, <3>2
  <2>4. OneRow' /\ CompletedIsHandedOver' /\ Kept
    BY <2>2, <2>3 DEF OneRow, CompletedIsHandedOver, Kept
  <2>5. /\ work'[h].step = "register" /\ work'[h].found = work[h].found
        /\ work'[h].todo = work[h].todo \ {k}
    BY <1>0, <2>1, <2>2 DEF WorkRow
  <2>6. \A q \in work[h].todo \ work[h].found : target[q] # "none"
    BY <1>0, <2>2 DEF Grounded
  <2>7. \A q \in work'[h].todo \ work'[h].found : target'[q] # "none"
    BY <2>2, <2>4, <2>5, <2>6 DEF Kept
  <2>. QED BY <2>4, <2>5, <2>7 DEF Grounded, OnTarget
<1>3. CASE Refresh(h)
  <2>1. UNCHANGED <<target, rows, deployment, workflow>>
    BY <1>3 DEF Refresh
  <2>2. OneRow' /\ CompletedIsHandedOver' /\ Kept
    BY <2>1 DEF OneRow, CompletedIsHandedOver, Kept
  <2>3. work'[h].step = "next"
    BY <1>0, <1>3 DEF Refresh, Idle
  <2>. QED BY <2>2, <2>3, RestGrounded
<1>4. CASE StartTarget(h)
  <2>1. PICK k \in work[h].todo :
           /\ SetTarget(k, "pending")
           /\ work' = [work EXCEPT ![h].key = k, ![h].outcome = "ignored",
                                   ![h].step = IF k = Project THEN "record" ELSE "recover"]
    BY <1>4 DEF StartTarget
  <2>2. k \in Key /\ UNCHANGED <<rows, deployment, workflow>>
    BY <1>0, <1>4 DEF WorkRow, StartTarget
  <2>3. \A q \in Key : IF q = k THEN target'[k] \in {"pending"} \cup Terminal
                                 /\ target'[k] \in {"pending", target[k]}
                      ELSE target'[q] = target[q]
    BY <2>1, <2>2, TargetEffect
  <2>4. OneRow' /\ CompletedIsHandedOver' /\ Kept
    BY <2>2, <2>3 DEF OneRow, CompletedIsHandedOver, Kept, Terminal
  <2>5. /\ work'[h].key = k /\ work'[h].outcome = "ignored"
        /\ work'[h].step \in {"record", "recover"}
    BY <1>0, <2>1 DEF WorkRow
  <2>. QED BY <2>2, <2>3, <2>4, <2>5 DEF Grounded, OnTarget, Terminal
<1>5. CASE Recover(h)
  <2>1. /\ work[h].key \in Key /\ target[work[h].key] # "none"
        /\ UNCHANGED <<target, rows, deployment, workflow>>
    BY <1>0, <1>5 DEF Recover, OnTarget
  <2>2. OneRow' /\ CompletedIsHandedOver' /\ Kept
    BY <2>1 DEF OneRow, CompletedIsHandedOver, Kept
  <2>3. CASE Have(h, "completed") /\ workflow[work[h].key] /\ deployment[work[h].key] # "none"
    BY <2>1, <2>2, <2>3, HaveEffect DEF Grounded
  <2>4. CASE Go(h, "start") /\ deployment[work[h].key] # "none"
    BY <2>1, <2>2, <2>4, GoEffect DEF Grounded
  <2>5. CASE Go(h, "trigger")
    BY <2>1, <2>2, <2>5, GoEffect DEF Grounded
  <2>. QED BY <1>5, <2>3, <2>4, <2>5 DEF Recover, HandedOver
<1>6. CASE Trigger(h)
  <2>. DEFINE k == work[h].key
  <2>1. k \in Key /\ target[k] # "none" /\ UNCHANGED <<target, workflow>>
    BY <1>0, <1>6 DEF Trigger, OnTarget
  <2>2. CASE Have(h, "failed") /\ UNCHANGED <<rows, deployment>>
    <3>1. OneRow' /\ CompletedIsHandedOver' /\ Kept
      BY <2>1, <2>2 DEF OneRow, CompletedIsHandedOver, Kept
    <3>. QED BY <2>1, <2>2, <3>1, HaveEffect DEF Grounded
  <2>3. CASE Go(h, "fail") /\ UNCHANGED <<rows, deployment>>
    <3>1. OneRow' /\ CompletedIsHandedOver' /\ Kept
      BY <2>1, <2>3 DEF OneRow, CompletedIsHandedOver, Kept
    <3>. QED BY <2>3, <3>1, GoEffect, RestGrounded
  <2>4. CASE /\ rows[k] = 0 /\ rows' = [rows EXCEPT ![k] = rows[k] + 1]
             /\ deployment' = [deployment EXCEPT ![k] = "queued"]
             /\ Go(h, "start")
    <3>1. \A q \in Key : /\ rows'[q] = IF q = k THEN 1 ELSE rows[q]
                         /\ deployment'[q] = IF q = k THEN "queued" ELSE deployment[q]
      BY <2>1, <2>4 DEF Typed, TypeOK
    <3>2. OneRow' /\ CompletedIsHandedOver' /\ Kept
      BY <2>1, <3>1 DEF OneRow, CompletedIsHandedOver, Kept
    <3>. QED BY <2>1, <2>4, <3>1, <3>2, GoEffect DEF Grounded
  <2>. QED BY <1>6, <2>2, <2>3, <2>4 DEF Trigger, Insertable
<1>7. CASE StartWorkflow(h)
  <2>. DEFINE k == work[h].key
  <2>1. /\ k \in Key /\ target[k] # "none" /\ deployment[k] # "none"
        /\ UNCHANGED <<target, rows>>
    BY <1>0, <1>7 DEF StartWorkflow, OnTarget, Grounded
  <2>2. /\ \A q \in Key : workflow[q] => workflow'[q]
        /\ \A q \in Key : deployment'[q] # "none" <=> deployment[q] # "none"
    <3>1. /\ workflow' = workflow \/ workflow' = [workflow EXCEPT ![k] = TRUE]
          /\ \/ deployment' = deployment
             \/ deployment' = [deployment EXCEPT ![k] = IF deployment[k] = "queued" THEN "failed"
                                                        ELSE deployment[k]]
      BY <1>7 DEF StartWorkflow
    <3>. QED BY <2>1, <3>1 DEF Typed, TypeOK
  <2>3. OneRow' /\ CompletedIsHandedOver' /\ Kept
    BY <2>1, <2>2 DEF OneRow, CompletedIsHandedOver, Kept
  <2>4. CASE Go(h, "fail")
    BY <2>3, <2>4, GoEffect, RestGrounded
  <2>5. CASE Have(h, "completed") /\ workflow' = [workflow EXCEPT ![k] = TRUE]
    <3>1. workflow'[k]
      BY <2>1, <2>5 DEF Typed, TypeOK
    <3>2. work'[h].step = "record" /\ work'[h].key = k /\ work'[h].outcome = "completed"
      BY <2>5, HaveEffect
    <3>. QED BY <2>1, <2>2, <2>3, <3>1, <3>2 DEF Grounded
  <2>. QED BY <1>7, <2>4, <2>5 DEF StartWorkflow
<1>8. CASE Record(h)
  <2>. DEFINE k == work[h].key
              o == work[h].outcome
  <2>1. /\ k \in Key /\ target[k] # "none" /\ o # "none" /\ SetTarget(k, o)
        /\ o = "completed" => deployment[k] # "none" /\ workflow[k]
        /\ UNCHANGED <<rows, deployment, workflow>>
    BY <1>0, <1>8 DEF Record, OnTarget, Grounded
  <2>. HIDE DEF k, o
  <2>2. \A q \in Key : target'[q] = IF q = k /\ target[k] \notin Terminal THEN o ELSE target[q]
    BY <2>1, TargetEffect
  <2>3. OneRow' /\ CompletedIsHandedOver' /\ Kept
    BY <2>1, <2>2 DEF OneRow, CompletedIsHandedOver, Kept
  <2>4. work'[h].step = "next"
    BY <1>0, <1>8 DEF Record, WorkRow
  <2>. QED BY <2>3, <2>4, RestGrounded
<1>9. CASE Complete(h) \/ Fail(h) \/ GiveUp(h)
  <2>1. UNCHANGED <<target, rows, deployment, workflow>> /\ Finish(h)
    BY <1>9 DEF Complete, Fail, EndAttempt, GiveUp
  <2>2. OneRow' /\ CompletedIsHandedOver' /\ Kept
    BY <2>1 DEF OneRow, CompletedIsHandedOver, Kept
  <2>3. work'[h].step = "idle"
    BY <1>0, <2>1 DEF Finish, Idle
  <2>. QED BY <2>2, <2>3, RestGrounded
<1>. QED BY <1>1, <1>2, <1>3, <1>4, <1>5, <1>6, <1>7, <1>8, <1>9 DEF Process

LEMMA NextInv == IInv /\ [Next]_vars => IInv'
<1>. SUFFICES ASSUME IInv, [Next]_vars PROVE OneRow' /\ CompletedIsHandedOver' /\ AllGrounded'
  BY NextTyped DEF IInv
<1>. USE DEF IInv, ledgerVars, deploymentVars
<1>1. ASSUME NEW h \in Handler, Process(h)
      PROVE  OneRow' /\ CompletedIsHandedOver' /\ AllGrounded'
  BY <1>1, ProcessInv, Moves, OthersGrounded DEF AllGrounded
<1>2. ASSUME NEW h \in Handler, Claim(h) \/ Interrupt(h)
      PROVE  OneRow' /\ CompletedIsHandedOver' /\ AllGrounded'
  <2>1. UNCHANGED <<target, rows, deployment, workflow>>
    BY <1>2 DEF Claim, Interrupt
  <2>2. OneRow' /\ CompletedIsHandedOver' /\ Kept
    BY <2>1 DEF OneRow, CompletedIsHandedOver, Kept
  <2>3. work'[h].step \in {"idle", "select", "fail"}
    BY <1>2, Works DEF Claim, Interrupt, Go, Finish, Idle, WorkRow
  <2>. QED BY <1>2, <2>2, <2>3, RestGrounded, Moves, OthersGrounded DEF AllGrounded
<1>3. CASE LoseLease \/ Reconfigure \/ UNCHANGED vars
  <2>1. UNCHANGED <<target, rows, deployment, workflow, work>>
    BY <1>3 DEF LoseLease, Reconfigure, vars
  <2>2. OneRow' /\ CompletedIsHandedOver' /\ Kept
    BY <2>1 DEF OneRow, CompletedIsHandedOver, Kept
  <2>. QED BY <2>1, <2>2, OthersGrounded DEF AllGrounded
<1>4. ASSUME NEW k \in Service, DeploymentEnds(k)
      PROVE  OneRow' /\ CompletedIsHandedOver' /\ AllGrounded'
  <2>1. /\ UNCHANGED <<target, rows, workflow, work>>
        /\ \A q \in Key : deployment'[q] # "none" <=> deployment[q] # "none"
    BY <1>4 DEF DeploymentEnds, Typed, TypeOK, Key
  <2>2. OneRow' /\ CompletedIsHandedOver' /\ Kept
    BY <2>1 DEF OneRow, CompletedIsHandedOver, Kept
  <2>. QED BY <2>1, <2>2, OthersGrounded DEF AllGrounded
<1>. QED BY <1>1, <1>2, <1>3, <1>4 DEF Next

LEMMA Invariance == Spec => []IInv
<1>. QED BY InitInv, NextInv, PTL DEF Spec

(* The model's types are kept by every step; a live lease belongs to a request    *)
(* and to a delivery in processing.                                              *)
THEOREM RecoveryTypeCorrect == Spec => []TypeOK
<1>1. IInv => TypeOK
  BY DEF IInv, Typed
<1>. QED BY <1>1, Invariance, PTL

(* No target is recorded as completed before its deployment exists and its        *)
(* workflow was started, whichever attempts did which.                           *)
THEOREM CompletedTargetsRun == Spec => []CompletedIsHandedOver
<1>1. IInv => CompletedIsHandedOver
  BY DEF IInv
<1>. QED BY <1>1, Invariance, PTL

(* A target whose deployment failed before any request could record it, and of    *)
(* which no request has the good news still to record.                           *)
Lost(k) ==
    /\ deployment[k] = "failed" /\ target[k] # "completed"
    /\ \A h \in Handler : work[h].key = k =>
          /\ work[h].step # "start"
          /\ work[h].step = "record" => work[h].outcome # "completed"

(* The step of a request on another target, or one that brings no good news. *)
Harmless(h, k) ==
    work'[h].key = k =>
       /\ work'[h].step # "start"
       /\ work'[h].step = "record" => work'[h].outcome # "completed"

LEMMA GoodNews ==
  ASSUME Typed, NEW k \in Key, Lost(k), NEW h \in Handler,
         deployment' = deployment, target'[k] # "completed",
         \A g \in Handler : g # h => work'[g] = work[g],
         Harmless(h, k)
  PROVE  Lost(k)'
BY DEF Lost, Harmless

LEMMA TargetNotCompleted ==
  ASSUME Typed, NEW k \in Key, target[k] # "completed", NEW q \in Key, NEW s, SetTarget(q, s),
         s # "completed" \/ q # k
  PROVE  target'[k] # "completed"
BY DEF SetTarget, Typed, TypeOK, Terminal

LEMMA ProcessLoses ==
  ASSUME IInv, NEW k \in Key, Lost(k), NEW h \in Handler, Process(h) \/ Claim(h) \/ Interrupt(h)
  PROVE  Lost(k)'
<1>. USE DEF ledgerVars, deploymentVars
<1>0. Typed /\ work \in [Handler -> WorkRow] /\ work[h] \in WorkRow
  BY Works DEF IInv
<1>1. \A g \in Handler : g # h => work'[g] = work[g]
  BY <1>0 DEF Process, Claim, Interrupt, Select, Register, Refresh, StartTarget, Recover, Trigger,
     StartWorkflow, Record, Complete, Fail, GiveUp, EndAttempt, Finish, Go, Have
<1>2. rows[k] = 1
  BY DEF Lost, IInv, OneRow
<1>3. CASE Claim(h) \/ Select(h) \/ Refresh(h) \/ Complete(h) \/ Fail(h) \/ GiveUp(h) \/ Interrupt(h)
  <2>1. UNCHANGED <<target, deployment>>
    BY <1>3 DEF Claim, Select, Refresh, Complete, Fail, GiveUp, Interrupt, EndAttempt
  <2>2. CASE Claim(h) \/ Select(h)
    BY <1>0, <1>1, <2>1, <2>2, GoodNews DEF Claim, Select, WorkRow, Harmless, Lost
  <2>3. CASE Refresh(h)
    <3>1. work'[h].step = "next"
      BY <1>0, <2>3 DEF Refresh, Idle
    <3>. QED BY <1>0, <1>1, <2>1, <3>1, GoodNews DEF Harmless, Lost
  <2>4. CASE Complete(h) \/ Fail(h) \/ GiveUp(h) \/ Interrupt(h)
    <3>1. work'[h].step \in {"idle", "fail"}
      BY <1>0, <2>4 DEF Complete, Fail, GiveUp, Interrupt, EndAttempt, Finish, Go, Idle, WorkRow
    <3>. QED BY <1>0, <1>1, <2>1, <3>1, GoodNews DEF Harmless, Lost
  <2>. QED BY <1>3, <2>2, <2>3, <2>4
<1>4. CASE Register(h)
  <2>1. PICK q \in Key, s \in {"pending", "ignored"} : SetTarget(q, s)
    BY <1>0, <1>4 DEF Register, WorkRow
  <2>2. target'[k] # "completed"
    BY <1>0, <2>1, TargetNotCompleted DEF Lost
  <2>3. work'[h].step = "register" /\ deployment' = deployment
    BY <1>0, <1>4 DEF Register, WorkRow
  <2>. QED BY <1>0, <1>1, <2>2, <2>3, GoodNews DEF Harmless
<1>5. CASE StartTarget(h)
  <2>1. PICK q \in Key : SetTarget(q, "pending")
    BY <1>0, <1>5 DEF StartTarget, WorkRow
  <2>2. target'[k] # "completed"
    BY <1>0, <2>1, TargetNotCompleted DEF Lost
  <2>3. /\ work'[h].step \in {"record", "recover"} /\ work'[h].outcome = "ignored"
        /\ deployment' = deployment
    BY <1>0, <1>5 DEF StartTarget, WorkRow
  <2>. QED BY <1>0, <1>1, <2>2, <2>3, GoodNews DEF Harmless
<1>6. CASE Recover(h)
  <2>1. UNCHANGED <<target, deployment>> /\ work'[h].key = work[h].key
    BY <1>0, <1>6 DEF Recover, Go, Have, WorkRow
  <2>2. work[h].key = k => work'[h].step = "trigger"
    BY <1>0, <1>6 DEF Recover, Go, Have, Lost, WorkRow
  <2>. QED BY <1>0, <1>1, <2>1, <2>2, GoodNews DEF Harmless, Lost
<1>7. CASE Trigger(h)
  <2>1. target' = target /\ work'[h].key = work[h].key
    BY <1>0, <1>7 DEF Trigger, Go, Have, WorkRow
  <2>2. work[h].key \in Key
    BY <1>7 DEF IInv, Typed, HasTarget, OnTarget, Trigger
  <2>3. deployment'[k] = deployment[k]
    BY <1>2, <1>7, <2>2 DEF Trigger, Insertable, IInv, Typed, TypeOK
  <2>4. work[h].key = k => /\ work'[h].step \in {"record", "fail"}
                           /\ work'[h].step = "record" => work'[h].outcome = "failed"
    BY <1>0, <1>2, <1>7 DEF Trigger, Insertable, Go, Have, WorkRow
  <2>. QED BY <1>1, <2>1, <2>3, <2>4 DEF Lost
<1>8. CASE StartWorkflow(h)
  <2>1. work[h].key # k /\ work[h].key \in Key
    BY <1>8 DEF StartWorkflow, Lost, IInv, Typed, HasTarget, OnTarget
  <2>2. target' = target /\ work'[h].key = work[h].key
    BY <1>0, <1>8 DEF StartWorkflow, Go, Have, WorkRow
  <2>3. deployment'[k] = deployment[k]
    BY <1>8, <2>1 DEF StartWorkflow, IInv, Typed, TypeOK
  <2>. QED BY <1>1, <2>1, <2>2, <2>3 DEF Lost
<1>9. CASE Record(h)
  <2>1. work[h].key \in Key /\ SetTarget(work[h].key, work[h].outcome)
    BY <1>9 DEF Record, IInv, Typed, HasTarget, OnTarget
  <2>2. work[h].key = k => work[h].outcome # "completed"
    BY <1>9 DEF Record, Lost
  <2>3. target'[k] # "completed"
    BY <1>0, <2>1, <2>2, TargetNotCompleted DEF Lost
  <2>4. work'[h].step = "next" /\ deployment' = deployment
    BY <1>0, <1>9 DEF Record, WorkRow
  <2>. QED BY <1>0, <1>1, <2>3, <2>4, GoodNews DEF Harmless
<1>. QED BY <1>3, <1>4, <1>5, <1>6, <1>7, <1>8, <1>9 DEF Process

LEMMA NextLoses == ASSUME NEW k \in Key PROVE IInv /\ Lost(k) /\ [Next]_vars => Lost(k)'
<1>. SUFFICES ASSUME IInv, Lost(k), [Next]_vars PROVE Lost(k)'
  OBVIOUS
<1>. USE DEF ledgerVars, deploymentVars
<1>1. CASE LoseLease \/ Reconfigure \/ UNCHANGED vars
  BY <1>1 DEF LoseLease, Reconfigure, vars, Lost
<1>2. ASSUME NEW q \in Service, DeploymentEnds(q) PROVE Lost(k)'
  <2>1. deployment'[k] = deployment[k] /\ UNCHANGED <<target, work>>
    BY <1>2 DEF DeploymentEnds, Lost, IInv, Typed, TypeOK
  <2>. QED BY <2>1 DEF Lost
<1>. QED BY <1>1, <1>2, ProcessLoses DEF Next

(* However often the delivery is repeated, a target whose deployment failed       *)
(* before it was recorded is never recorded as completed: the ledger looks for a   *)
(* deployment that has not failed and inserts another one for the same target,    *)
(* and the unique index refuses it.                                             *)
THEOREM FailedTargetsAreLost ==
  ASSUME NEW k \in Key PROVE Spec => [](Lost(k) => [](Lost(k) /\ target[k] # "completed"))
<1>1. Lost(k) => target[k] # "completed"
  BY DEF Lost
<1>. QED BY <1>1, NextLoses, Invariance, PTL DEF Spec

(* The abstract variables and the steps of PushDelivery in their terms. *)
settled == [k \in Key |-> Settled(target[k])]
closed == delivery \in Closed
Stands == UNCHANGED <<settled, rows, closed>>
Learns(k) ==
    /\ ~closed /\ settled[k] = "unknown"
    /\ settled' = [settled EXCEPT ![k] = "open"]
    /\ UNCHANGED <<rows, closed>>
Deploys(k) ==
    /\ rows[k] = 0
    /\ rows' = [rows EXCEPT ![k] = 1]
    /\ UNCHANGED <<settled, closed>>
Settles(k) ==
    /\ ~closed /\ settled[k] = "open"
    /\ \/ rows[k] = 1 /\ settled' = [settled EXCEPT ![k] = "completed"]
       \/ settled' = [settled EXCEPT ![k] = "ignored"]
    /\ UNCHANGED <<rows, closed>>
Closes ==
    /\ \A k \in Key : settled[k] # "open"
    /\ closed'
    /\ UNCHANGED <<settled, rows>>
PushStep ==
    \/ Stands \/ Closes
    \/ \E k \in Key : Learns(k) \/ Deploys(k) \/ Settles(k)

LEMMA PushStepIsOne == PushStep => [Push!Next]_(Push!vars)
<1>1. ASSUME Stands PROVE UNCHANGED Push!vars
  BY <1>1 DEF Stands, settled, closed, Push!vars
<1>2. ASSUME Closes PROVE Push!Close
  BY <1>2 DEF Closes, settled, closed, Push!Close
<1>3. ASSUME NEW k \in Key, Learns(k) PROVE Push!Learn(k)
  BY <1>3 DEF Learns, settled, closed, Push!Learn
<1>4. ASSUME NEW k \in Key, Deploys(k) PROVE Push!Deploy(k)
  BY <1>4 DEF Deploys, settled, closed, Push!Deploy
<1>5. ASSUME NEW k \in Key, Settles(k) PROVE Push!Settle(k)
  BY <1>5 DEF Settles, settled, closed, Push!Settle
<1>. QED BY <1>1, <1>2, <1>3, <1>4, <1>5 DEF PushStep, Push!Next

LEMMA StaysSettled ==
  ASSUME target' = target, rows' = rows, delivery \in Closed <=> delivery' \in Closed
  PROVE  PushStep
<1>1. settled' = settled
  BY DEF settled
<1>2. closed' = closed
  BY DEF closed
<1>. QED BY <1>1, <1>2 DEF PushStep, Stands

(* A target is given a status while the delivery is open. *)
LEMMA TargetStep ==
  ASSUME Typed, NEW k \in Key, NEW s \in {"pending", "failed"} \cup Terminal, SetTarget(k, s),
         delivery \notin Closed, UNCHANGED <<rows, delivery>>,
         target[k] = "none" => s = "pending", s = "completed" => rows[k] = 1
  PROVE  PushStep
<1>1. \A q \in Key : target'[q] = IF q = k /\ target[k] \notin Terminal THEN s ELSE target[q]
  BY TargetEffect
<1>2. ~closed /\ closed' = closed
  BY DEF closed
<1>3. target[k] \in {"none"} \cup Eligible \cup Terminal
  BY DEF Typed, TypeOK
<1>4. CASE target[k] \in Terminal \/ (target[k] \in Eligible /\ s \in Eligible)
  <2>1. \A q \in Key : Settled(target'[q]) = Settled(target[q])
    BY <1>1, <1>4 DEF Settled, Eligible, Terminal
  <2>2. settled' = settled
    BY <2>1 DEF settled
  <2>. QED BY <1>2, <2>2 DEF PushStep, Stands
<1>5. CASE target[k] = "none"
  <2>1. \A q \in Key : Settled(target'[q]) = IF q = k THEN "open" ELSE Settled(target[q])
    BY <1>1, <1>5 DEF Settled, Eligible, Terminal
  <2>2. settled[k] = "unknown"
    BY <1>5 DEF settled, Settled, Eligible, Terminal
  <2>3. settled' = [settled EXCEPT ![k] = "open"]
    BY <2>1 DEF settled
  <2>4. Learns(k)
    BY <1>2, <2>2, <2>3 DEF Learns
  <2>. QED BY <2>4 DEF PushStep
<1>6. CASE target[k] \in Eligible /\ s \in Terminal
  <2>1. \A q \in Key : Settled(target'[q]) = IF q = k THEN s ELSE Settled(target[q])
    BY <1>1, <1>6 DEF Settled, Eligible, Terminal
  <2>2. settled[k] = "open"
    BY <1>6 DEF settled, Settled, Eligible, Terminal
  <2>3. settled' = [settled EXCEPT ![k] = s]
    BY <2>1 DEF settled
  <2>4. Settles(k)
    BY <1>2, <1>6, <2>2, <2>3 DEF Settles, Terminal
  <2>. QED BY <2>4 DEF PushStep
<1>. QED BY <1>3, <1>4, <1>5, <1>6 DEF Eligible, Terminal

LEMMA HeldIsOpen ==
  ASSUME Typed, NEW h \in Handler, HoldsAttempt(h)
  PROVE  delivery \notin Closed
BY DEF HoldsAttempt, Typed, TypeOK, Closed

LEMMA ProcessSettles ==
  ASSUME IInv, NEW h \in Handler, Process(h)
  PROVE  PushStep
<1>. USE DEF IInv, ledgerVars, deploymentVars
<1>0. /\ work[h] \in WorkRow
      /\ work[h].step \in OnTarget => work[h].key \in Key /\ target[work[h].key] # "none"
      /\ Grounded(h)
  BY Works DEF Typed, HasTarget, AllGrounded, Grounded
<1>1. CASE Select(h) \/ Refresh(h) \/ Recover(h) \/ StartWorkflow(h) \/ GiveUp(h)
  BY <1>1, StaysSettled DEF Select, Refresh, Recover, StartWorkflow, GiveUp
<1>2. CASE Register(h)
  <2>1. PICK k \in work[h].todo :
           SetTarget(k, IF k \in work[h].found THEN "pending" ELSE "ignored")
    BY <1>2 DEF Register
  <2>. DEFINE s == IF k \in work[h].found THEN "pending" ELSE "ignored"
  <2>2. /\ k \in Key /\ UNCHANGED <<rows, delivery>> /\ delivery \notin Closed
        /\ target[k] = "none" => s = "pending"
    BY <1>0, <1>2, HeldIsOpen DEF Register, Grounded, WorkRow
  <2>3. SetTarget(k, s) /\ s \in {"pending", "ignored"}
    BY <2>1
  <2>. HIDE DEF s
  <2>. QED BY <2>2, <2>3, TargetStep DEF Terminal
<1>3. CASE StartTarget(h)
  <2>1. PICK k \in work[h].todo : SetTarget(k, "pending")
    BY <1>3 DEF StartTarget
  <2>2. k \in Key /\ UNCHANGED <<rows, delivery>> /\ delivery \notin Closed
    BY <1>0, <1>3, HeldIsOpen DEF StartTarget, WorkRow
  <2>. QED BY <2>1, <2>2, TargetStep
<1>4. CASE Trigger(h)
  <2>. DEFINE k == work[h].key
  <2>1. k \in Key /\ UNCHANGED <<target, delivery>>
    BY <1>0, <1>4 DEF Trigger, OnTarget
  <2>2. CASE rows' = rows
    BY <2>1, <2>2, StaysSettled
  <2>3. CASE rows[k] = 0 /\ rows' = [rows EXCEPT ![k] = rows[k] + 1]
    <3>1. rows' = [rows EXCEPT ![k] = 1]
      BY <2>3
    <3>2. settled' = settled /\ closed' = closed
      BY <2>1 DEF settled, closed
    <3>3. Deploys(k)
      BY <2>3, <3>1, <3>2 DEF Deploys
    <3>. QED BY <2>1, <3>3 DEF PushStep
  <2>. QED BY <1>4, <2>2, <2>3 DEF Trigger, Insertable
<1>5. CASE Record(h)
  <2>. DEFINE k == work[h].key
              o == work[h].outcome
  <2>1. /\ k \in Key /\ target[k] # "none" /\ o # "none" /\ SetTarget(k, o)
        /\ o = "completed" => deployment[k] # "none"
        /\ UNCHANGED <<rows, delivery>> /\ delivery \notin Closed
        /\ o \in {"none", "failed"} \cup Terminal
    BY <1>0, <1>5, HeldIsOpen DEF Record, OnTarget, Grounded, WorkRow
  <2>. HIDE DEF k, o
  <2>2. o = "completed" => rows[k] = 1
    BY <2>1 DEF OneRow
  <2>. QED BY <2>1, <2>2, TargetStep
<1>6. ASSUME NEW requested \in {"succeeded", "failed"}, EndAttempt(h, requested)
      PROVE  PushStep
  <2>1. /\ UNCHANGED <<target, rows>> /\ delivery \notin Closed
        /\ delivery' = StatusOfTargets(requested)
    BY <1>6, HeldIsOpen DEF EndAttempt
  <2>2. CASE delivery' \in Closed
    <3>1. \A k \in Key : target[k] \notin Eligible
      BY <2>1, <2>2 DEF StatusOfTargets, Closed, Eligible
    <3>2. \A k \in Key : settled[k] # "open"
      BY <3>1 DEF settled, Settled, Terminal
    <3>3. settled' = settled /\ closed'
      BY <2>1, <2>2 DEF settled, closed
    <3>. QED BY <2>1, <3>2, <3>3 DEF PushStep, Closes
  <2>3. CASE delivery' \notin Closed
    BY <2>1, <2>3, StaysSettled
  <2>. QED BY <2>2, <2>3
<1>. QED BY <1>1, <1>2, <1>3, <1>4, <1>5, <1>6 DEF Process, Complete, Fail

LEMMA NextSettles == IInv /\ [Next]_vars => PushStep
<1>. SUFFICES ASSUME IInv, [Next]_vars PROVE PushStep
  OBVIOUS
<1>. USE DEF IInv, ledgerVars, deploymentVars
<1>1. ASSUME NEW h \in Handler, Claim(h) PROVE PushStep
  <2>1. UNCHANGED <<target, rows>> /\ delivery \notin Closed /\ delivery' \notin Closed
    BY <1>1 DEF Claim, Reclaimable, Closed
  <2>. QED BY <2>1, StaysSettled
<1>2. ASSUME NEW h \in Handler, Interrupt(h) PROVE PushStep
  BY <1>2, StaysSettled DEF Interrupt
<1>3. CASE LoseLease \/ Reconfigure \/ UNCHANGED vars
  BY <1>3, StaysSettled DEF LoseLease, Reconfigure, vars
<1>4. ASSUME NEW k \in Service, DeploymentEnds(k) PROVE PushStep
  BY <1>4, StaysSettled DEF DeploymentEnds
<1>. QED BY <1>1, <1>2, <1>3, <1>4, ProcessSettles DEF Next

LEMMA InitSettles == Init => Push!Init
BY DEF Init, Push!Init, Settled, Eligible, Terminal, Closed

(* Whatever is redelivered, interrupted or handled twice at once, a delivery      *)
(* settles each target once, deploys it at most once, records it as completed    *)
(* only after its deployment exists, and closes for good.                        *)
THEOREM RecoverySettlesOnce == Spec => SettledOnce
<1>1. IInv /\ [Next]_vars => [Push!Next]_(Push!vars)
  BY NextSettles, PushStepIsOne
<1>. QED BY <1>1, InitSettles, Invariance, PTL DEF Spec, SettledOnce, Push!Spec
==================================================================================
