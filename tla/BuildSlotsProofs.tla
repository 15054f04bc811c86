---------------------------- MODULE BuildSlotsProofs ----------------------------
(***************************************************************************)
(* Theorems about BuildSlots for every set of deployments and runs and      *)
(* every timing that satisfies TimingAssumption: type correctness, a live   *)
(* lease under every build, and the refinement of the counting semaphore.   *)
(***************************************************************************)
EXTENDS BuildSlots, FiniteSetTheorems, TLAPS

\* A run that has not been granted a slot owns no row, and only a building run
\* has an answer to look at.
NotYetOwner ==
  \A r \in Run : phase[r] \in Asking \cup {"idle"} => \A d \in Deployment : holder[d] # r
AnswerOnlyWhileBuilding ==
  \A r \in Run : renewal[r] \in {"renewed", "refused"} => phase[r] = "building"
SettledLag == \A r \in Run : ~Arming(r) => lag[r] = 0

\* Why a slot has a live lease: between a lease statement and its answer the
\* row has lost at most lag ticks of its full duration, and afterwards the
\* local timer ends at least Heartbeat - MaxLag ticks before the row does.
Margin ==
  \A r \in Running :
    /\ Holds(r)
    /\ IF Arming(r) THEN ttl[RunOf[r]] + lag[r] >= LeaseDuration
       ELSE ttl[RunOf[r]] + MaxLag >= watchdog[r] + Heartbeat

Inv == TypeOK /\ NotYetOwner /\ AnswerOnlyWhileBuilding /\ SettledLag /\ Margin

-------------------------------------------------------------------------------
(* Type correctness.                                                        *)

LEMMA TypeInit == Init => TypeOK
  BY TimingAssumption, CapacityAssumption
     DEF Init, TypeOK, Status, Error, Phase, Renewal

\* Row steps keep the types.
LEMMA TypeRow ==
  ASSUME TypeOK, NEW d \in Deployment, RowStep(d) PROVE TypeOK'
<1>1. CASE Claim(d) BY <1>1 DEF Claim, TypeOK, Status, leaseVars, runVars
<1>2. CASE Cancel(d) BY <1>2 DEF Cancel, TypeOK, Status, Error, leaseVars, runVars
<1>3. CASE DispatchFails(d) BY <1>3 DEF DispatchFails, TypeOK, Status, Error, leaseVars, runVars
<1>4. CASE WatchdogSelect(d) BY <1>4 DEF WatchdogSelect, TypeOK, leaseVars, rowVars, runVars
<1>5. CASE WatchdogFail(d) BY <1>5 DEF WatchdogFail, TypeOK, Status, Error, leaseVars, runVars
<1>6. CASE \E s \in JobStatus : OperatorTransition(d, s)
  BY <1>6, JobAssumption DEF OperatorTransition, TypeOK, Status, leaseVars, runVars
<1>q. QED BY <1>1, <1>2, <1>3, <1>4, <1>5, <1>6 DEF RowStep

LEMMA TypeRun ==
  ASSUME TypeOK, NEW r \in Run, RunStep(r) PROVE TypeOK'
<1> USE RunAssumption DEF TypeOK
<1>1. CASE Begin(r) BY <1>1 DEF Begin, Goto, Status, Phase, leaseVars
<1>2. CASE MarkWaiting(r) BY <1>2 DEF MarkWaiting, Mark, Goto, Status, Phase, leaseVars
<1>3. CASE Check(r) BY <1>3 DEF Check, Goto, Phase, leaseVars, rowVars
<1>4. CASE LockServer(r) BY <1>4 DEF LockServer, Goto, Phase, Expired, Leased, leaseVars, rowVars
<1>5. CASE Decide(r)
  <2>1. status' \in [Deployment -> Status] /\ error' \in [Deployment -> Error]
    BY <1>5 DEF Decide, FailAbandoned, Status, Error
  <2>2. holder' \in [Deployment -> Run \cup {NoRun}] BY <1>5 DEF Decide
  <2>3. ttl' \in [Deployment -> 0..LeaseDuration]
    BY <1>5, TimingAssumption DEF Decide, NewExpiry
  <2>4. phase' \in [Run -> Phase] BY <1>5 DEF Decide, Phase
  <2>q. QED BY <1>5, <2>1, <2>2, <2>3, <2>4 DEF Decide
<1>6. CASE MarkAcquired(r) BY <1>6 DEF MarkAcquired, Mark, Goto, Status, Phase, leaseVars
<1>7. CASE Recheck(r)
  <2>1. 0 \in 0..MaxLag /\ SafetyWindow \in 0..LeaseDuration
    BY TimingAssumption DEF SafetyWindow
  <2>q. QED BY <1>7, <2>1 DEF Recheck, DropLease, Goto, Phase, rowVars
<1>8. CASE StatementFails(r) BY <1>8, TimingAssumption DEF StatementFails, Phase, leaseVars, rowVars
<1>9. CASE SendRenewal(r) BY <1>9 DEF SendRenewal, Renewal, leaseVars, rowVars
<1>10. CASE Renew(r) BY <1>10, TimingAssumption DEF Renew, NewExpiry, Renewal, rowVars
<1>11. CASE RenewalAnswered(r)
  <2>1. 0 \in 0..MaxLag /\ SafetyWindow \in 0..LeaseDuration
    BY TimingAssumption DEF SafetyWindow
  <2>q. QED BY <1>11, <2>1 DEF RenewalAnswered, Renewal, leaseVars, rowVars
<1>12. CASE AbortForLeaseLoss(r)
  BY <1>12, TimingAssumption DEF AbortForLeaseLoss, StopBuilding, Goto, Phase, Renewal, leaseVars, rowVars
<1>13. CASE FinishBuild(r)
  BY <1>13, TimingAssumption DEF FinishBuild, StopBuilding, Goto, Phase, Renewal, leaseVars, rowVars
<1>14. CASE Release(r) BY <1>14 DEF Release, DropLease, Goto, Phase, rowVars
<1>15. CASE Complete(r) BY <1>15 DEF Complete, Conclude, Goto, Phase, Status, Error, leaseVars
<1>16. CASE FailBuilt(r) BY <1>16 DEF FailBuilt, Conclude, Goto, Phase, Status, Error, leaseVars
<1>17. CASE Fail(r) BY <1>17 DEF Fail, Conclude, Goto, Phase, Status, Error, leaseVars
<1>18. CASE Crash(r) BY <1>18, TimingAssumption DEF Crash, Phase, Renewal, leaseVars, rowVars
<1>q. QED
  BY <1>1, <1>2, <1>3, <1>4, <1>5, <1>6, <1>7, <1>8, <1>9, <1>10, <1>11, <1>12,
     <1>13, <1>14, <1>15, <1>16, <1>17, <1>18 DEF RunStep

LEMMA TypeTick == TypeOK /\ Tick => TypeOK'
<1> SUFFICES ASSUME TypeOK, Tick PROVE TypeOK' OBVIOUS
<1> USE TimingAssumption DEF TypeOK, Tick
<1>1. ttl' \in [Deployment -> 0..LeaseDuration] OBVIOUS
<1>2. lag' \in [Run -> 0..MaxLag] OBVIOUS
<1>3. watchdog' \in [Run -> 0..LeaseDuration] OBVIOUS
<1>q. QED BY <1>1, <1>2, <1>3 DEF rowVars

LEMMA TypeNext == TypeOK /\ [Next]_vars => TypeOK'
<1> SUFFICES ASSUME TypeOK, [Next]_vars PROVE TypeOK' OBVIOUS
<1>1. CASE \E d \in Deployment : RowStep(d) BY <1>1, TypeRow
<1>2. CASE \E r \in Run : RunStep(r) BY <1>2, TypeRun
<1>3. CASE \E n \in 1..MaxCapacity : ConfigureServerCapacity(n)
  BY <1>3 DEF ConfigureServerCapacity, TypeOK, rowVars, leaseVars, runVars
<1>4. CASE Tick BY <1>4, TypeTick
<1>5. CASE UNCHANGED vars BY <1>5 DEF vars, TypeOK
<1>q. QED BY <1>1, <1>2, <1>3, <1>4, <1>5 DEF Next

\* Every reachable state is well typed, whatever the instance.
THEOREM TypeCorrect == Spec => []TypeOK
  BY TypeInit, TypeNext, PTL DEF Spec

-------------------------------------------------------------------------------
(* A live lease under every build.                                          *)

LEMMA InvInit == Init => Inv
<1> SUFFICES ASSUME Init PROVE Inv OBVIOUS
<1>1. TypeOK BY TypeInit
<1>2. NotYetOwner BY RunAssumption DEF Init, NotYetOwner
<1>q. QED
  BY <1>1, <1>2 DEF Init, Inv, AnswerOnlyWhileBuilding, SettledLag, Margin, Running, Slotted

\* Steps that touch neither a lease nor a run's timers and phase.
LEMMA InvFrame ==
  ASSUME Inv, TypeOK', UNCHANGED <<leaseVars, runVars>> PROVE Inv'
<1> USE DEF leaseVars, runVars
<1>1. NotYetOwner' BY DEF Inv, NotYetOwner
<1>2. AnswerOnlyWhileBuilding' /\ SettledLag'
  BY DEF Inv, AnswerOnlyWhileBuilding, SettledLag, Arming
<1>3. Margin' BY DEF Inv, Margin, Running, Holds, Arming
<1>q. QED BY <1>1, <1>2, <1>3 DEF Inv

\* Steps of a run that leave the rows and the timers alone and that neither
\* enter nor leave the building phase.
LEMMA InvMove ==
  ASSUME Inv, TypeOK', NEW r \in Run, NEW p \in Phase \ {"building"}, phase[r] # "building",
         phase' = [phase EXCEPT ![r] = p],
         p \in Asking => phase[r] \in Asking \cup {"idle"},
         p # "idle",
         p \in Slotted => phase[r] \in Slotted,
         p \in {"acquired", "recheck"} <=> phase[r] \in {"acquired", "recheck"},
         UNCHANGED <<leaseVars, renewal, lag, watchdog>>
  PROVE  Inv'
<1> USE DEF leaseVars, Inv, TypeOK
<1>1. NotYetOwner' BY DEF NotYetOwner, Asking
<1>2. AnswerOnlyWhileBuilding' BY DEF AnswerOnlyWhileBuilding
<1>3. SettledLag' BY DEF SettledLag, Arming
<1>4. Margin' BY DEF Margin, Running, Slotted, Holds, Arming
<1>q. QED BY <1>1, <1>2, <1>3, <1>4

\* A run leaves its slot, or ends: at most its own row goes with it.
LEMMA InvLeave ==
  ASSUME Inv, TypeOK', NEW r \in Run,
         NEW p \in {"failing", "aborted", "releasing", "built", "done", "crashed"},
         phase' = [phase EXCEPT ![r] = p],
         UNCHANGED holder \/ DropLease(r), UNCHANGED ttl,
         renewal'[r] \in {"none", "sent"}, lag'[r] = 0,
         \A q \in Run \ {r} : /\ renewal'[q] = renewal[q] /\ lag'[q] = lag[q]
                             /\ watchdog'[q] = watchdog[q]
  PROVE  Inv'
<1> USE DEF Inv, TypeOK
<1>0. /\ phase'[r] = p
      /\ \A q \in Run \ {r} : phase'[q] = phase[q]
  OBVIOUS
<1>1. NotYetOwner'
  <2>1. \A d \in Deployment : holder'[d] \in {holder[d], NoRun} BY RunAssumption DEF DropLease
  <2>q. QED BY <1>0, <2>1, RunAssumption DEF NotYetOwner, Asking
<1>2. AnswerOnlyWhileBuilding' BY <1>0 DEF AnswerOnlyWhileBuilding
<1>3. SettledLag' BY <1>0 DEF SettledLag, Arming
<1>4. Margin'
  <2> SUFFICES ASSUME NEW q \in Running'
               PROVE /\ Holds(q)'
                     /\ IF Arming(q)' THEN ttl'[RunOf[q]] + lag'[q] >= LeaseDuration
                        ELSE ttl'[RunOf[q]] + MaxLag >= watchdog'[q] + Heartbeat
    BY DEF Margin
  <2>1. q \in Run /\ q # r /\ q \in Running /\ phase'[q] = phase[q]
    BY <1>0 DEF Running, Slotted
  <2>2. holder'[RunOf[q]] = q
    <3>1. holder[RunOf[q]] = q /\ RunOf[q] \in Deployment
      BY <2>1, RunAssumption DEF Margin, Holds
    <3>2. Holds(r) => RunOf[q] # RunOf[r] BY <2>1, <3>1 DEF Holds
    <3>3. CASE UNCHANGED holder BY <3>1, <3>3
    <3>4. CASE DropLease(r) BY <3>1, <3>2, <3>4 DEF DropLease
    <3>q. QED BY <3>3, <3>4
  <2>3. Arming(q)' <=> Arming(q) BY <2>1 DEF Arming
  <2>q. QED BY <2>1, <2>2, <2>3 DEF Margin, Holds
<1>q. QED BY <1>1, <1>2, <1>3, <1>4

LEMMA InvDecide == ASSUME Inv, TypeOK', NEW r \in Run, Decide(r) PROVE Inv'
<1> USE RunAssumption, TimingAssumption DEF Inv, TypeOK
<1>1. /\ phase[r] = "purging" /\ lag[r] = 0 /\ UNCHANGED <<renewal, lag, watchdog>>
      /\ \A q \in Run \ {r} : phase'[q] = phase[q]
      /\ phase'[r] \in {"acquired", "check", "mark"}
  BY DEF Decide, SettledLag, Arming
<1>2. \A d \in Deployment : holder'[d] \in {r, NoRun, holder[d]} BY DEF Decide
<1>3. phase'[r] # "acquired" => \A d \in Deployment : holder'[d] \in {NoRun, holder[d]}
  BY DEF Decide
<1>4. NotYetOwner' BY <1>1, <1>2, <1>3 DEF NotYetOwner, Asking
<1>5. AnswerOnlyWhileBuilding' BY <1>1 DEF AnswerOnlyWhileBuilding
<1>6. SettledLag' BY <1>1 DEF SettledLag, Arming
<1>7. Margin'
  <2> SUFFICES ASSUME NEW q \in Running'
               PROVE /\ Holds(q)'
                     /\ IF Arming(q)' THEN ttl'[RunOf[q]] + lag'[q] >= LeaseDuration
                        ELSE ttl'[RunOf[q]] + MaxLag >= watchdog'[q] + Heartbeat
    BY DEF Margin
  <2>0. q \in Run BY DEF Running
  <2>1. CASE q = r
    <3>1. phase'[r] = "acquired" BY <2>1, <1>1 DEF Running, Slotted
    <3>2. /\ holder'[RunOf[r]] = r
          /\ ttl'[RunOf[r]] = LeaseDuration
      BY <3>1 DEF Decide, NewExpiry
    <3>q. QED BY <2>1, <3>1, <3>2, <1>1 DEF Holds, Arming
  <2>2. CASE q # r
    <3>1. q \in Running /\ phase'[q] = phase[q] BY <2>0, <2>2, <1>1 DEF Running
    <3>2. holder[RunOf[q]] = q /\ ttl[RunOf[q]] > 0
      BY <2>0, <3>1 DEF Margin, Holds
    <3>3. RunOf[q] \notin Expired BY <3>2 DEF Expired
    <3>4. RunOf[q] \in Kept BY <2>0, <3>2, <3>3 DEF Kept, Leased
    <3>5. Granted(r) => RunOf[q] # RunOf[r]
      BY <2>2, <3>2, <3>4 DEF Granted, Holds
    <3>6. holder'[RunOf[q]] = q /\ ttl'[RunOf[q]] = ttl[RunOf[q]]
      BY <2>0, <3>2, <3>3, <3>5 DEF Decide
    <3>7. Arming(q)' <=> Arming(q) BY <3>1, <1>1 DEF Arming
    <3>q. QED BY <2>0, <1>1, <3>1, <3>6, <3>7 DEF Margin, Holds
  <2>q. QED BY <2>1, <2>2
<1>q. QED BY <1>4, <1>5, <1>6, <1>7

LEMMA InvRecheck == ASSUME Inv, TypeOK', NEW r \in Run, Recheck(r) PROVE Inv'
<1> USE RunAssumption, TimingAssumption DEF Inv, TypeOK
<1>1. CASE phase'[r] = "failing"
  <2>1. phase' = [phase EXCEPT ![r] = "failing"] /\ (UNCHANGED holder \/ DropLease(r))
    BY <1>1 DEF Recheck, Goto
  <2>2. renewal'[r] \in {"none", "sent"} BY DEF Recheck, Goto, AnswerOnlyWhileBuilding, Renewal
  <2>3. watchdog' = watchdog BY <1>1 DEF Recheck, Goto
  <2>q. QED BY <2>1, <2>2, <2>3, InvLeave DEF Recheck
<1>2. CASE phase'[r] = "building"
  <2>1. /\ phase[r] = "recheck" /\ phase' = [phase EXCEPT ![r] = "building"]
        /\ lag' = [lag EXCEPT ![r] = 0] /\ watchdog' = [watchdog EXCEPT ![r] = SafetyWindow]
        /\ UNCHANGED <<holder, ttl, renewal>>
    BY <1>2 DEF Recheck, Goto
  <2>2. NotYetOwner' BY <2>1 DEF NotYetOwner, Asking
  <2>3. AnswerOnlyWhileBuilding' BY <2>1 DEF AnswerOnlyWhileBuilding
  <2>4. renewal[r] # "renewed" BY <2>1 DEF AnswerOnlyWhileBuilding
  <2>5. SettledLag' BY <2>1 DEF SettledLag, Arming
  <2>6. Margin' BY <2>1, <2>4 DEF Margin, Running, Slotted, Holds, Arming, SafetyWindow
  <2>q. QED BY <2>2, <2>3, <2>5, <2>6
<1>q. QED BY <1>1, <1>2 DEF Recheck, Goto

LEMMA InvRenewal ==
  ASSUME Inv, TypeOK', NEW r \in Run, SendRenewal(r) \/ Renew(r) \/ RenewalAnswered(r)
  PROVE  Inv'
<1> USE RunAssumption, TimingAssumption DEF Inv, TypeOK
<1>0. UNCHANGED <<phase, holder>>
  BY DEF SendRenewal, Renew, RenewalAnswered, leaseVars
<1>1. NotYetOwner' BY <1>0 DEF NotYetOwner
<1>2. CASE SendRenewal(r)
  <2>1. AnswerOnlyWhileBuilding' BY <1>0, <1>2 DEF SendRenewal, AnswerOnlyWhileBuilding
  <2>2. SettledLag' BY <1>0, <1>2 DEF SendRenewal, SettledLag, Arming
  <2>3. Margin' BY <1>0, <1>2 DEF SendRenewal, Margin, Running, Holds, Arming, leaseVars
  <2>q. QED BY <1>1, <2>1, <2>2, <2>3
<1>3. CASE Renew(r)
  <2>1. AnswerOnlyWhileBuilding' BY <1>0, <1>3 DEF Renew, AnswerOnlyWhileBuilding
  <2>2. SettledLag' BY <1>0, <1>3 DEF Renew, SettledLag, Arming
  <2>3. Margin'
    <3> SUFFICES ASSUME NEW q \in Running'
                 PROVE /\ Holds(q)'
                       /\ IF Arming(q)' THEN ttl'[RunOf[q]] + lag'[q] >= LeaseDuration
                          ELSE ttl'[RunOf[q]] + MaxLag >= watchdog'[q] + Heartbeat
      BY DEF Margin
    <3>1. q \in Run /\ q \in Running BY <1>0 DEF Running
    <3>2. holder[RunOf[q]] = q BY <3>1 DEF Margin, Holds
    <3>3. CASE q = r
      <4>1. Holds(r) BY <3>2, <3>3 DEF Holds
      <4>2. ttl'[RunOf[q]] = LeaseDuration BY <3>1, <3>3, <4>1, <1>3 DEF Renew, NewExpiry
      <4>3. phase[q] = "building" => Arming(q)' BY <3>3, <4>1, <1>0, <1>3 DEF Renew, Arming
      <4>4. phase[q] # "building" => Arming(q)' BY <3>1, <1>0 DEF Running, Slotted, Arming
      <4>5. lag'[q] \in Nat BY <3>1
      <4>q. QED BY <3>2, <4>2, <4>3, <4>4, <4>5, <1>0 DEF Holds
    <3>4. CASE q # r
      <4>1. ttl'[RunOf[q]] = ttl[RunOf[q]]
        BY <3>1, <3>2, <3>4, <1>3 DEF Renew, Holds
      <4>2. /\ Arming(q)' <=> Arming(q)
            /\ lag'[q] = lag[q] /\ watchdog'[q] = watchdog[q]
        BY <3>1, <3>4, <1>0, <1>3 DEF Renew, Arming
      <4>q. QED BY <3>1, <3>2, <4>1, <4>2, <1>0 DEF Margin, Holds
    <3>q. QED BY <3>3, <3>4
  <2>q. QED BY <1>1, <2>1, <2>2, <2>3
<1>4. CASE RenewalAnswered(r)
  <2>1. AnswerOnlyWhileBuilding' BY <1>0, <1>4 DEF RenewalAnswered, AnswerOnlyWhileBuilding
  <2>2. SettledLag' BY <1>0, <1>4 DEF RenewalAnswered, SettledLag, Arming
  <2>3. Margin'
    BY <1>0, <1>4
    DEF RenewalAnswered, Margin, Running, Slotted, Holds, Arming, SafetyWindow, leaseVars
  <2>q. QED BY <1>1, <2>1, <2>2, <2>3
<1>q. QED BY <1>2, <1>3, <1>4

LEMMA InvTick == ASSUME Inv, TypeOK', Tick PROVE Inv'
<1> USE RunAssumption, TimingAssumption DEF Inv, TypeOK, Tick
<1>1. NotYetOwner' BY DEF NotYetOwner
<1>2. AnswerOnlyWhileBuilding' BY DEF AnswerOnlyWhileBuilding
<1>3. SettledLag' BY DEF SettledLag, Arming
<1>4. Margin'
  <2> SUFFICES ASSUME NEW r \in Running'
               PROVE /\ Holds(r)'
                     /\ IF Arming(r)' THEN ttl'[RunOf[r]] + lag'[r] >= LeaseDuration
                        ELSE ttl'[RunOf[r]] + MaxLag >= watchdog'[r] + Heartbeat
    BY DEF Margin
  <2>1. r \in Run /\ r \in Running /\ RunOf[r] \in Deployment BY DEF Running
  <2>2. Holds(r)' BY <2>1 DEF Margin, Holds
  <2>3. Arming(r)' <=> Arming(r) BY DEF Arming
  <2>4. ttl[RunOf[r]] - 1 <= ttl'[RunOf[r]] /\ ttl'[RunOf[r]] \in Nat /\ ttl[RunOf[r]] \in Nat
    BY <2>1
  <2>5. CASE Arming(r)
    <3>1. lag'[r] = lag[r] + 1 /\ lag[r] \in Nat BY <2>1, <2>5
    <3>2. ttl[RunOf[r]] + lag[r] >= LeaseDuration BY <2>1, <2>5 DEF Margin
    <3>q. QED BY <2>2, <2>3, <2>4, <2>5, <3>1, <3>2
  <2>6. CASE ~Arming(r)
    <3>1. phase[r] = "building" BY <2>1, <2>6 DEF Running, Slotted, Arming
    <3>2. watchdog'[r] = watchdog[r] - 1 /\ watchdog[r] \in Nat BY <2>1, <3>1
    <3>3. ttl[RunOf[r]] + MaxLag >= watchdog[r] + Heartbeat BY <2>1, <2>6 DEF Margin
    <3>q. QED BY <2>2, <2>3, <2>4, <2>6, <3>2, <3>3
  <2>q. QED BY <2>5, <2>6
<1>q. QED BY <1>1, <1>2, <1>3, <1>4

LEMMA InvRun == ASSUME Inv, TypeOK', NEW r \in Run, RunStep(r) PROVE Inv'
<1> USE RunAssumption DEF Inv
<1> DEFINE Moved(p) == phase' = [phase EXCEPT ![r] = p]
<1>0. UNCHANGED lag => (phase[r] \in {"building", "acquired", "recheck"} \/ lag'[r] = 0)
  BY DEF SettledLag, Arming
<1>1. CASE Begin(r)
  <2>1. /\ phase[r] = "idle" /\ (Moved("mark") \/ Moved("done"))
        /\ UNCHANGED <<leaseVars, renewal, lag, watchdog>>
    BY <1>1 DEF Begin, Goto
  <2>q. QED BY <2>1, InvMove DEF Phase, Asking, Slotted
<1>2. CASE MarkWaiting(r)
  <2>1. /\ phase[r] = "mark" /\ Moved("check")
        /\ UNCHANGED <<leaseVars, renewal, lag, watchdog>>
    BY <1>2 DEF MarkWaiting, Goto
  <2>q. QED BY <2>1, InvMove DEF Phase, Asking, Slotted
<1>3. CASE Check(r)
  <2>1. /\ phase[r] = "check" /\ (Moved("failing") \/ Moved("acquire"))
        /\ UNCHANGED <<leaseVars, renewal, lag, watchdog>>
    BY <1>3 DEF Check, Goto
  <2>q. QED BY <2>1, InvMove DEF Phase, Asking, Slotted
<1>4. CASE LockServer(r)
  <2>1. /\ phase[r] = "acquire" /\ Moved("purging")
        /\ UNCHANGED <<leaseVars, renewal, lag, watchdog>>
    BY <1>4 DEF LockServer, Goto
  <2>q. QED BY <2>1, InvMove DEF Phase, Asking, Slotted
<1>5. CASE Decide(r) BY <1>5, InvDecide
<1>6. CASE MarkAcquired(r)
  <2>1. /\ phase[r] = "acquired" /\ Moved("recheck")
        /\ UNCHANGED <<leaseVars, renewal, lag, watchdog>>
    BY <1>6 DEF MarkAcquired, Goto
  <2>q. QED BY <2>1, InvMove DEF Phase, Asking, Slotted
<1>7. CASE Recheck(r) BY <1>7, InvRecheck
<1>8. CASE StatementFails(r)
  <2>1. /\ phase[r] # "building" /\ Moved("failing") /\ lag' = [lag EXCEPT ![r] = 0]
        /\ UNCHANGED <<leaseVars, renewal, watchdog>>
    BY <1>8 DEF StatementFails
  <2>2. renewal'[r] \in {"none", "sent"} BY <2>1 DEF AnswerOnlyWhileBuilding, TypeOK, Renewal
  <2>q. QED BY <2>1, <2>2, InvLeave DEF leaseVars, TypeOK
<1>9. CASE SendRenewal(r) \/ Renew(r) \/ RenewalAnswered(r) BY <1>9, InvRenewal
<1>10. CASE AbortForLeaseLoss(r) \/ FinishBuild(r)
  <2>1. /\ Moved("aborted") \/ Moved("releasing")
        /\ renewal' = [renewal EXCEPT ![r] = IF @ = "sent" THEN "sent" ELSE "none"]
        /\ lag' = [lag EXCEPT ![r] = 0] /\ watchdog' = [watchdog EXCEPT ![r] = 0]
    BY <1>10 DEF AbortForLeaseLoss, FinishBuild, StopBuilding, Goto
  <2>2. UNCHANGED leaseVars BY <1>10 DEF AbortForLeaseLoss, FinishBuild
  <2>q. QED BY <2>1, <2>2, InvLeave DEF leaseVars, TypeOK
<1>11. CASE Release(r)
  <2>1. /\ phase[r] \in {"aborted", "releasing"} /\ (Moved("built") \/ Moved("failing"))
        /\ UNCHANGED holder \/ DropLease(r)
        /\ UNCHANGED <<ttl, renewal, lag, watchdog>>
    BY <1>11 DEF Release, Goto
  <2>2. renewal'[r] \in {"none", "sent"} BY <2>1 DEF AnswerOnlyWhileBuilding, TypeOK, Renewal
  <2>q. QED BY <1>0, <2>1, <2>2, InvLeave
<1>12. CASE Complete(r) \/ FailBuilt(r) \/ Fail(r)
  <2>1. /\ phase[r] \in {"built", "failing"} /\ Moved("done")
        /\ UNCHANGED <<leaseVars, renewal, lag, watchdog>>
    BY <1>12 DEF Complete, FailBuilt, Fail, Conclude, Goto
  <2>2. renewal'[r] \in {"none", "sent"} BY <2>1 DEF AnswerOnlyWhileBuilding, TypeOK, Renewal
  <2>q. QED BY <1>0, <2>1, <2>2, InvLeave DEF leaseVars
<1>13. CASE Crash(r)
  <2>1. /\ Moved("crashed") /\ UNCHANGED leaseVars
        /\ renewal' = [renewal EXCEPT ![r] = IF @ = "sent" THEN "sent" ELSE "none"]
        /\ lag' = [lag EXCEPT ![r] = 0] /\ watchdog' = [watchdog EXCEPT ![r] = 0]
    BY <1>13 DEF Crash
  <2>q. QED BY <2>1, InvLeave DEF leaseVars, TypeOK
<1>q. QED
  BY <1>1, <1>2, <1>3, <1>4, <1>5, <1>6, <1>7, <1>8, <1>9, <1>10, <1>11, <1>12, <1>13
     DEF RunStep

LEMMA InvNext == Inv /\ [Next]_vars => Inv'
<1> SUFFICES ASSUME Inv, [Next]_vars PROVE Inv' OBVIOUS
<1>0. TypeOK' BY TypeNext DEF Inv
<1>1. CASE \E d \in Deployment : RowStep(d)
  BY <1>0, <1>1, InvFrame
  DEF RowStep, Claim, Cancel, DispatchFails, WatchdogSelect, WatchdogFail, OperatorTransition
<1>2. CASE \E r \in Run : RunStep(r) BY <1>0, <1>2, InvRun
<1>3. CASE \E n \in 1..MaxCapacity : ConfigureServerCapacity(n)
  BY <1>0, <1>3, InvFrame DEF ConfigureServerCapacity
<1>4. CASE Tick BY <1>0, <1>4, InvTick
<1>5. CASE UNCHANGED vars BY <1>0, <1>5, InvFrame DEF vars, leaseVars, runVars
<1>q. QED BY <1>1, <1>2, <1>3, <1>4, <1>5 DEF Next

LEMMA SpecInv == Spec => []Inv
  BY InvInit, InvNext, PTL DEF Spec

LEMMA InvLiveLease == Inv => SlotHasLiveLease
  BY TimingAssumption, RunAssumption DEF Inv, TypeOK, Margin, SlotHasLiveLease, Running

\* A run that was given a slot owns an unexpired lease until it lets go of it,
\* for every timing in which an answer is faster than a heartbeat interval.
THEOREM LiveLease == Spec => []SlotHasLiveLease
  BY SpecInv, InvLiveLease, PTL

-------------------------------------------------------------------------------
(* The refinement of the counting semaphore.                                *)

\* There are never more builds than rows the next acquisition would keep.
LEMMA RunningBound ==
  ASSUME Inv
  PROVE  /\ IsFiniteSet(Kept) /\ Cardinality(Kept) \in Nat
         /\ IsFiniteSet(Running) /\ Cardinality(Running) \in Nat
         /\ Cardinality(Running) <= Cardinality(Kept)
<1> DEFINE f == [r \in Running |-> RunOf[r]]
<1>1. IsFiniteSet(Kept) BY DeploymentAssumption, FS_Subset DEF Kept, Leased
<1>2. \A r \in Running : holder[RunOf[r]] = r /\ ttl[RunOf[r]] > 0
  BY InvLiveLease DEF SlotHasLiveLease, Holds
<1>3. f \in [Running -> Kept]
  BY <1>2, RunAssumption DEF Kept, Leased, Expired, Running
<1>4. \A r, q \in Running : f[r] = f[q] => r = q BY <1>2
<1>5. f \in Injection(Running, Kept) BY <1>3, <1>4 DEF Injection, IsInjective
<1>6. IsFiniteSet(Running) /\ Cardinality(Running) <= Cardinality(Kept)
  BY <1>1, <1>5, FS_Injection
<1>q. QED BY <1>1, <1>6, FS_CardinalityType

\* A grant finds a free slot: the run owns no row yet, so its place in the
\* queue, which is at least 1, is within the available slots.
LEMMA GrantFindsSlot ==
  ASSUME Inv, NEW r \in Run, phase[r] = "purging", Granted(r)
  PROVE  Cardinality(Running) < capacity
<1>1. RunOf[r] \in Deployment BY RunAssumption
<1>2. ~Holds(r) BY <1>1 DEF Inv, NotYetOwner, Asking, Holds
<1>3. QueuePosition(r) <= AvailableSlots BY <1>2 DEF Granted
<1>4. QueuePosition(r) \in Nat /\ QueuePosition(r) >= 1
  <2> DEFINE Before == IF RunOf[r] \in WaitingQueue(r)
                       THEN {e \in WaitingQueue(r) : e < RunOf[r]} ELSE WaitingQueue(r)
  <2>1. Before \subseteq Deployment BY DEF WaitingQueue
  <2>2. Cardinality(Before) \in Nat
    BY <2>1, DeploymentAssumption, FS_Subset, FS_CardinalityType
  <2>q. QED BY <2>2 DEF QueuePosition
<1>5. capacity \in Nat BY CapacityAssumption DEF Inv, TypeOK
<1>q. QED BY <1>3, <1>4, <1>5, RunningBound DEF AvailableSlots

LEMMA SemaphoreInit == Init => Semaphore!Init
  BY DEF Init, Semaphore!Init, Running, Slotted

\* A step in which at most one run's phase changes, and that enters no slot.
LEMMA NoEntry ==
  ASSUME TypeOK, NEW r \in Run, \A q \in Run \ {r} : phase'[q] = phase[q],
         phase'[r] \in Slotted => phase[r] \in Slotted, UNCHANGED capacity
  PROVE  UNCHANGED <<capacity, Running>> \/ Semaphore!Leave(r)
<1>1. CASE r \in Running /\ phase'[r] \notin Slotted
  <2>1. Running' = Running \ {r} BY <1>1 DEF Running
  <2>q. QED BY <1>1, <2>1 DEF Semaphore!Leave
<1>2. CASE ~(r \in Running /\ phase'[r] \notin Slotted)
  <2>1. Running' = Running BY <1>2 DEF Running
  <2>q. QED BY <2>1
<1>q. QED BY <1>1, <1>2

LEMMA SemaphoreRun ==
  ASSUME Inv, NEW r \in Run, RunStep(r)
  PROVE  UNCHANGED <<capacity, Running>> \/ Semaphore!Enter(r) \/ Semaphore!Leave(r)
<1>0. TypeOK BY DEF Inv
<1>1. CASE Decide(r) /\ phase'[r] = "acquired"
  <2>1. phase[r] = "purging" /\ Granted(r) /\ phase' = [phase EXCEPT ![r] = "acquired"]
        /\ UNCHANGED capacity
    BY <1>0, <1>1 DEF Decide, TypeOK
  <2>2. r \notin Running /\ Running' = Running \cup {r}
    BY <1>0, <2>1 DEF Running, Slotted, TypeOK
  <2>3. Cardinality(Running) < capacity BY <2>1, GrantFindsSlot
  <2>4. Semaphore!Cardinality(Running) = Cardinality(Running)
    BY DEF Semaphore!Cardinality, Cardinality
  <2>5. Semaphore!Enter(r) BY <2>1, <2>2, <2>3, <2>4 DEF Semaphore!Enter
  <2>q. QED BY <2>5
<1>2. CASE ~(Decide(r) /\ phase'[r] = "acquired")
  <2>1. /\ \A q \in Run \ {r} : phase'[q] = phase[q]
        /\ phase'[r] \in Slotted => phase[r] \in Slotted
        /\ UNCHANGED capacity
    BY <1>0, <1>2
    DEF RunStep, Begin, MarkWaiting, Check, LockServer, Decide, MarkAcquired, Recheck,
        StatementFails, SendRenewal, Renew, RenewalAnswered, AbortForLeaseLoss,
        FinishBuild, StopBuilding, Release, Complete, FailBuilt, Fail, Conclude, Crash,
        Goto, TypeOK, Slotted
  <2>q. QED BY <1>0, <2>1, NoEntry
<1>q. QED BY <1>1, <1>2

LEMMA SemaphoreNext == Inv /\ [Next]_vars => [Semaphore!Next]_<<capacity, Running>>
<1> SUFFICES ASSUME Inv, [Next]_vars PROVE [Semaphore!Next]_<<capacity, Running>> OBVIOUS
<1>1. CASE \E d \in Deployment : RowStep(d)
  BY <1>1
  DEF RowStep, Claim, Cancel, DispatchFails, WatchdogSelect, WatchdogFail, OperatorTransition,
      runVars, Running
<1>2. CASE \E r \in Run : RunStep(r) BY <1>2, SemaphoreRun DEF Semaphore!Next
<1>3. CASE \E n \in 1..MaxCapacity : ConfigureServerCapacity(n)
  BY <1>3 DEF ConfigureServerCapacity, runVars, Running, Semaphore!Next, Semaphore!SetLimit
<1>4. CASE Tick BY <1>4 DEF Tick, Running
<1>5. CASE UNCHANGED vars BY <1>5 DEF vars, Running
<1>q. QED BY <1>1, <1>2, <1>3, <1>4, <1>5 DEF Next

\* Builds enter and leave like users of a semaphore whose limit is the server's
\* maxConcurrentBuilds: no grant finds as many builds running as are allowed.
THEOREM SlotsImplementSemaphore == Spec => SlotsAreASemaphore
  BY SemaphoreInit, SemaphoreNext, SpecInv, PTL
     DEF Spec, SlotsAreASemaphore, Semaphore!Spec

-------------------------------------------------------------------------------
(* A healthy build is not abandoned, and its row has left the queue.         *)

\* The acquisition fails what it selected as expired.  A slot's row is never
\* among that: it was live when the server was locked, or was granted later,
\* under the lock.
SlotNotSeenExpired == \A r \in Running : RunOf[r] \notin seenExpired
ExpiredIsFailed == \A d \in Deployment : error[d] = "lease expired" => status[d] = "failed"

OnlyRun(r) == \A q \in Run : RunOf[q] = RunOf[r] => q = r
\* From the last mark on, the row of a deployment with one run is "deploy", or
\* has ended.
RowOfBuild(r) ==
  LET s == status[RunOf[r]] IN
  /\ phase[r] # "idle" => s # "queued"
  /\ phase[r] = "recheck" => s \in Terminal \cup {"deploy"}
  /\ phase[r] = "building" => s \in Terminal \cup {"deploy"}
RowsOfBuilds == \A r \in Run : OnlyRun(r) => RowOfBuild(r)

Healthy == SlotNotSeenExpired /\ ExpiredIsFailed /\ HealthyBuildNotAbandoned /\ RowsOfBuilds

LEMMA SlotNotSeenKept ==
  ASSUME Inv, SlotNotSeenExpired, [Next]_vars
  PROVE  SlotNotSeenExpired'
<1>1. ASSUME NEW r \in Run, LockServer(r) PROVE SlotNotSeenExpired'
  <2>1. Running' = Running /\ seenExpired' = Expired
    BY <1>1 DEF LockServer, Goto, Running, Slotted, Inv, TypeOK
  <2>2. \A q \in Running : ttl[RunOf[q]] > 0 /\ ttl[RunOf[q]] \in Nat
    BY InvLiveLease, RunAssumption DEF SlotHasLiveLease, Running, Inv, TypeOK
  <2>q. QED BY <2>1, <2>2 DEF SlotNotSeenExpired, Expired
<1>2. ASSUME NEW r \in Run, Decide(r) PROVE SlotNotSeenExpired'
  BY <1>2 DEF Decide, SlotNotSeenExpired
<1>3. ASSUME NEW r \in Run, RunStep(r), ~LockServer(r), ~Decide(r) PROVE SlotNotSeenExpired'
  <2>1. seenExpired' \in {seenExpired, {}}
    BY <1>3
    DEF RunStep, Begin, MarkWaiting, Check, MarkAcquired, Recheck, StatementFails,
        SendRenewal, Renew, RenewalAnswered, AbortForLeaseLoss, FinishBuild, Release,
        Complete, FailBuilt, Fail, Conclude, Crash
  <2>2. Running' \subseteq Running
    <3>1. /\ \A q \in Run \ {r} : phase'[q] = phase[q]
          /\ phase'[r] \in Slotted => phase[r] \in Slotted
      BY <1>3
      DEF RunStep, Begin, MarkWaiting, Check, MarkAcquired, Recheck,
          StatementFails, SendRenewal, Renew, RenewalAnswered, AbortForLeaseLoss,
          FinishBuild, StopBuilding, Release, Complete, FailBuilt, Fail, Conclude, Crash,
          Goto, Inv, TypeOK, Slotted
    <3>q. QED BY <3>1 DEF Running
  <2>q. QED BY <2>1, <2>2 DEF SlotNotSeenExpired
<1>4. ASSUME UNCHANGED <<phase, seenExpired>> PROVE SlotNotSeenExpired'
  BY <1>4 DEF SlotNotSeenExpired, Running
<1>5. /\ \A d \in Deployment : RowStep(d) => UNCHANGED <<phase, seenExpired>>
      /\ \A n \in 1..MaxCapacity : ConfigureServerCapacity(n) => UNCHANGED <<phase, seenExpired>>
      /\ Tick \/ UNCHANGED vars => UNCHANGED <<phase, seenExpired>>
  BY DEF RowStep, Claim, Cancel, DispatchFails, WatchdogSelect, WatchdogFail,
         OperatorTransition, ConfigureServerCapacity, Tick, vars, runVars
<1>q. QED BY <1>1, <1>2, <1>3, <1>4, <1>5 DEF Next

\* A row that has ended stays as it is; only an acquisition writes the error of
\* an expired lease, and fails the row with it.
LEMMA RowEnds ==
  ASSUME Inv, [Next]_vars, NEW d \in Deployment
  PROVE  /\ status[d] \in Terminal => status'[d] = status[d]
         /\ \/ error'[d] = error[d]
            \/ error'[d] = "other"
            \/ /\ d \in seenExpired /\ status[d] \in Buildable
               /\ status'[d] = "failed"
<1> USE DEF Inv, TypeOK, Terminal, Buildable
<1>1. ASSUME NEW r \in Run, Decide(r)
      PROVE  \/ status'[d] = status[d] /\ error'[d] = error[d]
             \/ d \in seenExpired /\ status[d] \in Buildable /\ status'[d] = "failed"
  BY <1>1 DEF Decide, FailAbandoned, Abandoned
<1>2. ASSUME NEW e \in Deployment, RowStep(e)
      PROVE  /\ status[d] \in Terminal => status'[d] = status[d]
             /\ error'[d] \in {error[d], "other"}
  BY <1>2 DEF RowStep, Claim, Cancel, DispatchFails, WatchdogSelect, WatchdogFail,
              OperatorTransition, rowVars
<1>3. ASSUME NEW r \in Run, Begin(r) \/ MarkWaiting(r) \/ MarkAcquired(r)
      PROVE  (status[d] \in Terminal => status'[d] = status[d]) /\ error' = error
  BY <1>3 DEF Begin, MarkWaiting, MarkAcquired, Mark
<1>4. ASSUME NEW r \in Run, Complete(r) \/ FailBuilt(r) \/ Fail(r)
      PROVE  /\ status[d] \in Terminal => status'[d] = status[d]
             /\ error'[d] \in {error[d], "other"}
  BY <1>4 DEF Complete, FailBuilt, Fail, Conclude
<1>5. ASSUME NEW r \in Run,
             \/ Check(r) \/ LockServer(r) \/ Recheck(r) \/ StatementFails(r) \/ SendRenewal(r)
             \/ Renew(r) \/ RenewalAnswered(r) \/ AbortForLeaseLoss(r) \/ FinishBuild(r)
             \/ Release(r) \/ Crash(r)
      PROVE  UNCHANGED <<status, error>>
  BY <1>5 DEF Check, LockServer, Recheck, StatementFails, SendRenewal, Renew, RenewalAnswered,
              AbortForLeaseLoss, FinishBuild, Release, Crash, rowVars
<1>6. /\ \A n \in 1..MaxCapacity : ConfigureServerCapacity(n) => UNCHANGED <<status, error>>
      /\ Tick \/ UNCHANGED vars => UNCHANGED <<status, error>>
  BY DEF ConfigureServerCapacity, Tick, vars, rowVars
<1>q. QED BY <1>1, <1>2, <1>3, <1>4, <1>5, <1>6 DEF Next, RunStep

\* Only Recheck lets a build begin, and not for a row that has ended.
LEMMA BuildBegins ==
  ASSUME Inv, [Next]_vars, NEW r \in Run, phase'[r] = "building", phase[r] # "building"
  PROVE  Recheck(r) /\ phase[r] = "recheck" /\ status[RunOf[r]] \notin Terminal
<1>1. ASSUME NEW q \in Run, RunStep(q), ~Recheck(q) PROVE phase'[r] # "building"
  BY <1>1
  DEF RunStep, Begin, MarkWaiting, Check, LockServer, Decide, MarkAcquired, StatementFails,
      SendRenewal, Renew, RenewalAnswered, AbortForLeaseLoss, FinishBuild, StopBuilding,
      Release, Complete, FailBuilt, Fail, Conclude, Crash, Goto, Inv, TypeOK
<1>2. ASSUME NEW q \in Run, Recheck(q)
      PROVE  q = r /\ phase[r] = "recheck" /\ status[RunOf[r]] \notin Terminal
  BY <1>2 DEF Recheck, Goto, ActiveForBuild, Inv, TypeOK
<1>3. /\ \A d \in Deployment : RowStep(d) => phase' = phase
      /\ \A n \in 1..MaxCapacity : ConfigureServerCapacity(n) => phase' = phase
      /\ Tick \/ UNCHANGED vars => phase' = phase
  BY DEF RowStep, Claim, Cancel, DispatchFails, WatchdogSelect, WatchdogFail,
         OperatorTransition, ConfigureServerCapacity, Tick, vars, runVars
<1>q. QED BY <1>1, <1>2, <1>3 DEF Next

LEMMA NotAbandonedKept ==
  ASSUME Inv, SlotNotSeenExpired, ExpiredIsFailed, HealthyBuildNotAbandoned, [Next]_vars
  PROVE  ExpiredIsFailed' /\ HealthyBuildNotAbandoned'
<1>1. ExpiredIsFailed'
  BY RowEnds DEF ExpiredIsFailed, Terminal
<1>2. ASSUME NEW r \in Run, phase'[r] = "building" PROVE error'[RunOf[r]] # "lease expired"
  <2>0. RunOf[r] \in Deployment BY RunAssumption
  <2>1. error[RunOf[r]] # "lease expired"
    BY <1>2, <2>0, BuildBegins DEF ExpiredIsFailed, HealthyBuildNotAbandoned, Terminal
  <2>2. RunOf[r] \in seenExpired => status[RunOf[r]] \in Terminal \/ r \notin Running
    BY DEF SlotNotSeenExpired
  <2>3. r \in Running
    BY <1>2, BuildBegins DEF Running, Slotted
  <2>4. RunOf[r] \notin seenExpired
    BY <2>3 DEF SlotNotSeenExpired
  <2>q. QED BY <2>0, <2>1, <2>4, RowEnds
<1>q. QED BY <1>1, <1>2 DEF HealthyBuildNotAbandoned

\* Whoever else touches the row of a build ends it, or leaves it running.
LEMMA RowOfBuildKept ==
  ASSUME Inv, SlotNotSeenExpired, NEW r \in Run, OnlyRun(r), RowOfBuild(r), [Next]_vars
  PROVE  RowOfBuild(r)'
<1> USE RunAssumption DEF Inv, TypeOK, RowOfBuild
<1> DEFINE d == RunOf[r]
<1>1. ASSUME NEW e \in Deployment, RowStep(e) PROVE RowOfBuild(r)'
  <2>1. phase' = phase
    BY <1>1
    DEF RowStep, Claim, Cancel, DispatchFails, WatchdogSelect, WatchdogFail, OperatorTransition,
        runVars
  <2>2. CASE e # d
    <3>1. status'[d] = status[d]
      BY <1>1, <2>2 DEF RowStep, Claim, Cancel, DispatchFails, WatchdogSelect, WatchdogFail,
                        OperatorTransition, rowVars
    <3>q. QED BY <2>1, <3>1
  <2>3. CASE Claim(d)
    BY <2>1, <2>3 DEF Claim, Terminal
  <2>4. CASE Cancel(d)
    BY <2>1, <2>4 DEF Cancel, Terminal
  <2>5. CASE DispatchFails(d) \/ WatchdogSelect(d) \/ WatchdogFail(d)
    <3>1. status'[d] \in {status[d], "failed"}
      BY <2>5 DEF DispatchFails, WatchdogSelect, WatchdogFail, rowVars
    <3>q. QED BY <2>1, <3>1 DEF Terminal
  <2>6. CASE \E s \in JobStatus : OperatorTransition(d, s)
    <3>1. status'[d] \in {"deploy", "completed", "failed"}
      BY <2>6, JobAssumption DEF OperatorTransition
    <3>q. QED BY <2>1, <3>1 DEF Terminal
  <2>q. QED BY <1>1, <2>2, <2>3, <2>4, <2>5, <2>6 DEF RowStep
<1>2. ASSUME NEW q \in Run \ {r}, RunStep(q) PROVE RowOfBuild(r)'
  <2>1. RunOf[q] # d BY DEF OnlyRun
  <2>2. phase'[r] = phase[r]
    BY <1>2
    DEF RunStep, Begin, MarkWaiting, Check, LockServer, Decide, MarkAcquired, Recheck,
        StatementFails, SendRenewal, Renew, RenewalAnswered, AbortForLeaseLoss,
        FinishBuild, StopBuilding, Release, Complete, FailBuilt, Fail, Conclude, Crash, Goto
  <2>3. CASE Decide(q)
    <3>1. status'[d] = status[d] \/ (d \in seenExpired /\ status'[d] = "failed")
      BY <2>3 DEF Decide, FailAbandoned, Abandoned
    <3>2. phase[r] = "building" => d \notin seenExpired
      BY DEF SlotNotSeenExpired, Running, Slotted
    <3>q. QED BY <2>2, <3>1, <3>2 DEF Terminal
  <2>4. CASE ~Decide(q)
    <3>1. status'[d] = status[d]
      BY <1>2, <2>1, <2>4
      DEF RunStep, Begin, MarkWaiting, Check, LockServer, MarkAcquired, Recheck, Mark,
          StatementFails, SendRenewal, Renew, RenewalAnswered, AbortForLeaseLoss,
          FinishBuild, Release, Complete, FailBuilt, Fail, Conclude, Crash, rowVars
    <3>q. QED BY <2>2, <3>1
  <2>q. QED BY <2>3, <2>4
<1>3. CASE Begin(r)
  BY <1>3 DEF Begin, Goto, Terminal, Status
<1>4. CASE MarkWaiting(r)
  BY <1>4 DEF MarkWaiting, Mark, Goto, Buildable
<1>5. CASE MarkAcquired(r)
  BY <1>5 DEF MarkAcquired, Mark, Goto, Buildable, Terminal, Status
<1>6. CASE Recheck(r)
  BY <1>6 DEF Recheck, Goto, ActiveForBuild, rowVars
<1>7. CASE Decide(r)
  BY <1>7 DEF Decide, FailAbandoned, Abandoned
<1>8. CASE Complete(r) \/ FailBuilt(r) \/ Fail(r)
  BY <1>8 DEF Complete, FailBuilt, Fail, Conclude, Goto
<1>9. ASSUME status' = status, phase'[r] \notin {"recheck", "building", "idle"},
             phase[r] # "idle"
      PROVE  RowOfBuild(r)'
  BY <1>9
<1>10. CASE Check(r) \/ LockServer(r) \/ StatementFails(r) \/ AbortForLeaseLoss(r)
            \/ FinishBuild(r) \/ Release(r) \/ Crash(r)
  BY <1>9, <1>10
  DEF Check, LockServer, StatementFails, AbortForLeaseLoss, FinishBuild, StopBuilding,
      Release, Crash, Alive, Goto, rowVars
<1>11. ASSUME UNCHANGED <<status, phase>> PROVE RowOfBuild(r)'
  BY <1>11
<1>12. /\ SendRenewal(r) \/ Renew(r) \/ RenewalAnswered(r) => UNCHANGED <<status, phase>>
       /\ \A n \in 1..MaxCapacity : ConfigureServerCapacity(n) => UNCHANGED <<status, phase>>
       /\ Tick \/ UNCHANGED vars => UNCHANGED <<status, phase>>
  BY DEF SendRenewal, Renew, RenewalAnswered, ConfigureServerCapacity, Tick, vars, rowVars, runVars
<1>13. RunStep(r) => RowOfBuild(r)'
  BY <1>3, <1>4, <1>5, <1>6, <1>7, <1>8, <1>10, <1>11, <1>12 DEF RunStep
<1>q. QED BY <1>1, <1>2, <1>11, <1>12, <1>13 DEF Next

LEMMA HealthyAlways == Spec => [](Inv /\ Healthy)
<1>1. Init => Healthy
  <2> SUFFICES ASSUME Init PROVE Healthy OBVIOUS
  <2>1. \A r \in Run : phase[r] = "idle" BY DEF Init
  <2>2. \A d \in Deployment : error[d] = "other" BY DEF Init
  <2>q. QED BY <2>1, <2>2, RunAssumption
        DEF Healthy, SlotNotSeenExpired, ExpiredIsFailed, HealthyBuildNotAbandoned,
            RowsOfBuilds, RowOfBuild, Running, Slotted
<1>2. Inv /\ Healthy /\ [Next]_vars => Healthy'
  <2> SUFFICES ASSUME Inv, Healthy, [Next]_vars PROVE Healthy' OBVIOUS
  <2>1. RowsOfBuilds'
    BY RowOfBuildKept DEF Healthy, RowsOfBuilds, OnlyRun
  <2>q. QED BY <2>1, SlotNotSeenKept, NotAbandonedKept DEF Healthy
<1>q. QED BY <1>1, <1>2, InvInit, InvNext, PTL DEF Spec

\* No acquisition fails a deployment that is building for an expired lease, for
\* any number of runs and every timing.
THEOREM BuildsAreNotAbandoned == Spec => []HealthyBuildNotAbandoned
<1>1. Healthy => HealthyBuildNotAbandoned BY DEF Healthy
<1>q. QED BY <1>1, HealthyAlways, PTL

\* Under the only run of a deployment that builds, the row is running or has
\* ended: no poller and no waiter takes it for one that has yet to build.
THEOREM BuildsHaveLeftTheQueue == Spec => []BuildingIsNotWaiting
<1>1. Healthy => BuildingIsNotWaiting
  BY DEF Healthy, RowsOfBuilds, RowOfBuild, OnlyRun, BuildingIsNotWaiting
<1>q. QED BY <1>1, HealthyAlways, PTL

-------------------------------------------------------------------------------
(* Slots go to the oldest.                                                   *)

LEMMA GrantLeavesRoom ==
  ASSUME Inv, NEW r \in Run, phase[r] = "purging", Granted(r), NEW W,
         W \subseteq {e \in WaitingQueue(r) : e < RunOf[r]}
  PROVE  /\ RunOf[r] \in Deployment /\ RunOf[r] \notin Kept
         /\ Cardinality(W) + Cardinality(Kept \cup {RunOf[r]}) <= capacity
<1>1. RunOf[r] \in Deployment BY RunAssumption
<1>2. ~Holds(r) BY <1>1 DEF Inv, NotYetOwner, Asking, Holds
<1>3. RunOf[r] \notin Kept /\ QueuePosition(r) <= AvailableSlots BY <1>2 DEF Granted
<1> DEFINE Before == IF RunOf[r] \in WaitingQueue(r)
                     THEN {e \in WaitingQueue(r) : e < RunOf[r]} ELSE WaitingQueue(r)
<1>4. /\ IsFiniteSet(Before) /\ Cardinality(Before) \in Nat
      /\ Cardinality(W) \in Nat /\ Cardinality(W) <= Cardinality(Before)
  <2>1. Before \subseteq Deployment /\ W \subseteq Before BY DEF WaitingQueue
  <2>q. QED BY <2>1, DeploymentAssumption, FS_Subset, FS_CardinalityType
<1>5. QueuePosition(r) = 1 + Cardinality(Before) BY DEF QueuePosition
<1>6. IsFiniteSet(Kept) /\ Cardinality(Kept) \in Nat BY RunningBound
<1>7. Cardinality(Kept \cup {RunOf[r]}) = Cardinality(Kept) + 1
  BY <1>3, <1>6, FS_AddElement
<1>8. capacity \in Nat BY CapacityAssumption DEF Inv, TypeOK
<1> DEFINE b == Cardinality(Before)
           k == Cardinality(Kept)
<1>9. 1 + b <= IF k < capacity THEN capacity - k ELSE 0
  BY <1>3, <1>5 DEF AvailableSlots
<1> HIDE DEF Before, b, k
<1>10. b \in Nat /\ k \in Nat BY <1>4, <1>6 DEF b, k
<1>11. b + k + 1 <= capacity BY <1>8, <1>9, <1>10
<1>12. Cardinality(W) <= b /\ Cardinality(W) \in Nat BY <1>4 DEF b
<1>13. Cardinality(Kept \cup {RunOf[r]}) = k + 1 BY <1>7 DEF k
<1>q. QED BY <1>1, <1>3, <1>8, <1>10, <1>11, <1>12, <1>13

\* A slot goes to a build only when enough slots remain for every older build
\* that is still waiting, for any set of deployments and any capacity.
THEOREM OlderBuildsComeFirst == Spec => OldestFirst
<1>1. ASSUME Inv, [Next]_vars, NEW r \in Run, r \in Running' \ Running
      PROVE  Cardinality({e \in Deployment : e < RunOf[r] /\ Waiting(e)'})
               + Cardinality(Leased') <= capacity
  <2>1. \A q \in Run : ~(RunStep(q) /\ ~(Decide(q) /\ q = r))
    BY <1>1
    DEF RunStep, Begin, MarkWaiting, Check, LockServer, Decide, MarkAcquired, Recheck,
        StatementFails, SendRenewal, Renew, RenewalAnswered, AbortForLeaseLoss,
        FinishBuild, StopBuilding, Release, Complete, FailBuilt, Fail, Conclude, Crash,
        Goto, Inv, TypeOK, Running, Slotted
  <2>2. /\ \A d \in Deployment : RowStep(d) => phase' = phase
        /\ \A n \in 1..MaxCapacity : ConfigureServerCapacity(n) => phase' = phase
        /\ Tick \/ UNCHANGED vars => phase' = phase
    BY DEF RowStep, Claim, Cancel, DispatchFails, WatchdogSelect, WatchdogFail,
           OperatorTransition, ConfigureServerCapacity, Tick, vars, runVars
  <2>3. Decide(r)
    BY <1>1, <2>1, <2>2 DEF Next, Running
  <2>4. phase[r] = "purging" /\ Granted(r)
    BY <1>1, <2>3 DEF Decide, Running, Slotted, Inv, TypeOK
  <2> DEFINE W == {e \in Deployment : e < RunOf[r] /\ Waiting(e)'}
  <2>5. /\ status' = [d \in Deployment |-> IF d \in Abandoned(r) THEN "failed" ELSE status[d]]
        /\ holder' = [d \in Deployment |-> IF d = RunOf[r] THEN r
                                           ELSE IF d \in Expired THEN NoRun ELSE holder[d]]
    BY <1>1, <2>3 DEF Decide, FailAbandoned, Running, Slotted, Inv, TypeOK
  <2>6. Leased' = Kept \cup {RunOf[r]}
    BY <2>5, RunAssumption DEF Leased, Kept, Expired
  <2>7. W \subseteq {e \in WaitingQueue(r) : e < RunOf[r]}
    <3>1. ASSUME NEW e \in Deployment, e < RunOf[r], Waiting(e)' PROVE e \in WaitingQueue(r)
      <4>1. status'[e] = "waiting" /\ holder'[e] = NoRun BY <3>1 DEF Waiting
      <4>2. e \notin Abandoned(r) /\ status[e] = "waiting" BY <2>5, <4>1
      <4>3. e \notin Kept BY <2>5, <4>1, RunAssumption DEF Kept, Leased
      <4>q. QED BY <4>2, <4>3 DEF WaitingQueue
    <3>q. QED BY <3>1
  <2> HIDE DEF W
  <2>8. Cardinality(W) + Cardinality(Kept \cup {RunOf[r]}) <= capacity
    BY <1>1, <2>4, <2>7, GrantLeavesRoom
  <2>q. QED BY <2>6, <2>8 DEF W
<1>2. Inv /\ [Next]_vars =>
        [\A r \in Run : r \in Running' \ Running =>
           Cardinality({e \in Deployment : e < RunOf[r] /\ Waiting(e)'})
             + Cardinality(Leased') <= capacity]_vars
  BY <1>1
<1>q. QED BY <1>2, SpecInv, PTL DEF Spec, OldestFirst
-------------------------------------------------------------------------------
(* A run that has finished its build.                                        *)

\* What the run relies on after its build: the statement that deletes its row
\* does not fail, and commits before the row expires.
ReleasesSucceed ==
  \A r \in Run : phase[r] = "releasing" /\ phase'[r] = "built" => ~Holds(r)'
ReleasesInTime == \A r \in Run : phase[r] = "releasing" => ttl[RunOf[r]] > 0

\* A row belongs to a run of its deployment.
OwnRows == \A d \in Deployment : holder[d] # NoRun => RunOf[holder[d]] = d
\* The row of a finished run was not seen expired, and is gone in the end.
FinishedRow(r) ==
  /\ phase[r] \in {"releasing", "built"} =>
       RunOf[r] \notin seenExpired /\ error[RunOf[r]] # "lease expired"
  /\ phase[r] = "built" => holder[RunOf[r]] = NoRun

LEMMA OwnRowsKept ==
  ASSUME Inv, OwnRows, [Next]_vars PROVE OwnRows'
<1> USE RunAssumption DEF Inv, TypeOK, OwnRows
<1>1. ASSUME NEW r \in Run, Decide(r) PROVE OwnRows'
  <2>1. \A d \in Deployment :
          holder'[d] \in {holder[d], NoRun} \/ (d = RunOf[r] /\ holder'[d] = r)
    BY <1>1 DEF Decide
  <2>q. QED BY <2>1
<1>2. ASSUME \A d \in Deployment : holder'[d] \in {holder[d], NoRun} PROVE OwnRows'
  BY <1>2
<1>3. ASSUME NEW r \in Run, RunStep(r), ~Decide(r)
      PROVE  \A d \in Deployment : holder'[d] \in {holder[d], NoRun}
  BY <1>3
  DEF RunStep, Begin, MarkWaiting, Check, LockServer, MarkAcquired, Recheck, StatementFails,
      SendRenewal, Renew, RenewalAnswered, AbortForLeaseLoss, FinishBuild, Release, DropLease,
      Complete, FailBuilt, Fail, Conclude, Crash, leaseVars
<1>4. /\ \A d \in Deployment : RowStep(d) => holder' = holder
      /\ \A n \in 1..MaxCapacity : ConfigureServerCapacity(n) => holder' = holder
      /\ Tick \/ UNCHANGED vars => holder' = holder
  BY DEF RowStep, Claim, Cancel, DispatchFails, WatchdogSelect, WatchdogFail,
         OperatorTransition, ConfigureServerCapacity, Tick, vars, leaseVars
<1>q. QED BY <1>1, <1>2, <1>3, <1>4 DEF Next

\* Where a finished run comes from.
LEMMA FinishedFrom ==
  ASSUME Inv, [Next]_vars, NEW r \in Run
  PROVE  /\ phase'[r] = "releasing" => phase[r] \in {"building", "releasing"}
         /\ phase'[r] = "built" => phase[r] \in {"releasing", "built"}
<1> USE DEF Inv, TypeOK
<1>1. ASSUME NEW q \in Run, RunStep(q)
      PROVE  /\ phase'[r] = "releasing" => phase[r] \in {"building", "releasing"}
             /\ phase'[r] = "built" => phase[r] \in {"releasing", "built"}
  BY <1>1
  DEF RunStep, Begin, MarkWaiting, Check, LockServer, Decide, MarkAcquired, Recheck,
      StatementFails, SendRenewal, Renew, RenewalAnswered, AbortForLeaseLoss, FinishBuild,
      StopBuilding, Release, Complete, FailBuilt, Fail, Conclude, Crash, Goto
<1>2. /\ \A d \in Deployment : RowStep(d) => phase' = phase
      /\ \A n \in 1..MaxCapacity : ConfigureServerCapacity(n) => phase' = phase
      /\ Tick \/ UNCHANGED vars => phase' = phase
  BY DEF RowStep, Claim, Cancel, DispatchFails, WatchdogSelect, WatchdogFail,
         OperatorTransition, ConfigureServerCapacity, Tick, vars, runVars
<1>q. QED BY <1>1, <1>2 DEF Next

\* Only LockServer selects expired rows.
LEMMA SeenByLock ==
  ASSUME Inv, [Next]_vars
  PROVE  \/ seenExpired' \in {seenExpired, {}}
         \/ \E q \in Run : LockServer(q)
<1>1. ASSUME NEW q \in Run, RunStep(q), ~LockServer(q) PROVE seenExpired' \in {seenExpired, {}}
  BY <1>1
  DEF RunStep, Begin, MarkWaiting, Check, Decide, MarkAcquired, Recheck, StatementFails,
      SendRenewal, Renew, RenewalAnswered, AbortForLeaseLoss, FinishBuild, Release,
      Complete, FailBuilt, Fail, Conclude, Crash
<1>2. /\ \A d \in Deployment : RowStep(d) => seenExpired' = seenExpired
      /\ \A n \in 1..MaxCapacity : ConfigureServerCapacity(n) => seenExpired' = seenExpired
      /\ Tick \/ UNCHANGED vars => seenExpired' = seenExpired
  BY DEF RowStep, Claim, Cancel, DispatchFails, WatchdogSelect, WatchdogFail,
         OperatorTransition, ConfigureServerCapacity, Tick, vars
<1>q. QED BY <1>1, <1>2 DEF Next

LEMMA FinishedRowKept ==
  ASSUME Inv, Healthy, OwnRows, OwnRows', ReleasesInTime, [Next]_vars, NEW r \in Run, OnlyRun(r),
         phase[r] = "releasing" /\ phase'[r] = "built" => ~Holds(r)',
         FinishedRow(r)
  PROVE  FinishedRow(r)'
<1> USE RunAssumption DEF Inv, TypeOK
<1> DEFINE d == RunOf[r]
<1>0. d \in Deployment OBVIOUS
<1>1. ASSUME phase'[r] = "built" PROVE holder'[d] = NoRun
  <2>1. phase[r] \in {"releasing", "built"} BY <1>1, FinishedFrom
  <2>2. CASE phase[r] = "releasing"
    <3>1. holder'[d] # r BY <1>1, <2>2 DEF Holds
    <3>2. holder'[d] # NoRun => RunOf[holder'[d]] = d BY <1>0 DEF OwnRows
    <3>3. holder'[d] \in Run \cup {NoRun} BY <1>0, TypeNext
    <3>q. QED BY <3>1, <3>2, <3>3 DEF OnlyRun
  <2>3. CASE phase[r] = "built"
    <3>1. holder[d] = NoRun BY <2>3 DEF FinishedRow
    <3>2. ASSUME NEW q \in Run, Decide(q) PROVE holder'[d] \in {holder[d], NoRun}
      <4>1. RunOf[q] # d BY <2>3, <3>2 DEF OnlyRun, Decide
      <4>q. QED BY <1>0, <3>2, <4>1 DEF Decide
    <3>3. ASSUME NEW q \in Run, RunStep(q), ~Decide(q) PROVE holder'[d] \in {holder[d], NoRun}
      BY <1>0, <3>3
      DEF RunStep, Begin, MarkWaiting, Check, LockServer, MarkAcquired, Recheck, StatementFails,
          SendRenewal, Renew, RenewalAnswered, AbortForLeaseLoss, FinishBuild, Release, DropLease,
          Complete, FailBuilt, Fail, Conclude, Crash, leaseVars
    <3>4. /\ \A e \in Deployment : RowStep(e) => holder' = holder
          /\ \A n \in 1..MaxCapacity : ConfigureServerCapacity(n) => holder' = holder
          /\ Tick \/ UNCHANGED vars => holder' = holder
      BY DEF RowStep, Claim, Cancel, DispatchFails, WatchdogSelect, WatchdogFail,
             OperatorTransition, ConfigureServerCapacity, Tick, vars, leaseVars
    <3>q. QED BY <3>1, <3>2, <3>3, <3>4 DEF Next
  <2>q. QED BY <2>1, <2>2, <2>3
<1>2. ASSUME phase'[r] \in {"releasing", "built"}
      PROVE  d \notin seenExpired' /\ error'[d] # "lease expired"
  <2>1. phase[r] \in {"building", "releasing", "built"} BY <1>2, FinishedFrom
  <2>2. d \notin seenExpired /\ error[d] # "lease expired"
    <3>1. CASE phase[r] = "building"
      BY <3>1 DEF Healthy, SlotNotSeenExpired, HealthyBuildNotAbandoned, Running, Slotted
    <3>2. CASE phase[r] \in {"releasing", "built"}
      BY <3>2 DEF FinishedRow
    <3>q. QED BY <2>1, <3>1, <3>2
  <2>3. error'[d] # "lease expired" BY <1>0, <2>2, RowEnds
  <2>4. ASSUME NEW q \in Run, LockServer(q) PROVE d \notin seenExpired'
    <3>1. phase'[r] = phase[r] /\ seenExpired' = Expired
      BY <1>2, <2>4 DEF LockServer, Goto
    <3>2. CASE phase[r] = "releasing"
      BY <3>1, <3>2 DEF ReleasesInTime, Expired
    <3>3. CASE phase[r] = "built"
      BY <3>1, <3>3 DEF FinishedRow, Expired, Leased
    <3>q. QED BY <1>2, <3>1, <3>2, <3>3
  <2>q. QED BY <2>2, <2>3, <2>4, SeenByLock
<1>q. QED BY <1>1, <1>2 DEF FinishedRow

\* The code's own promise fails only by the release: a run that deletes its row
\* in time is never failed as abandoned, if each deployment is executed once.
THEOREM ReleasedRunsAreNotAbandoned ==
  ASSUME \A r \in Run : OnlyRun(r)
  PROVE  Spec /\ [][ReleasesSucceed]_vars /\ []ReleasesInTime => []HealthyRunNotAbandoned
<1> DEFINE Finished == OwnRows /\ \A r \in Run : FinishedRow(r)
<1>1. Init => Finished
  BY RunAssumption DEF Init, OwnRows, FinishedRow
<1>2. Inv /\ Healthy /\ ReleasesInTime /\ Finished /\ [Next]_vars /\ [ReleasesSucceed]_vars => Finished'
  <2> SUFFICES ASSUME Inv, Healthy, ReleasesInTime, Finished, [Next]_vars, [ReleasesSucceed]_vars
               PROVE  Finished'
    OBVIOUS
  <2>1. OwnRows' BY OwnRowsKept
  <2>2. \A r \in Run : phase[r] = "releasing" /\ phase'[r] = "built" => ~Holds(r)'
    BY DEF ReleasesSucceed, vars
  <2>q. QED BY <2>1, <2>2, FinishedRowKept
<1>3. Healthy /\ Finished => HealthyRunNotAbandoned
  BY DEF Healthy, HealthyBuildNotAbandoned, FinishedRow, HealthyRunNotAbandoned
<1> HIDE DEF Finished
<1>q. QED BY <1>1, <1>2, <1>3, HealthyAlways, PTL DEF Spec

-------------------------------------------------------------------------------
(* What the semaphore promises.                                              *)

\* Lowering the limit evicts nobody, so the builds can exceed it, but however it
\* changes, they never exceed the largest limit an operator may set.
THEOREM RunningBuildsAreBounded == Spec => [](Cardinality(Running) <= MaxCapacity)
<1> DEFINE Few == Cardinality(Running) <= MaxCapacity
<1>1. Init => Few
  <2>1. Init => Running = {} BY DEF Init, Running, Slotted
  <2>q. QED BY <2>1, FS_EmptySet, CapacityAssumption
<1>2. Inv /\ Few /\ [Next]_vars => Few'
  <2> SUFFICES ASSUME Inv, Few, [Next]_vars PROVE Few' OBVIOUS
  <2>1. IsFiniteSet(Running) /\ Cardinality(Running) \in Nat BY RunningBound
  <2>2. capacity \in 1..MaxCapacity BY DEF Inv, TypeOK
  <2>3. ASSUME NEW r \in Run, Semaphore!Enter(r) PROVE Few'
    <3>1. Semaphore!Cardinality(Running) = Cardinality(Running)
      BY DEF Semaphore!Cardinality, Cardinality
    <3>2. /\ Running' = Running \cup {r} /\ Cardinality(Running) < capacity /\ r \notin Running
      BY <2>3, <3>1 DEF Semaphore!Enter
    <3>3. Cardinality(Running') = Cardinality(Running) + 1
      BY <2>1, <3>2, FS_AddElement
    <3>q. QED BY <2>1, <2>2, <3>2, <3>3, CapacityAssumption
  <2>4. ASSUME NEW r \in Run, Semaphore!Leave(r) PROVE Few'
    <3>1. Running' = Running \ {r} /\ r \in Running
      BY <2>4 DEF Semaphore!Leave
    <3>2. Cardinality(Running') = Cardinality(Running) - 1
      BY <2>1, <3>1, FS_RemoveElement
    <3>q. QED BY <2>1, <3>2, CapacityAssumption
  <2>5. ASSUME Running' = Running PROVE Few'
    BY <2>5
  <2>q. QED BY <2>3, <2>4, <2>5, SemaphoreNext DEF Semaphore!Next, Semaphore!SetLimit
<1>q. QED BY <1>1, <1>2, SpecInv, PTL DEF Spec
=================================================================================
