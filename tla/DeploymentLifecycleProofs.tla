----------------------- MODULE DeploymentLifecycleProofs -----------------------
(***************************************************************************)
(* Proofs about DeploymentLifecycle, for any runs, users, source and mode.  *)
(*                                                                         *)
(* The argument has one idea: whoever writes the row, the write either      *)
(* finds the row open and writes one of the legal pairs of status and       *)
(* conclusion, or leaves status, conclusion and outbox alone (NextWrites).  *)
(* Everything else follows from that and from where answers are given.     *)
(***************************************************************************)
EXTENDS DeploymentLifecycle, TLAPS

outcomeVars == <<status, conclusion, intents>>

\* A write to an open row: a stage without a conclusion, or an end with one.
LegalWrite ==
  /\ Accepts
  /\ \/ \E s \in Active : Write(s, "none")
     \/ Write("completed", "succeeded")
     \/ \E c \in {"failed", "cancelled"} : Write("failed", c)

\* A row has a conclusion exactly when it is terminal.
Concluded == status \in Terminal <=> conclusion # "none"

RowEffect ==
  /\ LegalWrite \/ UNCHANGED outcomeVars
  /\ silent' \in {TRUE, FALSE, silent}

-------------------------------------------------------------------------------
(* What each kind of row update does.                                       *)

LEMMA WriteEffect ==
  ASSUME Accepts, NEW s, NEW c, Write(s, c),
         \/ s \in Active /\ c = "none"
         \/ s = "completed" /\ c = "succeeded"
         \/ s = "failed" /\ c \in {"failed", "cancelled"}
  PROVE  RowEffect
BY DEF RowEffect, LegalWrite, Write

LEMMA StutterEffect == UNCHANGED rowVars => RowEffect
BY DEF RowEffect, rowVars, outcomeVars

LEMMA TransitionEffect ==
  ASSUME NEW s, NEW c, Transition(s, c),
         \/ s \in Active /\ c = "none"
         \/ s = "completed" /\ c = "succeeded"
         \/ s = "failed" /\ c \in {"failed", "cancelled"}
  PROVE  RowEffect
<1>1. CASE Accepts
  BY <1>1, WriteEffect DEF Transition
<1>2. CASE ~Accepts
  BY <1>2, StutterEffect DEF Transition
<1>. QED BY <1>1, <1>2

LEMMA MarkEffect ==
  ASSUME NEW s \in Active, Mark(s)
  PROVE  RowEffect
<1>1. CASE status \in Active
  <2>1. Accepts
    BY <1>1 DEF Accepts, Active, Terminal
  <2>2. Write(s, "none")
    BY <1>1 DEF Mark
  <2>. QED BY <2>1, <2>2, WriteEffect
<1>2. CASE status \notin Active
  BY <1>2, StutterEffect DEF Mark
<1>. QED BY <1>1, <1>2

LEMMA UserEffect ==
  ASSUME NEW u \in User, UserStep(u)
  PROVE  RowEffect
<1>1. CASE ReadForCancel(u)
  BY <1>1, StutterEffect DEF ReadForCancel
<1>2. CASE CancelQueued(u)
  <2>1. CASE status \in {"queued", "waiting"}
    <3>1. Accepts
      BY <2>1 DEF Accepts, Terminal
    <3>2. Write("failed", "cancelled")
      BY <1>2, <2>1 DEF CancelQueued
    <3>. QED BY <3>1, <3>2, WriteEffect
  <2>2. CASE status \notin {"queued", "waiting"}
    BY <1>2, <2>2, StutterEffect DEF CancelQueued
  <2>. QED BY <2>1, <2>2
<1>3. CASE RequestCancellation(u)
  BY <1>3 DEF RequestCancellation, RowEffect, outcomeVars
<1>. QED BY <1>1, <1>2, <1>3 DEF UserStep

LEMMA RunEffect ==
  ASSUME NEW r \in Run, RunStep(r)
  PROVE  RowEffect
<1>1. CASE Claim(r)
  <2>1. Accepts /\ Write(ClaimedStatus, "none") /\ ClaimedStatus \in Active
    BY <1>1 DEF Claim, Accepts, Terminal, ClaimedStatus, Active
  <2>. QED BY <2>1, WriteEffect
<1>2. CASE Prepare(r) \/ Complete(r)
  BY <1>2, TransitionEffect DEF Prepare, Complete, Require, Active
<1>3. CASE MoveToDeploy(r) \/ Launch(r)
  BY <1>3, TransitionEffect, StutterEffect DEF MoveToDeploy, Launch, Require, Active
<1>4. CASE MarkWaiting(r) \/ MarkAcquired(r)
  BY <1>4, MarkEffect DEF MarkWaiting, MarkAcquired, Active
<1>5. CASE Fail(r) \/ ConcludeCancelled(r)
  BY <1>5, TransitionEffect DEF Fail, ConcludeCancelled
<1>6. CASE PersistComposeEnv(r)
  BY <1>6 DEF PersistComposeEnv, RowEffect, outcomeVars
<1>7. CASE ClaimAgain(r) \/ Start(r) \/ Check(r) \/ Fetch(r) \/ CheckWaiting(r)
  BY <1>7, StutterEffect DEF ClaimAgain, Start, Check, Fetch, CheckWaiting
<1>8. CASE Grant(r) \/ Deny(r) \/ Recheck(r) \/ FinishBuild(r)
  BY <1>8, StutterEffect DEF Grant, Deny, Recheck, FinishBuild
<1>9. CASE StepFails(r) \/ EngineAborts(r) \/ Crash(r)
  BY <1>9, StutterEffect DEF StepFails, EngineAborts, Crash
<1>. QED
  BY <1>1, <1>2, <1>3, <1>4, <1>5, <1>6, <1>7, <1>8, <1>9 DEF RunStep, Advance

LEMMA OtherEffect ==
  ASSUME OtherStep
  PROVE  RowEffect
<1>1. CASE StartWorkflow \/ ExpireLease
  BY <1>1, StutterEffect DEF StartWorkflow, ExpireLease
<1>2. CASE RecordWorkflow \/ Touch \/ GoSilent
  BY <1>2 DEF RecordWorkflow, Touch, GoSilent, RowEffect, outcomeVars
<1>3. CASE DispatchFails
  BY <1>3, TransitionEffect, StutterEffect DEF DispatchFails
<1>4. CASE OperatorMoves
  BY <1>4, WriteEffect DEF OperatorMoves, Active
<1>5. CASE FailAbandoned
  <2>1. CASE status \in Active
    BY <1>5, <2>1, WriteEffect DEF FailAbandoned, Accepts, Active, Terminal
  <2>2. CASE status \notin Active
    BY <1>5, <2>2, StutterEffect DEF FailAbandoned
  <2>. QED BY <2>1, <2>2
<1>6. CASE WatchdogMark
  <2>1. CASE status \in Watched
    BY <1>6, <2>1, WriteEffect DEF WatchdogMark, Watched, Accepts, Active, Terminal
  <2>2. CASE status \notin Watched
    BY <1>6, <2>2, StutterEffect DEF WatchdogMark
  <2>. QED BY <2>1, <2>2
<1>7. CASE WatchdogList \/ WatchdogRead \/ WatchdogCheck
  BY <1>7, StutterEffect DEF WatchdogList, WatchdogRead, WatchdogCheck
<1>. QED BY <1>1, <1>2, <1>3, <1>4, <1>5, <1>6, <1>7 DEF OtherStep

\* Whoever takes a step, the row is written legally or keeps its outcome.
LEMMA NextEffect == [Next]_vars => RowEffect
<1>1. Next => RowEffect
  BY UserEffect, RunEffect, OtherEffect DEF Next
<1>2. UNCHANGED vars => RowEffect
  BY StutterEffect DEF vars
<1>. QED BY <1>1, <1>2

-------------------------------------------------------------------------------
(* Types.                                                                   *)

RowTyped ==
  /\ status \in Status
  /\ conclusion \in {"none", "succeeded", "failed", "cancelled"}
  /\ intents \subseteq Stage \cup Final
  /\ silent \in BOOLEAN

\* The state a run keeps.
RunTyped ==
  /\ phase \in [Run -> Phase]
  /\ sawWaiting \in [Run -> BOOLEAN]
  /\ sawCancel \in [Run -> BOOLEAN]

\* What is left of TypeOK.
RestTyped ==
  /\ cancelRequested \in BOOLEAN
  /\ lease \in Run \cup {NoRun}
  /\ leaseLive \in BOOLEAN
  /\ dispatch \in {"starting", "recording", "over"}
  /\ pass \in {"none", "listed", "read", "unleased"}
  /\ candidate \in BOOLEAN
  /\ request \in [User -> {"none", "read queued", "read running",
                           "cancelled", "requested", "refused"}]

LEMMA TypeParts == TypeOK <=> RowTyped /\ RunTyped /\ RestTyped
BY DEF TypeOK, RowTyped, RunTyped, RestTyped

LEMMA TypeInit == Init => TypeOK
BY RunAssumption, TemporalAssumption
   DEF Init, TypeOK, Status, Active, Terminal, Stage, Final, Phase, Live, Executing, Building

LEMMA TypeRow == RowTyped /\ RowEffect => RowTyped'
<1>1. RowTyped /\ LegalWrite => RowTyped'
  BY DEF RowTyped, LegalWrite, Write, Status, Stage, Final, Active, Terminal
<1>2. RowTyped /\ UNCHANGED outcomeVars /\ silent' \in {TRUE, FALSE, silent} => RowTyped'
  BY DEF RowTyped, outcomeVars
<1>. QED BY <1>1, <1>2 DEF RowEffect

LEMMA TypePhase ==
  ASSUME RunTyped, NEW r \in Run, RunStep(r)
  PROVE  RunTyped'
<1>. USE DEF RunTyped, Goto, Require, Phase, Live, Executing, Building
<1>1. CASE Check(r)
  <2>1. AfterCheck(r)[phase[r]] \in Phase
    BY <1>1 DEF Check, AfterCheck
  <2>. QED BY <1>1, <2>1 DEF Check
<1>2. CASE Claim(r) \/ ClaimAgain(r) \/ Start(r) \/ Prepare(r) \/ Fetch(r)
  BY <1>2 DEF Claim, ClaimAgain, Start, Prepare, Fetch
<1>3. CASE PersistComposeEnv(r) \/ MarkWaiting(r) \/ CheckWaiting(r) \/ Deny(r)
  BY <1>3 DEF PersistComposeEnv, MarkWaiting, CheckWaiting, Deny
<1>4. CASE Grant(r) \/ MarkAcquired(r) \/ Recheck(r) \/ FinishBuild(r)
  BY <1>4 DEF Grant, MarkAcquired, Recheck, FinishBuild
<1>5. CASE MoveToDeploy(r) \/ Launch(r) \/ Complete(r) \/ Fail(r) \/ ConcludeCancelled(r)
  BY <1>5 DEF MoveToDeploy, Launch, Complete, Fail, ConcludeCancelled
<1>6. CASE StepFails(r) \/ EngineAborts(r) \/ Crash(r)
  BY <1>6 DEF StepFails, EngineAborts, Crash
<1>. QED BY <1>1, <1>2, <1>3, <1>4, <1>5, <1>6 DEF RunStep, Advance

LEMMA TypeRest ==
  ASSUME RunTyped, RestTyped, NEW r \in Run, RunStep(r)
  PROVE  RestTyped'
<1>. USE DEF RestTyped, leaseVars, watchVars, Require
<1>1. CASE Claim(r) \/ ClaimAgain(r) \/ Start(r) \/ Check(r) \/ Prepare(r)
  BY <1>1 DEF Claim, ClaimAgain, Start, Check, Prepare
<1>2. CASE Fetch(r) \/ PersistComposeEnv(r)
  BY <1>2 DEF Fetch, PersistComposeEnv, RunTyped
<1>3. CASE MarkWaiting(r) \/ CheckWaiting(r) \/ Deny(r) \/ MarkAcquired(r)
  BY <1>3 DEF MarkWaiting, CheckWaiting, Deny, MarkAcquired
<1>4. CASE Grant(r)
  BY <1>4 DEF Grant
<1>5. CASE Recheck(r) \/ FinishBuild(r)
  BY <1>5 DEF Recheck, FinishBuild, Release
<1>6. CASE MoveToDeploy(r) \/ Launch(r) \/ Complete(r) \/ Fail(r) \/ ConcludeCancelled(r)
  BY <1>6 DEF MoveToDeploy, Launch, Complete, Fail, ConcludeCancelled
<1>7. CASE StepFails(r) \/ EngineAborts(r) \/ Crash(r)
  BY <1>7 DEF StepFails, EngineAborts, Crash, Release
<1>. QED BY <1>1, <1>2, <1>3, <1>4, <1>5, <1>6, <1>7 DEF RunStep, Advance

LEMMA TypeUser ==
  ASSUME RestTyped, RunTyped, NEW u \in User, UserStep(u)
  PROVE  RestTyped' /\ RunTyped'
BY DEF RestTyped, RunTyped, UserStep, ReadForCancel, CancelQueued, RequestCancellation,
       leaseVars, watchVars, runVars

LEMMA TypeOther ==
  ASSUME RestTyped, RunTyped, OtherStep
  PROVE  RestTyped' /\ RunTyped'
<1>. USE DEF RestTyped, RunTyped, leaseVars, watchVars, runVars
<1>1. CASE StartWorkflow \/ RecordWorkflow \/ DispatchFails \/ OperatorMoves
  BY <1>1 DEF StartWorkflow, RecordWorkflow, DispatchFails, OperatorMoves
<1>2. CASE Touch \/ GoSilent \/ ExpireLease \/ FailAbandoned
  BY <1>2 DEF Touch, GoSilent, ExpireLease, FailAbandoned
<1>3. CASE WatchdogList \/ WatchdogRead \/ WatchdogCheck \/ WatchdogMark
  BY <1>3 DEF WatchdogList, WatchdogRead, WatchdogCheck,
     WatchdogMark
<1>. QED BY <1>1, <1>2, <1>3 DEF OtherStep

LEMMA TypeNext == TypeOK /\ [Next]_vars => TypeOK'
<1>1. TypeOK /\ [Next]_vars => RowTyped'
  BY TypeParts, NextEffect, TypeRow
<1>2. TypeOK /\ Next => RestTyped' /\ RunTyped'
  BY TypeParts, TypeUser, TypePhase, TypeRest, TypeOther DEF Next
<1>3. TypeOK /\ UNCHANGED vars => RestTyped' /\ RunTyped'
  BY DEF TypeOK, RestTyped, RunTyped, vars, leaseVars, watchVars, runVars
<1>4. RowTyped' /\ RunTyped' /\ RestTyped' => TypeOK'
  BY DEF TypeOK, RowTyped, RunTyped, RestTyped
<1>. QED BY <1>1, <1>2, <1>3, <1>4

\* Every reachable state is well typed.
THEOREM LifecycleTypeCorrect == Spec => []TypeOK
BY TypeInit, TypeNext, PTL DEF Spec

-------------------------------------------------------------------------------
(* The record keeps its promise.                                            *)

LEMMA ConcludedInit == Init => Concluded
BY DEF Init, Concluded, Terminal

LEMMA ConcludedNext == Concluded /\ RowEffect => Concluded'
<1>1. Concluded /\ LegalWrite => Concluded'
  BY DEF Concluded, LegalWrite, Write, Active, Terminal
<1>2. Concluded /\ UNCHANGED outcomeVars => Concluded'
  BY DEF Concluded, outcomeVars
<1>. QED BY <1>1, <1>2 DEF RowEffect

LEMMA SpecConcluded == Spec => []Concluded
BY ConcludedInit, ConcludedNext, NextEffect, PTL DEF Spec

LEMMA OutcomeStep == Concluded /\ RowEffect => [Outcome!Next]_<<conclusion, intents>>
<1>1. ASSUME Concluded, Accepts, NEW s \in Active, Write(s, "none")
      PROVE  Outcome!Next
  <2>1. Outcome!Progress(s)
    BY <1>1 DEF Outcome!Progress, Write, Concluded, Accepts
  <2>2. s \in Stage
    BY DEF Stage
  <2>. QED BY <2>1, <2>2 DEF Outcome!Next
<1>2. ASSUME Concluded, Accepts, Write("completed", "succeeded")
      PROVE  Outcome!Next
  <2>1. Outcome!Conclude("succeeded")
    BY <1>2 DEF Outcome!Conclude, Outcome!Announcement, Write, Concluded, Accepts
  <2>. QED BY <2>1 DEF Outcome!Next, Outcome!Conclusion
<1>3. ASSUME Concluded, Accepts, NEW c \in {"failed", "cancelled"}, Write("failed", c)
      PROVE  Outcome!Next
  <2>1. Outcome!Conclude(c)
    BY <1>3 DEF Outcome!Conclude, Outcome!Announcement, Write, Concluded, Accepts
  <2>. QED BY <2>1 DEF Outcome!Next, Outcome!Conclusion
<1>4. Concluded /\ LegalWrite => Outcome!Next
  BY <1>1, <1>2, <1>3 DEF LegalWrite
<1>. QED BY <1>4 DEF RowEffect, outcomeVars

LEMMA OutcomeInit == Init => Outcome!Init
BY DEF Init, Outcome!Init

\* Under every interleaving of runs, users, operator, watchdog and hand-over the
\* deployment concludes once and announces nothing after its conclusion.
THEOREM LifecycleImplementsOutcome == Spec => OutcomeIsFinal
BY OutcomeInit, SpecConcluded, NextEffect, OutcomeStep, PTL
   DEF Spec, OutcomeIsFinal, Outcome!Spec

\* The provider is told of one ending, the one the row has, and only once it has it.
EndingAnnounced ==
  intents \cap Final = IF conclusion = "none" THEN {} ELSE {Outcome!Announcement(conclusion)}

\* Every conclusion has been queued for the provider, and no other ending ever is.
THEOREM OneEndingIsAnnounced == Spec => []EndingAnnounced
<1>1. Init => EndingAnnounced
  BY DEF Init, EndingAnnounced, Final
<1>2. Concluded /\ EndingAnnounced /\ RowEffect => EndingAnnounced'
  <2>1. ASSUME Concluded, EndingAnnounced, LegalWrite
        PROVE  EndingAnnounced'
    <3>. USE <2>1 DEF EndingAnnounced, Concluded, Accepts, Write, Final, Active, Outcome!Announcement
    <3>1. CASE \E s \in Active : Write(s, "none")
      BY <3>1 DEF LegalWrite
    <3>2. CASE Write("completed", "succeeded")
      BY <3>2 DEF LegalWrite
    <3>3. CASE \E c \in {"failed", "cancelled"} : Write("failed", c)
      BY <3>3 DEF LegalWrite
    <3>. QED BY <3>1, <3>2, <3>3 DEF LegalWrite
  <2>2. EndingAnnounced /\ UNCHANGED outcomeVars => EndingAnnounced'
    BY DEF EndingAnnounced, outcomeVars
  <2>. QED BY <2>1, <2>2 DEF RowEffect
<1>. QED BY <1>1, <1>2, NextEffect, SpecConcluded, PTL DEF Spec

-------------------------------------------------------------------------------
(* Answers are true.                                                        *)

\* A conclusion is never changed: the row that has one accepts no write.
LEMMA ConclusionKept == Concluded /\ RowEffect /\ conclusion # "none" => conclusion' = conclusion
BY DEF Concluded, RowEffect, LegalWrite, Accepts, outcomeVars

LEMMA OnlyUsersAsk ==
  ASSUME [Next]_vars
  PROVE  UNCHANGED request \/ \E u \in User : UserStep(u)
<1>1. ASSUME NEW r \in Run, RunStep(r)
      PROVE  UNCHANGED request
  BY <1>1 DEF RunStep, Advance, Claim, ClaimAgain, Start, Check, Prepare, Require, Fetch,
     PersistComposeEnv, MarkWaiting, CheckWaiting, Deny, Grant, MarkAcquired, Recheck,
     FinishBuild, MoveToDeploy, Launch, Complete, Fail, ConcludeCancelled, StepFails, EngineAborts, Crash
<1>2. OtherStep => UNCHANGED request
  BY DEF OtherStep, StartWorkflow, RecordWorkflow, DispatchFails, OperatorMoves, Touch,
     GoSilent, ExpireLease, FailAbandoned, WatchdogList, WatchdogRead, WatchdogCheck,
     WatchdogMark
<1>3. UNCHANGED vars => UNCHANGED request
  BY DEF vars
<1>. QED BY <1>1, <1>2, <1>3 DEF Next

\* A step that gives an answer, gives the one it has just written.
LEMMA UserAnswer ==
  ASSUME TypeOK, [Next]_vars, NEW u \in User,
         request'[u] = "cancelled", request[u] # "cancelled"
  PROVE  conclusion' = "cancelled"
<1>1. ASSUME NEW v \in User, UserStep(v)
      PROVE  conclusion' = "cancelled"
  <2>1. CASE ReadForCancel(v)
    BY <2>1 DEF ReadForCancel, TypeOK
  <2>2. CASE CancelQueued(v)
    BY <2>2 DEF CancelQueued, Write, TypeOK
  <2>3. CASE RequestCancellation(v)
    BY <2>3 DEF RequestCancellation, TypeOK
  <2>. QED BY <1>1, <2>1, <2>2, <2>3 DEF UserStep
<1>. QED BY <1>1, OnlyUsersAsk

LEMMA CheckGoesOn ==
  ASSUME NEW r \in Run, phase[r] \in DOMAIN AfterCheck(r)
  PROVE  AfterCheck(r)[phase[r]] \in {"prepared", "preparing", "fetching", "planned",
                                     "launching", "starting", "checked"}
BY DEF AfterCheck

LEMMA RunAnswer ==
  ASSUME TypeOK, [Next]_vars, NEW r \in Run,
         phase'[r] \in {"succeeded", "cancelled"}, phase'[r] # phase[r]
  PROVE  conclusion' = phase'[r]
<1>1. ASSUME NEW q \in Run, RunStep(q)
      PROVE  conclusion' = phase'[r]
  <2>. USE DEF TypeOK, Goto, Require
  <2>1. CASE Complete(q)
    BY <1>1, <2>1 DEF Complete, Transition, Write
  <2>2. CASE ConcludeCancelled(q)
    BY <1>1, <2>2 DEF ConcludeCancelled, Transition, Write
  <2>3. CASE Claim(q) \/ ClaimAgain(q) \/ Start(q) \/ Prepare(q) \/ Fetch(q)
    BY <1>1, <2>3 DEF Claim, ClaimAgain, Start, Prepare, Fetch
  <2>4. CASE Check(q)
    BY <1>1, <2>4, CheckGoesOn DEF Check
  <2>5. CASE PersistComposeEnv(q) \/ MarkWaiting(q) \/ CheckWaiting(q) \/ Deny(q)
    BY <1>1, <2>5 DEF PersistComposeEnv, MarkWaiting, CheckWaiting, Deny
  <2>6. CASE Grant(q) \/ MarkAcquired(q) \/ Recheck(q) \/ FinishBuild(q)
    BY <1>1, <2>6 DEF Grant, MarkAcquired, Recheck, FinishBuild
  <2>7. CASE MoveToDeploy(q) \/ Launch(q) \/ Fail(q)
    BY <1>1, <2>7 DEF MoveToDeploy, Launch, Fail
  <2>8. CASE StepFails(q) \/ EngineAborts(q) \/ Crash(q)
    BY <1>1, <2>8 DEF StepFails, EngineAborts, Crash
  <2>. QED
    BY <1>1, <2>1, <2>2, <2>3, <2>4, <2>5, <2>6, <2>7, <2>8 DEF RunStep, Advance
<1>2. ASSUME NEW u \in User, UserStep(u)
      PROVE  UNCHANGED phase
  BY <1>2 DEF UserStep, ReadForCancel, CancelQueued, RequestCancellation, runVars
<1>3. OtherStep => UNCHANGED phase
  BY DEF OtherStep, StartWorkflow, RecordWorkflow, DispatchFails, OperatorMoves, Touch,
     GoSilent, ExpireLease, FailAbandoned, WatchdogList, WatchdogRead, WatchdogCheck,
     WatchdogMark, runVars
<1>4. UNCHANGED vars => UNCHANGED phase
  BY DEF vars, runVars
<1>. QED BY <1>1, <1>2, <1>3, <1>4 DEF Next

LEMMA AnswersInit == Init => AnswersAreTrue
BY DEF Init, AnswersAreTrue

LEMMA AnswersNext ==
  TypeOK /\ Concluded /\ AnswersAreTrue /\ [Next]_vars => AnswersAreTrue'
<1>. SUFFICES ASSUME TypeOK, Concluded, AnswersAreTrue, [Next]_vars
             PROVE  AnswersAreTrue'
  OBVIOUS
<1>1. conclusion # "none" => conclusion' = conclusion
  BY NextEffect, ConclusionKept
<1>2. ASSUME NEW u \in User, request'[u] = "cancelled"
      PROVE  conclusion' = "cancelled"
  BY <1>1, <1>2, UserAnswer DEF AnswersAreTrue
<1>3. ASSUME NEW r \in Run, phase'[r] \in {"succeeded", "cancelled"}
      PROVE  conclusion' = phase'[r]
  BY <1>1, <1>3, RunAnswer DEF AnswersAreTrue
<1>. QED BY <1>2, <1>3 DEF AnswersAreTrue

\* No user is told "cancelled", and no run reports an outcome, that another writer
\* replaces before or after.
THEOREM AnswersStayTrue == Spec => []AnswersAreTrue
BY AnswersInit, AnswersNext, LifecycleTypeCorrect, SpecConcluded, PTL DEF Spec

-------------------------------------------------------------------------------
(* When a cancellation request cannot be lost.                              *)

\* Nobody is about to write back a snapshot read before the request.
NoWriteBack == dispatch = "over" /\ \A r \in Run : phase[r] # "persisting"

\* CancellationStands, for every row that is not terminal yet.
RequestKept ==
  \A u \in User : request[u] = "requested" /\ Accepts => cancelRequested

LEMMA NoWriteBackNext ==
  ASSUME Source # "compose", TypeOK, NoWriteBack, [Next]_vars
  PROVE  NoWriteBack'
<1>1. ASSUME NEW q \in Run, RunStep(q)
      PROVE  NoWriteBack'
  <2>. USE DEF NoWriteBack, TypeOK, Goto, Require
  <2>1. CASE Check(q)
    BY <2>1, CheckGoesOn DEF Check
  <2>2. CASE Claim(q) \/ ClaimAgain(q) \/ Start(q) \/ Prepare(q) \/ Fetch(q)
    BY <2>2 DEF Claim, ClaimAgain, Start, Prepare, Fetch
  <2>3. CASE PersistComposeEnv(q) \/ MarkWaiting(q) \/ CheckWaiting(q) \/ Deny(q)
    BY <2>3 DEF PersistComposeEnv, MarkWaiting, CheckWaiting, Deny
  <2>4. CASE Grant(q) \/ MarkAcquired(q) \/ Recheck(q) \/ FinishBuild(q)
    BY <2>4 DEF Grant, MarkAcquired, Recheck, FinishBuild
  <2>5. CASE MoveToDeploy(q) \/ Launch(q) \/ Complete(q) \/ Fail(q) \/ ConcludeCancelled(q)
    BY <2>5 DEF MoveToDeploy, Launch, Complete, Fail, ConcludeCancelled
  <2>6. CASE StepFails(q) \/ EngineAborts(q) \/ Crash(q)
    BY <2>6 DEF StepFails, EngineAborts, Crash
  <2>. QED BY <1>1, <2>1, <2>2, <2>3, <2>4, <2>5, <2>6 DEF RunStep, Advance
<1>2. ASSUME NEW u \in User, UserStep(u)
      PROVE  NoWriteBack'
  BY <1>2 DEF NoWriteBack, UserStep, ReadForCancel, CancelQueued, RequestCancellation, runVars
<1>3. OtherStep => NoWriteBack'
  BY DEF NoWriteBack, OtherStep, StartWorkflow, RecordWorkflow, DispatchFails, OperatorMoves,
     Touch, GoSilent, ExpireLease, FailAbandoned, WatchdogList, WatchdogRead, WatchdogCheck,
     WatchdogMark, runVars
<1>4. UNCHANGED vars => NoWriteBack'
  BY DEF NoWriteBack, vars, runVars
<1>. QED BY <1>1, <1>2, <1>3, <1>4 DEF Next

\* Without a write-back only the watchdog takes a request away, and it ends the
\* deployment in the same transaction.
LEMMA RequestCleared ==
  ASSUME TypeOK, NoWriteBack, [Next]_vars, cancelRequested, Accepts'
  PROVE  cancelRequested'
<1>1. ASSUME NEW q \in Run, RunStep(q)
      PROVE  cancelRequested'
  BY <1>1 DEF NoWriteBack, Goto, RunStep, Advance, Claim, ClaimAgain, Start, Check, Prepare,
     Require, Fetch, PersistComposeEnv, MarkWaiting, CheckWaiting, Deny, Grant, MarkAcquired,
     Recheck, FinishBuild, MoveToDeploy, Launch, Complete, Fail, ConcludeCancelled, StepFails,
     EngineAborts, Crash
<1>2. ASSUME NEW u \in User, UserStep(u)
      PROVE  cancelRequested'
  BY <1>2 DEF UserStep, ReadForCancel, CancelQueued, RequestCancellation
<1>3. OtherStep => cancelRequested'
  BY DEF NoWriteBack, OtherStep, StartWorkflow, RecordWorkflow, DispatchFails, OperatorMoves,
     Touch, GoSilent, ExpireLease, FailAbandoned, WatchdogList, WatchdogRead, WatchdogCheck,
     WatchdogMark, Accepts,
     Terminal, Write
<1>4. UNCHANGED vars => cancelRequested'
  BY DEF vars
<1>. QED BY <1>1, <1>2, <1>3, <1>4 DEF Next

\* The request is written before, or with, the answer.
LEMMA RequestAnswered ==
  ASSUME TypeOK, [Next]_vars, NEW u \in User,
         request'[u] = "requested", request[u] # "requested"
  PROVE  cancelRequested'
<1>1. ASSUME NEW v \in User, UserStep(v)
      PROVE  cancelRequested'
  <2>1. CASE ReadForCancel(v)
    BY <2>1 DEF ReadForCancel, TypeOK
  <2>2. CASE CancelQueued(v)
    BY <2>2 DEF CancelQueued, TypeOK
  <2>3. CASE RequestCancellation(v)
    BY <2>3 DEF RequestCancellation
  <2>. QED BY <1>1, <2>1, <2>2, <2>3 DEF UserStep
<1>. QED BY <1>1, OnlyUsersAsk

LEMMA AcceptsBefore == RowEffect /\ Accepts' => Accepts
BY DEF RowEffect, LegalWrite, Accepts, outcomeVars

\* With the polling worker, and for deployments that are not compose projects, an
\* accepted cancellation request stays with the deployment until it ends.
THEOREM CancellationStandsWithoutWriteBack ==
  ASSUME ~Temporal, Source # "compose"
  PROVE  Spec => []CancellationStands
<1>1. Init => NoWriteBack /\ RequestKept
  BY DEF Init, NoWriteBack, RequestKept
<1>2. TypeOK /\ NoWriteBack /\ RequestKept /\ [Next]_vars => NoWriteBack' /\ RequestKept'
  <2>. SUFFICES ASSUME TypeOK, NoWriteBack, RequestKept, [Next]_vars
               PROVE  NoWriteBack' /\ RequestKept'
    OBVIOUS
  <2>1. NoWriteBack'
    BY NoWriteBackNext
  <2>2. ASSUME NEW u \in User, request'[u] = "requested", Accepts'
        PROVE  cancelRequested'
    <3>1. CASE request[u] = "requested"
      <4>1. Accepts
        BY <2>2, NextEffect, AcceptsBefore
      <4>2. cancelRequested
        BY <3>1, <4>1 DEF RequestKept
      <4>. QED BY <2>2, <4>2, RequestCleared
    <3>2. CASE request[u] # "requested"
      BY <2>2, <3>2, RequestAnswered
    <3>. QED BY <3>1, <3>2
  <2>. QED BY <2>1, <2>2 DEF RequestKept
<1>3. RequestKept => CancellationStands
  BY DEF RequestKept, CancellationStands, Accepts, Active, Terminal
<1>. QED BY <1>1, <1>2, <1>3, LifecycleTypeCorrect, PTL DEF Spec
-------------------------------------------------------------------------------
(* Slots.                                                                   *)

\* A run that was given a slot keeps the deployment's lease until it leaves the
\* slot: no other run, no expiry and no clean-up takes it away.
BuilderHoldsLease == \A r \in Run : phase[r] \in Building => lease = r /\ leaseLive

LEMMA BuilderInit == Init => BuilderHoldsLease
BY DEF Init, BuilderHoldsLease, Building

LEMMA BuilderRun ==
  ASSUME TypeOK, BuilderHoldsLease, NEW q \in Run, RunStep(q)
  PROVE  BuilderHoldsLease'
<1>. USE RunAssumption DEF BuilderHoldsLease, TypeOK, Goto, Require, Building, leaseVars
<1>1. CASE Check(q)
  BY <1>1, CheckGoesOn DEF Check
<1>2. CASE Claim(q) \/ ClaimAgain(q) \/ Start(q) \/ Prepare(q) \/ Fetch(q)
  BY <1>2 DEF Claim, ClaimAgain, Start, Prepare, Fetch
<1>3. CASE PersistComposeEnv(q) \/ MarkWaiting(q) \/ CheckWaiting(q) \/ Deny(q)
  BY <1>3 DEF PersistComposeEnv, MarkWaiting, CheckWaiting, Deny
<1>4. CASE Grant(q)
  BY <1>4 DEF Grant, LeaseIsLive
<1>5. CASE MarkAcquired(q)
  BY <1>5 DEF MarkAcquired
<1>6. CASE Recheck(q) \/ FinishBuild(q)
  BY <1>6 DEF Recheck, FinishBuild, Release
<1>7. CASE MoveToDeploy(q) \/ Launch(q) \/ Complete(q) \/ Fail(q) \/ ConcludeCancelled(q)
  BY <1>7 DEF MoveToDeploy, Launch, Complete, Fail, ConcludeCancelled
<1>8. CASE StepFails(q) \/ EngineAborts(q) \/ Crash(q)
  BY <1>8 DEF StepFails, EngineAborts, Crash, Release
<1>. QED BY <1>1, <1>2, <1>3, <1>4, <1>5, <1>6, <1>7, <1>8 DEF RunStep, Advance

LEMMA BuilderNext == TypeOK /\ BuilderHoldsLease /\ [Next]_vars => BuilderHoldsLease'
<1>. SUFFICES ASSUME TypeOK, BuilderHoldsLease, [Next]_vars
             PROVE  BuilderHoldsLease'
  OBVIOUS
<1>. USE DEF BuilderHoldsLease, runVars, leaseVars
<1>1. ASSUME NEW u \in User, UserStep(u)
      PROVE  BuilderHoldsLease'
  <2>1. UNCHANGED <<phase, lease, leaseLive>>
    BY <1>1 DEF UserStep, ReadForCancel, CancelQueued, RequestCancellation
  <2>. QED BY <2>1
<1>2. CASE ExpireLease
  BY <1>2 DEF ExpireLease
<1>3. CASE FailAbandoned
  BY <1>3 DEF FailAbandoned
<1>4. CASE StartWorkflow \/ RecordWorkflow \/ DispatchFails \/ OperatorMoves
  BY <1>4 DEF StartWorkflow, RecordWorkflow, DispatchFails, OperatorMoves
<1>5. CASE Touch \/ GoSilent \/ WatchdogList \/ WatchdogRead \/ WatchdogCheck \/ WatchdogMark
  BY <1>5 DEF Touch, GoSilent, WatchdogList, WatchdogRead, WatchdogCheck,
     WatchdogMark
<1>6. CASE UNCHANGED vars
  BY <1>6 DEF vars
<1>. QED BY <1>1, <1>2, <1>3, <1>4, <1>5, <1>6, BuilderRun DEF Next, OtherStep

LEMMA SpecBuilder == Spec => []BuilderHoldsLease
BY BuilderInit, BuilderNext, LifecycleTypeCorrect, PTL DEF Spec

\* However many runs a deployment has, two of them are never in a slot at once.
OneBuildAtATime ==
  \A r, s \in Run : phase[r] \in Building /\ phase[s] \in Building => r = s

\* However many workers execute a deployment, it is built by one of them at a time.
THEOREM DeploymentIsBuiltOnce == Spec => []OneBuildAtATime
<1>1. BuilderHoldsLease => OneBuildAtATime
  BY DEF BuilderHoldsLease, OneBuildAtATime
<1>. QED BY <1>1, SpecBuilder, PTL

\* The watchdog finds no lease, and an acquisition that throws out leases of others
\* fails no deployment, while a run of the deployment has a slot.
THEOREM BuildersStaySpared == Spec => BuildersAreSpared
<1>1. BuilderHoldsLease /\ WatchdogCheck /\ pass' = "unleased"
      => \A r \in Run : phase[r] \notin Building
  BY RunAssumption DEF BuilderHoldsLease, WatchdogCheck, NoLiveBuildLease, LeaseIsLive
<1>2. BuilderHoldsLease /\ FailAbandoned => \A r \in Run : phase[r] \notin Building
  BY DEF BuilderHoldsLease, FailAbandoned
<1>3. BuilderHoldsLease /\ [Next]_vars
      => [\/ WatchdogCheck /\ pass' = "unleased"
          \/ FailAbandoned /\ status' # status
          => \A r \in Run : phase[r] \notin Building]_vars
  BY <1>1, <1>2
<1>. QED BY <1>3, SpecBuilder, PTL DEF Spec, BuildersAreSpared
-------------------------------------------------------------------------------
(* What was cancelled is not launched.                                      *)

\* No other run than r can have marked the row as waiting.
Alone(r) == \A q \in Run \ {r} : phase[q] \in Unmarked

\* A run that has begun finds the row claimed; one that has moved it to deploy does
\* not find it waiting, and one that builds or is about to launch is not that of a
\* deployment whose cancellation was confirmed, unless another run interferes.
Begun == \A r \in Run : phase[r] # "idle" => status # "queued"
Acquired ==
  \A r \in Run : Alone(r) /\ phase[r] \in {"recheck", "building", "built", "launching", "starting"}
                => status \notin {"queued", "waiting"}
NotCancelled ==
  \A r \in Run : Alone(r) /\ phase[r] \in {"building", "built", "launching", "starting"}
                => \A u \in User : request[u] # "cancelled"
AloneInv == Begun /\ Acquired /\ NotCancelled

LEMMA CheckLaunches ==
  ASSUME NEW r \in Run, phase[r] \in DOMAIN AfterCheck(r)
  PROVE  /\ phase[r] \in {"started", "prepared", "fetched", "built", "launched"}
         /\ AfterCheck(r)[phase[r]] \in {"launching", "starting"} => phase[r] = "built"
         /\ phase[r] \notin Unmarked => AfterCheck(r)[phase[r]] \notin Unmarked
BY DEF AfterCheck, Unmarked

\* A run that has marked the row as waiting does not get back among the others.
LEMMA MarkedForGood ==
  ASSUME TypeOK, NEW q \in Run, RunStep(q), phase[q] \notin Unmarked
  PROVE  phase'[q] \notin Unmarked
<1>. USE DEF TypeOK, Goto, Require, Unmarked
<1>1. CASE Check(q)
  <2>1. AfterCheck(q)[phase[q]] \notin Unmarked
    BY <1>1, CheckLaunches DEF Check
  <2>. QED BY <1>1, <2>1 DEF Check
<1>2. CASE Claim(q) \/ ClaimAgain(q) \/ Start(q) \/ Prepare(q) \/ Fetch(q)
  BY <1>2 DEF Claim, ClaimAgain, Start, Prepare, Fetch
<1>3. CASE PersistComposeEnv(q) \/ MarkWaiting(q) \/ CheckWaiting(q) \/ Deny(q)
  BY <1>3 DEF PersistComposeEnv, MarkWaiting, CheckWaiting, Deny
<1>4. CASE Grant(q) \/ MarkAcquired(q) \/ Recheck(q) \/ FinishBuild(q)
  BY <1>4 DEF Grant, MarkAcquired, Recheck, FinishBuild
<1>5. CASE MoveToDeploy(q) \/ Launch(q) \/ Complete(q) \/ Fail(q) \/ ConcludeCancelled(q)
  BY <1>5 DEF MoveToDeploy, Launch, Complete, Fail, ConcludeCancelled
<1>6. CASE StepFails(q) \/ EngineAborts(q) \/ Crash(q)
  BY <1>6 DEF StepFails, EngineAborts, Crash
<1>. QED BY <1>1, <1>2, <1>3, <1>4, <1>5, <1>6 DEF RunStep, Advance

\* A run's step concerns its own phase.
LEMMA OwnPhase ==
  ASSUME TypeOK, NEW q \in Run, RunStep(q)
  PROVE  UNCHANGED request /\ \A r \in Run \ {q} : phase'[r] = phase[r]
<1>. USE DEF TypeOK, Goto, Require
<1>1. CASE Check(q) \/ Claim(q) \/ ClaimAgain(q) \/ Start(q) \/ Prepare(q) \/ Fetch(q)
  BY <1>1 DEF Check, Claim, ClaimAgain, Start, Prepare, Fetch
<1>3. CASE PersistComposeEnv(q) \/ MarkWaiting(q) \/ CheckWaiting(q) \/ Deny(q)
  BY <1>3 DEF PersistComposeEnv, MarkWaiting, CheckWaiting, Deny
<1>4. CASE Grant(q) \/ MarkAcquired(q) \/ Recheck(q) \/ FinishBuild(q)
  BY <1>4 DEF Grant, MarkAcquired, Recheck, FinishBuild
<1>5. CASE MoveToDeploy(q) \/ Launch(q) \/ Complete(q) \/ Fail(q) \/ ConcludeCancelled(q)
  BY <1>5 DEF MoveToDeploy, Launch, Complete, Fail, ConcludeCancelled
<1>6. CASE StepFails(q) \/ EngineAborts(q) \/ Crash(q)
  BY <1>6 DEF StepFails, EngineAborts, Crash
<1>. QED BY <1>1, <1>3, <1>4, <1>5, <1>6 DEF RunStep, Advance

LEMMA AloneBefore ==
  ASSUME TypeOK, NEW q \in Run, RunStep(q), NEW r \in Run, Alone(r)'
  PROVE  Alone(r)
BY MarkedForGood, OwnPhase DEF Alone

\* What a run's step makes of the status, for a run that has begun.
LEMMA StatusStep ==
  ASSUME TypeOK, NEW q \in Run, RunStep(q), status # "queued"
  PROVE  /\ status' # "queued"
         /\ status' = "waiting" => status = "waiting" \/ phase'[q] \notin Unmarked
<1>. USE DEF TypeOK, Goto, Require, Transition, Accepts, Write, rowVars, Mark, Active, Unmarked
<1>1. CASE Claim(q) \/ ClaimAgain(q) \/ Start(q) \/ Fetch(q) \/ PersistComposeEnv(q) \/ Check(q)
  BY <1>1 DEF Claim, ClaimAgain, Start, Fetch, PersistComposeEnv, Check
<1>2. CASE Prepare(q) \/ Complete(q)
  BY <1>2 DEF Prepare, Complete
<1>3. CASE MarkWaiting(q)
  BY <1>3 DEF MarkWaiting
<1>4. CASE CheckWaiting(q) \/ Deny(q) \/ Grant(q) \/ FinishBuild(q) \/ Recheck(q)
  BY <1>4 DEF CheckWaiting, Deny, Grant, FinishBuild, Recheck
<1>5. CASE MarkAcquired(q)
  BY <1>5 DEF MarkAcquired
<1>6. CASE MoveToDeploy(q) \/ Launch(q)
  BY <1>6 DEF MoveToDeploy, Launch
<1>7. CASE Fail(q) \/ ConcludeCancelled(q)
  BY <1>7 DEF Fail, ConcludeCancelled
<1>8. CASE StepFails(q) \/ EngineAborts(q) \/ Crash(q)
  BY <1>8 DEF StepFails, EngineAborts, Crash
<1>. QED
  BY <1>1, <1>2, <1>3, <1>4, <1>5, <1>6, <1>7, <1>8 DEF RunStep, Advance

LEMMA BegunStep ==
  ASSUME TypeOK, Begun, NEW q \in Run, RunStep(q)
  PROVE  Begun'
<1>1. CASE status = "queued"
  <2>1. \A r \in Run : phase[r] = "idle"
    BY <1>1 DEF Begun
  <2>2. ~Check(q) /\ ~ClaimAgain(q)
    BY <1>1, <2>1, CheckLaunches DEF Check, ClaimAgain, Active
  <2>3. Claim(q)
    BY <2>1, <2>2 DEF RunStep, Advance, Start, Prepare, Require,
       Fetch, PersistComposeEnv, MarkWaiting, CheckWaiting, Deny, Grant, MarkAcquired, Recheck,
       FinishBuild, MoveToDeploy, Launch, Complete, Fail, ConcludeCancelled, StepFails,
       EngineAborts, Crash, Goto, Executing, Building, Live
  <2>4. status' # "queued"
    BY <2>3 DEF Claim, Write, ClaimedStatus
  <2>. QED BY <2>4 DEF Begun
<1>2. CASE status # "queued"
  BY <1>2, StatusStep DEF Begun
<1>. QED BY <1>1, <1>2

\* What a run has to have done for the phases that Acquired and NotCancelled name.
LEMMA ArrivalStep ==
  ASSUME TypeOK, Concluded, AnswersAreTrue, AloneInv, NEW q \in Run, RunStep(q), Alone(q)
  PROVE  /\ phase'[q] \in {"recheck", "building", "built", "launching", "starting"}
            => status' \notin {"queued", "waiting"}
         /\ phase'[q] \in {"building", "built", "launching", "starting"}
            => \A u \in User : request[u] # "cancelled"
<1>. USE DEF TypeOK, Goto, Require, rowVars, AloneInv, Begun, Acquired, NotCancelled
<1>1. CASE Check(q)
  <2>1. phase'[q] \in {"recheck", "building", "built", "launching", "starting"}
        => phase[q] = "built"
    BY <1>1, CheckGoesOn, CheckLaunches DEF Check
  <2>2. UNCHANGED status
    BY <1>1 DEF Check
  <2>. QED BY <2>1, <2>2
<1>2. CASE Claim(q) \/ ClaimAgain(q) \/ Start(q) \/ Prepare(q) \/ Fetch(q)
  BY <1>2 DEF Claim, ClaimAgain, Start, Prepare, Fetch
<1>3. CASE PersistComposeEnv(q) \/ MarkWaiting(q) \/ CheckWaiting(q) \/ Deny(q) \/ Grant(q)
  BY <1>3 DEF PersistComposeEnv, MarkWaiting, CheckWaiting, Deny, Grant
<1>4. CASE MarkAcquired(q)
  BY <1>4 DEF MarkAcquired, Mark, Write, Status, Active, Terminal
<1>5. CASE Recheck(q)
  BY <1>5 DEF Recheck, AnswersAreTrue, Concluded
<1>6. CASE FinishBuild(q)
  BY <1>6 DEF FinishBuild
<1>7. CASE MoveToDeploy(q)
  <2>1. phase'[q] = "starting" => Accepts
    BY <1>7 DEF MoveToDeploy
  <2>2. Accepts => status' = "deploy"
    BY <1>7 DEF MoveToDeploy, Transition, Write
  <2>3. Accepts => \A u \in User : request[u] # "cancelled"
    BY DEF Accepts, Concluded, AnswersAreTrue
  <2>4. phase'[q] \in {"starting", "failing"}
    BY <1>7 DEF MoveToDeploy
  <2>. QED BY <2>1, <2>2, <2>3, <2>4
<1>8. CASE Launch(q) \/ Complete(q) \/ Fail(q) \/ ConcludeCancelled(q)
  BY <1>8 DEF Launch, Complete, Fail, ConcludeCancelled
<1>9. CASE StepFails(q) \/ EngineAborts(q) \/ Crash(q)
  BY <1>9 DEF StepFails, EngineAborts, Crash
<1>. QED
  BY <1>1, <1>2, <1>3, <1>4, <1>5, <1>6, <1>7, <1>8, <1>9 DEF RunStep, Advance

LEMMA AloneRun ==
  ASSUME TypeOK, Concluded, AnswersAreTrue, AloneInv, NEW q \in Run, RunStep(q)
  PROVE  AloneInv'
<1>1. Begun'
  BY BegunStep DEF AloneInv
<1>2. ASSUME NEW r \in Run, Alone(r)',
             phase'[r] \in {"recheck", "building", "built", "launching", "starting"}
      PROVE  status' \notin {"queued", "waiting"}
  <2>1. Alone(r)
    BY <1>2, AloneBefore
  <2>2. CASE r = q
    BY <1>2, <2>1, <2>2, ArrivalStep
  <2>3. CASE r # q
    <3>1. phase'[r] = phase[r] /\ phase'[q] \in Unmarked
      BY <1>2, <2>3, OwnPhase DEF Alone
    <3>2. status \notin {"queued", "waiting"}
      BY <1>2, <2>1, <3>1 DEF AloneInv, Acquired
    <3>. QED BY <3>1, <3>2, StatusStep
  <2>. QED BY <2>2, <2>3
<1>3. ASSUME NEW r \in Run, Alone(r)',
             phase'[r] \in {"building", "built", "launching", "starting"}
      PROVE  \A u \in User : request'[u] # "cancelled"
  <2>1. Alone(r) /\ UNCHANGED request
    BY <1>3, AloneBefore, OwnPhase
  <2>2. CASE r = q
    BY <1>3, <2>1, <2>2, ArrivalStep
  <2>3. CASE r # q
    BY <1>3, <2>1, <2>3, OwnPhase DEF AloneInv, NotCancelled
  <2>. QED BY <2>2, <2>3
<1>. QED BY <1>1, <1>2, <1>3 DEF AloneInv, Acquired, NotCancelled

LEMMA AloneOther ==
  ASSUME TypeOK, AloneInv, OtherStep
  PROVE  AloneInv'
<1>1. UNCHANGED <<phase, request>>
  BY DEF OtherStep, StartWorkflow, RecordWorkflow, DispatchFails, OperatorMoves, Touch,
     GoSilent, ExpireLease, FailAbandoned, WatchdogList, WatchdogRead, WatchdogCheck,
     WatchdogMark, runVars
<1>2. status' \in {status, "deploy", "completed", "failed"}
  BY DEF OtherStep, StartWorkflow, RecordWorkflow, DispatchFails, OperatorMoves, Touch,
     GoSilent, ExpireLease, FailAbandoned, WatchdogList, WatchdogRead, WatchdogCheck,
     WatchdogMark, rowVars, Write, Transition
<1>. QED BY <1>1, <1>2 DEF AloneInv, Alone, Begun, Acquired, NotCancelled

LEMMA AloneUser ==
  ASSUME TypeOK, AloneInv, NEW u \in User, UserStep(u)
  PROVE  AloneInv'
<1>1. UNCHANGED phase
  BY DEF UserStep, ReadForCancel, CancelQueued, RequestCancellation, runVars
<1>2. status' \in {status, "failed"}
  BY DEF UserStep, ReadForCancel, CancelQueued, RequestCancellation, rowVars, Write
<1>3. ASSUME NEW v \in User, request'[v] = "cancelled", request[v] # "cancelled"
      PROVE  status \in {"queued", "waiting"}
  BY <1>3 DEF TypeOK, UserStep, ReadForCancel, CancelQueued, RequestCancellation
<1>. QED BY <1>1, <1>2, <1>3 DEF AloneInv, Alone, Begun, Acquired, NotCancelled

\* However many runs a deployment has: a run that launches the service after a user
\* was told "cancelled" does so beside another run that has got as far as marking the
\* row as waiting for a slot, whatever the source is.
THEOREM LoneRunStops == Spec => LoneRunStopsWhenCancelled
<1>1. Init => AloneInv
  BY DEF Init, AloneInv, Begun, Acquired, NotCancelled
<1>2. TypeOK /\ Concluded /\ AnswersAreTrue /\ AloneInv /\ [Next]_vars => AloneInv'
  <2>1. UNCHANGED vars /\ AloneInv => AloneInv'
    BY DEF vars, rowVars, runVars, AloneInv, Alone, Begun, Acquired, NotCancelled
  <2>. QED BY <2>1, AloneRun, AloneOther, AloneUser DEF Next
<1>3. AloneInv /\ [Next]_vars
      => [\A r \in Run :
            Launch(r) /\ (\A q \in Run \ {r} : phase[q] \in Unmarked)
            => \A u \in User : request[u] # "cancelled"]_vars
  BY DEF AloneInv, Alone, NotCancelled, Launch, Goto
<1>. QED
  BY <1>1, <1>2, <1>3, LifecycleTypeCorrect, SpecConcluded, AnswersStayTrue, PTL
     DEF Spec, LoneRunStopsWhenCancelled
===============================================================================
