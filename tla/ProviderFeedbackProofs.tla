------------------------- MODULE ProviderFeedbackProofs -------------------------
(* Proofs about ProviderFeedback, for any processors, providers and deployments, *)
(* any number of transitions, attempts, faults and deleted comments.             *)
(*                                                                             *)
(* The invariant follows a processor through a delivery. Some of what it relies  *)
(* on is never taken back: what exists at the provider, which rows are closed.   *)
(* The rest is true as long as the lease is its own: that the row is open, that  *)
(* the ids it was given are the recorded ones, and, if leases are Timely, that   *)
(* what it did not find at the provider is still not there.                      *)
EXTENDS ProviderFeedback, PreviewCommentProofs, SequenceTheorems, FiniteSetTheorems, TLAPS

IdRow == [provider : Provider \cup {None}, dep : Nat, comment : Nat]
LeaseRow == [holder : Worker \cup {None}, live : BOOLEAN]
WorkRow == [step : Steps, target : Target \cup {None}, row : Nat, dep : Nat, comment : Nat]
Status == [dep : Nat, row : Nat]

(* A processor at work works on a row of a deployment whose provider is known,   *)
(* and is about the comment only in its last step.                              *)
AtWork ==
    \A p \in Worker : work[p].step # "idle" =>
        work[p].target \in Target /\ work[p].row \in 1..Len(rows[work[p].target])
Linked == \A t \in Target : Len(rows[t]) > 0 => ids[t].provider \in Provider
Together == \A p \in Worker : upsert[p].step # "idle" => work[p].step = "comment"
Typed == TypeOK /\ AtWork /\ Linked /\ Together /\ HasProvider

LEMMA Types ==
  ASSUME Typed
  PROVE  /\ rows \in [Target -> Seq(Row)]
         /\ ids \in [Target -> IdRow]
         /\ lease \in [Target -> LeaseRow]
         /\ work \in [Worker -> WorkRow]
         /\ deps \in [Target -> Nat]
         /\ statuses \in [Target -> Seq(Status)]
         /\ CommentTyped
BY DEF Typed, TypeOK, IdRow, LeaseRow, WorkRow, Status, CommentTyped

LEMMA TypedIf ==
  ASSUME rows \in [Target -> Seq(Row)], ids \in [Target -> IdRow],
         lease \in [Target -> LeaseRow], work \in [Worker -> WorkRow],
         deps \in [Target -> Nat], statuses \in [Target -> Seq(Status)],
         CommentTyped, AtWork, Linked, Together
  PROVE  Typed
BY DEF Typed, TypeOK, IdRow, LeaseRow, WorkRow, Status, CommentTyped

LEMMA TypedNext ==
  ASSUME rows' \in [Target -> Seq(Row)], ids' \in [Target -> IdRow],
         lease' \in [Target -> LeaseRow], work' \in [Worker -> WorkRow],
         deps' \in [Target -> Nat], statuses' \in [Target -> Seq(Status)],
         CommentTyped', AtWork', Linked', Together'
  PROVE  Typed'
BY DEF Typed, TypeOK, IdRow, LeaseRow, WorkRow, Status, CommentTyped

LEMMA InitTyped == Init => Typed
<1>. SUFFICES ASSUME Init PROVE Typed
  OBVIOUS
<1>1. CommentTyped
  BY CommentStarts DEF Init
<1>2. /\ NoId \in Nat /\ Free \in WorkRow /\ NoLease \in LeaseRow
      /\ [provider |-> None, dep |-> NoId, comment |-> NoId] \in IdRow
      /\ Free.step = "idle"
  BY DEF NoId, Free, WorkRow, NoLease, LeaseRow, IdRow, Steps
<1>3. /\ <<>> \in Seq(Row) /\ <<>> \in Seq(Status) /\ Len(<<>>) = 0
  BY EmptySeq
<1>4. AtWork /\ Linked
  BY <1>2, <1>3 DEF Init, AtWork, Linked
<1>5. Together
  BY DEF Init, CommentInit, Together, Resting
<1>. QED BY <1>1, <1>2, <1>3, <1>4, <1>5, TypedIf DEF Init

(* A processor moves within its delivery, or puts it down. *)
LEMMA WorkReplaced ==
  ASSUME Typed, NEW p \in Worker, NEW w \in WorkRow, work' = [work EXCEPT ![p] = w]
  PROVE  work' \in [Worker -> WorkRow] /\ work'[p] = w
         /\ \A q \in Worker \ {p} : work'[q] = work[q]
BY Types

Same(p) == work'[p].target = work[p].target /\ work'[p].row = work[p].row
OthersStay(p) == \A q \in Worker \ {p} : work'[q] = work[q]

LEMMA AdvanceEffect ==
  ASSUME Typed, NEW p \in Worker, NEW s \in Steps, Advance(p, s)
  PROVE  /\ work' \in [Worker -> WorkRow] /\ OthersStay(p) /\ Same(p)
         /\ work'[p].step = s /\ work'[p].dep = work[p].dep
         /\ work'[p].comment = work[p].comment
<1>. DEFINE w == [work[p] EXCEPT !.step = s]
<1>1. w \in WorkRow /\ w.step = s /\ w.dep = work[p].dep /\ w.comment = work[p].comment
      /\ w.target = work[p].target /\ w.row = work[p].row
  BY Types DEF WorkRow
<1>2. work' = [work EXCEPT ![p] = w]
  BY DEF Advance
<1>. HIDE DEF w
<1>. QED BY <1>1, <1>2, WorkReplaced DEF OthersStay, Same

LEMMA GiveEffect ==
  ASSUME Typed, NEW p \in Worker, NEW s \in Steps, Give(p, s)
  PROVE  /\ work' \in [Worker -> WorkRow] /\ OthersStay(p) /\ Same(p)
         /\ work'[p].step = s /\ work'[p].dep = NoId
<1>. DEFINE w == [work[p] EXCEPT !.step = s, !.dep = NoId, !.comment = NoId]
<1>1. w \in WorkRow /\ w.step = s /\ w.dep = NoId
      /\ w.target = work[p].target /\ w.row = work[p].row
  BY Types DEF WorkRow, NoId
<1>2. work' = [work EXCEPT ![p] = w]
  BY DEF Give
<1>. HIDE DEF w
<1>. QED BY <1>1, <1>2, WorkReplaced DEF OthersStay, Same

LEMMA FreeEffect ==
  ASSUME Typed, NEW p \in Worker, work' = [work EXCEPT ![p] = Free]
  PROVE  work' \in [Worker -> WorkRow] /\ OthersStay(p) /\ work'[p].step = "idle"
<1>1. Free \in WorkRow /\ Free.step = "idle"
  BY DEF Free, WorkRow, NoId, Steps
<1>. QED BY <1>1, WorkReplaced DEF OthersStay

LEMMA RowsOf ==
  ASSUME Typed, NEW t \in Target
  PROVE  /\ rows[t] \in Seq(Row) /\ Len(rows[t]) \in Nat /\ DOMAIN rows[t] = 1..Len(rows[t])
         /\ \A i \in 1..Len(rows[t]) : rows[t][i] \in Row
BY Types

(* A row is replaced by another, and the table that results. *)
SetRow(t, i, r) == rows' = [rows EXCEPT ![t][i] = r]
RowIsSet(t, i, r) ==
    /\ rows' \in [Target -> Seq(Row)]
    /\ \A u \in Target : Len(rows'[u]) = Len(rows[u])
    /\ rows'[t][i] = r
    /\ \A u \in Target : \A j \in 1..Len(rows[u]) : (u = t /\ j = i) \/ rows'[u][j] = rows[u][j]

LEMMA RowReplaced ==
  ASSUME Typed, NEW t \in Target, NEW i \in 1..Len(rows[t]), NEW r \in Row, SetRow(t, i, r)
  PROVE  RowIsSet(t, i, r)
<1>1. rows[t] \in Seq(Row)
  BY Types
<1>. DEFINE s == [rows[t] EXCEPT ![i] = r]
<1>2. /\ s \in Seq(Row) /\ Len(s) = Len(rows[t])
      /\ \A j \in 1..Len(rows[t]) : s[j] = IF j = i THEN r ELSE rows[t][j]
  BY <1>1, ExceptSeq
<1>3. rows' = [rows EXCEPT ![t] = s]
  BY DEF SetRow
<1>. HIDE DEF s
<1>. QED BY <1>2, <1>3, Types DEF RowIsSet

(* The effect of each step on the tables it changes. *)
Queued(t) ==
    /\ rows' \in [Target -> Seq(Row)]
    /\ Len(rows'[t]) = Len(rows[t]) + 1
    /\ \A u \in Target \ {t} : rows'[u] = rows[u]
    /\ \A i \in 1..Len(rows[t]) : rows'[t][i] = rows[t][i]
    /\ rows'[t][Len(rows[t]) + 1].state = "pending"
    /\ ids' \in [Target -> IdRow]
    /\ \A u \in Target : ids'[u].dep = ids[u].dep /\ ids'[u].comment = ids[u].comment
    /\ ids'[t].provider \in Provider
    /\ \A u \in Target \ {t} : ids'[u] = ids[u]
    /\ UNCHANGED <<lease, work, remoteVars, commentVars, faults>>

LEMMA QueueEffect ==
  ASSUME Typed, NEW t \in Target, QueueIntent(t)
  PROVE  Queued(t)
<1>. DEFINE r == [state |-> "pending", attempts |-> 0]
<1>1. r \in Row
  BY AttemptsAssumption DEF Row, Open
<1>2. rows[t] \in Seq(Row) /\ rows' = [rows EXCEPT ![t] = Append(rows[t], r)]
  BY Types DEF QueueIntent
<1>3. r.state = "pending"
  OBVIOUS
<1>. HIDE DEF r
<1>4. /\ rows' \in [Target -> Seq(Row)]
      /\ Len(rows'[t]) = Len(rows[t]) + 1
      /\ \A u \in Target \ {t} : rows'[u] = rows[u]
      /\ \A i \in 1..Len(rows[t]) : rows'[t][i] = rows[t][i]
      /\ rows'[t][Len(rows[t]) + 1] = r
  <2>1. Append(rows[t], r) \in Seq(Row) /\ rows'[t] = Append(rows[t], r)
    BY <1>1, <1>2, Types, AppendProperties
  <2>. QED BY <1>1, <1>2, <2>1, Types, AppendProperties
<1>5. PICK pr \in Provider :
         ids' = [ids EXCEPT ![t].provider = IF ids[t].provider = None THEN pr ELSE ids[t].provider]
  BY DEF QueueIntent
<1>. DEFINE new == IF ids[t].provider = None THEN pr ELSE ids[t].provider
            d == [ids[t] EXCEPT !.provider = new]
<1>6. new \in Provider
  BY Types DEF IdRow
<1>7. ids' = [ids EXCEPT ![t] = d]
  BY <1>5
<1>. HIDE DEF new
<1>8. d \in IdRow /\ d.provider = new /\ d.dep = ids[t].dep /\ d.comment = ids[t].comment
  BY <1>6, Types DEF IdRow
<1>. HIDE DEF d
<1>9. /\ ids' \in [Target -> IdRow]
      /\ \A u \in Target : ids'[u].dep = ids[u].dep /\ ids'[u].comment = ids[u].comment
      /\ ids'[t].provider \in Provider
      /\ \A u \in Target \ {t} : ids'[u] = ids[u]
  BY <1>6, <1>7, <1>8, Types
<1>10. UNCHANGED <<lease, work, remoteVars, commentVars, faults>>
  BY DEF QueueIntent
<1>. QED BY <1>3, <1>4, <1>9, <1>10 DEF Queued

Claimed(p, t, i) ==
    /\ i \in 1..Len(rows[t]) /\ Claimable(t, i)
    /\ rows' \in [Target -> Seq(Row)]
    /\ \A u \in Target : Len(rows'[u]) = Len(rows[u])
    /\ rows'[t][i].state \in Open
    /\ \A u \in Target : \A j \in 1..Len(rows[u]) : (u = t /\ j = i) \/ rows'[u][j] = rows[u][j]
    /\ lease' \in [Target -> LeaseRow]
    /\ lease'[t] = [holder |-> p, live |-> TRUE]
    /\ \A u \in Target \ {t} : lease'[u] = lease[u]
    /\ work' \in [Worker -> WorkRow] /\ OthersStay(p)
    /\ work[p].step = "idle"
    /\ work'[p] = [step |-> "deployment", target |-> t, row |-> i,
                   dep |-> ids[t].dep, comment |-> ids[t].comment]
    /\ UNCHANGED <<ids, remoteVars, commentVars, faults>>

LEMMA ClaimEffect ==
  ASSUME Typed, NEW p \in Worker, NEW t \in Target, Claim(p, t)
  PROVE  \E i \in 1..Len(rows[t]) : Claimed(p, t, i)
<1>1. PICK i \in 1..Len(rows[t]) :
         /\ Claimable(t, i)
         /\ rows' = [rows EXCEPT ![t][i] =
              [state |-> IF rows[t][i].attempts > 0 THEN "retrying" ELSE "pending",
               attempts |-> IF rows[t][i].attempts < MaxAttempts THEN rows[t][i].attempts + 1
                            ELSE rows[t][i].attempts]]
         /\ lease' = [lease EXCEPT ![t] = [holder |-> p, live |-> TRUE]]
         /\ work' = [work EXCEPT ![p] = [step |-> "deployment", target |-> t, row |-> i,
                                         dep |-> ids[t].dep, comment |-> ids[t].comment]]
  BY RowsOf DEF Claim
<1>. DEFINE n == rows[t][i].attempts
            s == IF n > 0 THEN "retrying" ELSE "pending"
            m == IF n < MaxAttempts THEN n + 1 ELSE n
            r == [state |-> s, attempts |-> m]
            l == [holder |-> p, live |-> TRUE]
            w == [step |-> "deployment", target |-> t, row |-> i,
                  dep |-> ids[t].dep, comment |-> ids[t].comment]
<1>2. n \in 0..MaxAttempts
  BY RowsOf DEF Row
<1>3. s \in Open /\ m \in 0..MaxAttempts
  BY <1>2, AttemptsAssumption DEF Open
<1>4. rows' = [rows EXCEPT ![t][i] = r]
  BY <1>1
<1>. HIDE DEF n, s, m
<1>5. r \in Row /\ r.state \in Open
  BY <1>3 DEF Row
<1>. HIDE DEF r
<1>6. /\ rows' \in [Target -> Seq(Row)]
      /\ \A u \in Target : Len(rows'[u]) = Len(rows[u])
      /\ rows'[t][i] = r
      /\ \A u \in Target : \A j \in 1..Len(rows[u]) : (u = t /\ j = i) \/ rows'[u][j] = rows[u][j]
  <2>1. SetRow(t, i, r)
    BY <1>4 DEF SetRow
  <2>2. RowIsSet(t, i, r)
    BY <1>5, <2>1, RowReplaced
  <2>. QED BY <2>2 DEF RowIsSet
<1>7. l \in LeaseRow
  BY DEF LeaseRow
<1>8. w \in WorkRow
  <2>1. ids[t].dep \in Nat /\ ids[t].comment \in Nat /\ i \in Nat
    BY RowsOf, Types DEF IdRow
  <2>2. "deployment" \in Steps
    BY DEF Steps, RemoteSteps
  <2>. QED BY <2>1, <2>2 DEF WorkRow
<1>9. lease' = [lease EXCEPT ![t] = l] /\ work' = [work EXCEPT ![p] = w]
  BY <1>1
<1>10. work' \in [Worker -> WorkRow] /\ OthersStay(p) /\ work'[p] = w
  <2>. HIDE DEF w
  <2>. QED BY <1>8, <1>9, WorkReplaced DEF OthersStay
<1>11. /\ lease' \in [Target -> LeaseRow] /\ lease'[t] = l
       /\ \A u \in Target \ {t} : lease'[u] = lease[u]
  <2>. HIDE DEF l
  <2>. QED BY <1>7, <1>9, Types
<1>12. work[p].step = "idle" /\ UNCHANGED <<ids, remoteVars, commentVars, faults>>
  BY DEF Claim
<1>13. Claimed(p, t, i)
  BY <1>1, <1>5, <1>6, <1>10, <1>11, <1>12 DEF Claimed
<1>. QED BY <1>13

(* The outcome of a processor that holds the lease. *)
Recorded(p, t, i) ==
    /\ t \in Target /\ i \in 1..Len(rows[t]) /\ HoldsLease(p)
    /\ rows' \in [Target -> Seq(Row)]
    /\ \A u \in Target : Len(rows'[u]) = Len(rows[u])
    /\ rows'[t][i].state = "delivered" => work[p].step = "delivered"
    /\ \A u \in Target : \A j \in 1..Len(rows[u]) : (u = t /\ j = i) \/ rows'[u][j] = rows[u][j]
    /\ lease' \in [Target -> LeaseRow]
    /\ lease'[t].holder = None /\ ~lease'[t].live
    /\ \A u \in Target \ {t} : lease'[u] = lease[u]
    /\ ids' \in [Target -> IdRow]
    /\ \A u \in Target \ {t} : ids'[u] = ids[u]
    /\ ids'[t].provider = ids[t].provider
    /\ work[p].step = "delivered" =>
          ids'[t].dep = work[p].dep /\ ids'[t].comment = work[p].comment
    /\ work[p].step # "delivered" => ids' = ids

LEMMA RecordEffect ==
  ASSUME Typed, NEW p \in Worker, Record(p)
  PROVE  /\ work[p].step \in Outcomes
         /\ work' \in [Worker -> WorkRow] /\ OthersStay(p) /\ work'[p].step = "idle"
         /\ UNCHANGED <<remoteVars, commentVars, faults>>
         /\ Recorded(p, work[p].target, work[p].row) \/ UNCHANGED rowVars
<1>. DEFINE t == work[p].target
            i == work[p].row
<1>1. work[p].step \in Outcomes /\ UNCHANGED <<remoteVars, commentVars, faults>>
  BY DEF Record
<1>2. work' \in [Worker -> WorkRow] /\ OthersStay(p) /\ work'[p].step = "idle"
  BY FreeEffect DEF Record
<1>3. t \in Target /\ i \in 1..Len(rows[t])
  BY <1>1 DEF Typed, AtWork, Outcomes
<1>4. CASE HoldsLease(p)
  <2>. DEFINE n == NewState(p)
              m == IF n = "retrying" THEN rows[t][i].attempts ELSE 0
              r == [state |-> n, attempts |-> m]
  <2>1. rows[t][i] \in Row
    BY <1>3, Types
  <2>2. n \in Open \cup Closed \cup {"dead-letter"} /\ (n = "delivered" => work[p].step = "delivered")
    BY <1>1 DEF NewState, Outcomes, Open, Closed
  <2>3. m \in 0..MaxAttempts
    BY <2>1, AttemptsAssumption DEF Row
  <2>4. rows' = [rows EXCEPT ![t][i] = r]
    BY <1>4 DEF Record
  <2>. HIDE DEF n, m
  <2>5. r \in Row /\ r.state = n
    BY <2>2, <2>3 DEF Row
  <2>. HIDE DEF r
  <2>6. /\ rows' \in [Target -> Seq(Row)]
        /\ \A u \in Target : Len(rows'[u]) = Len(rows[u])
        /\ rows'[t][i] = r
        /\ \A u \in Target : \A j \in 1..Len(rows[u]) : (u = t /\ j = i) \/ rows'[u][j] = rows[u][j]
    <3>. HIDE DEF t, i
    <3>1. SetRow(t, i, r)
      BY <2>4 DEF SetRow
    <3>2. RowIsSet(t, i, r)
      BY <1>3, <2>5, <3>1, RowReplaced
    <3>. QED BY <3>2 DEF RowIsSet
  <2>7. lease' = [lease EXCEPT ![t] = NoLease] /\ NoLease \in LeaseRow
        /\ NoLease.holder = None /\ ~NoLease.live
    BY <1>4 DEF Record, NoLease, LeaseRow
  <2>8. /\ lease' \in [Target -> LeaseRow]
        /\ lease'[t].holder = None /\ ~lease'[t].live
        /\ \A u \in Target \ {t} : lease'[u] = lease[u]
    BY <1>3, <2>7, Types
  <2>9. /\ ids' \in [Target -> IdRow]
        /\ \A u \in Target \ {t} : ids'[u] = ids[u]
        /\ ids'[t].provider = ids[t].provider
        /\ work[p].step = "delivered" =>
              ids'[t].dep = work[p].dep /\ ids'[t].comment = work[p].comment
        /\ work[p].step # "delivered" => ids' = ids
    <3>1. CASE work[p].step = "delivered"
      <4>. DEFINE d == [ids[t] EXCEPT !.dep = work[p].dep, !.comment = work[p].comment]
      <4>1. ids' = [ids EXCEPT ![t] = d]
        BY <1>4, <3>1 DEF Record
      <4>2. d \in IdRow /\ d.provider = ids[t].provider /\ d.dep = work[p].dep
            /\ d.comment = work[p].comment
        BY <1>3, Types DEF IdRow, WorkRow
      <4>. HIDE DEF d
      <4>. QED BY <1>3, <3>1, <4>1, <4>2, Types
    <3>2. CASE work[p].step # "delivered"
      BY <1>4, <3>2, Types DEF Record
    <3>. QED BY <3>1, <3>2
  <2>. QED BY <1>1, <1>2, <1>3, <1>4, <2>2, <2>5, <2>6, <2>8, <2>9 DEF Recorded
<1>5. CASE ~HoldsLease(p)
  BY <1>1, <1>2, <1>5 DEF Record
<1>. QED BY <1>4, <1>5

(* A processor goes on within its delivery: it keeps its row, and nothing but    *)
(* what it does at the provider changes.                                        *)
Delivering(p) ==
    /\ work[p].step # "idle" /\ work'[p].step # "idle"
    /\ work' \in [Worker -> WorkRow] /\ OthersStay(p) /\ Same(p)
    /\ UNCHANGED <<rowVars, faults>>

Quiet(p) == upsert[p].step = "idle" /\ UNCHANGED commentVars

GivenUp(p) == work'[p].step \in {"retry", "reject", "skip"} /\ work'[p].dep = NoId
Advanced(p, s) ==
    work'[p].step = s /\ work'[p].dep = work[p].dep /\ work'[p].comment = work[p].comment

LEMMA StepNames ==
  /\ RemoteSteps \subseteq Steps /\ Outcomes \subseteq Steps
  /\ {"retry", "reject", "skip"} \subseteq Steps
  /\ "idle" \notin RemoteSteps \cup Outcomes
  /\ Failures \subseteq {"retry", "reject", "skip"}
BY FailuresAssumption DEF Steps, RemoteSteps, Outcomes

LEMMA FindDeploymentEffect ==
  ASSUME Typed, NEW p \in Worker, FindDeployment(p)
  PROVE  /\ Delivering(p) /\ Quiet(p) /\ UNCHANGED remoteVars
         /\ work[p].step = "deployment"
         /\ \/ work[p].dep # NoId /\ Advanced(p, "status")
            \/ /\ work[p].dep = NoId
               /\ work'[p].step = "status" /\ work'[p].dep \in 1..deps[work[p].target]
               /\ work'[p].comment = work[p].comment
            \/ /\ work[p].dep = NoId /\ deps[work[p].target] = 0
               /\ Advanced(p, "new deployment")
<1>. DEFINE t == work[p].target
<1>1. work[p].step = "deployment" /\ UNCHANGED <<rowVars, remoteVars, commentVars, faults>>
  BY DEF FindDeployment
<1>2. Quiet(p)
  BY <1>1 DEF Typed, Together, Quiet
<1>3. t \in Target /\ deps[t] \in Nat
  BY <1>1, Types DEF Typed, AtWork
<1>4. {"status", "new deployment"} \subseteq Steps
  BY DEF Steps, RemoteSteps
<1>5. CASE work[p].dep # NoId /\ Advance(p, "status")
  BY <1>1, <1>2, <1>4, <1>5, AdvanceEffect DEF Delivering, Advanced
<1>6. CASE work[p].dep = NoId /\ deps[t] = 0 /\ Advance(p, "new deployment")
  BY <1>1, <1>2, <1>4, <1>6, AdvanceEffect DEF Delivering, Advanced
<1>7. ASSUME NEW d \in 1..deps[t], work[p].dep = NoId,
             work' = [work EXCEPT ![p].step = "status", ![p].dep = d]
      PROVE  /\ Delivering(p) /\ work'[p].step = "status" /\ work'[p].dep = d
             /\ work'[p].comment = work[p].comment
  <2>. DEFINE w == [work[p] EXCEPT !.step = "status", !.dep = d]
  <2>1. d \in Nat
    BY <1>3, <1>7
  <2>2. /\ w \in WorkRow /\ w.step = "status" /\ w.dep = d
        /\ w.target = work[p].target /\ w.row = work[p].row /\ w.comment = work[p].comment
    BY <1>4, <2>1, Types DEF WorkRow
  <2>3. work' = [work EXCEPT ![p] = w]
    BY <1>7
  <2>. HIDE DEF w
  <2>. QED BY <1>1, <2>2, <2>3, WorkReplaced DEF Delivering, OthersStay, Same
<1>. QED BY <1>1, <1>2, <1>5, <1>6, <1>7 DEF FindDeployment

LEMMA CreateDeploymentEffect ==
  ASSUME Typed, NEW p \in Worker, CreateDeployment(p)
  PROVE  LET t == work[p].target
         IN  /\ Delivering(p) /\ Quiet(p) /\ UNCHANGED statuses
             /\ work[p].step = "new deployment" /\ t \in Target
             /\ deps' \in [Target -> Nat] /\ deps'[t] = deps[t] + 1
             /\ \A u \in Target \ {t} : deps'[u] = deps[u]
             /\ \/ /\ work'[p].step = "status" /\ work'[p].dep = deps[t] + 1
                   /\ work'[p].comment = work[p].comment
                \/ GivenUp(p)
<1>. DEFINE t == work[p].target
<1>1. /\ work[p].step = "new deployment" /\ UNCHANGED <<rowVars, statuses, commentVars, faults>>
      /\ deps' = [deps EXCEPT ![t] = deps[t] + 1]
  BY DEF CreateDeployment
<1>2. Quiet(p)
  BY <1>1 DEF Typed, Together, Quiet
<1>3. t \in Target /\ deps[t] \in Nat /\ deps[t] + 1 \in Nat
  <2>1. t \in Target
    BY <1>1 DEF Typed, AtWork
  <2>2. deps[t] \in Nat
    BY <2>1, Types
  <2>. QED BY <2>1, <2>2
<1>4. /\ deps' \in [Target -> Nat] /\ deps'[t] = deps[t] + 1
      /\ \A u \in Target \ {t} : deps'[u] = deps[u]
  BY <1>1, <1>3, Types
<1>5. CASE work' = [work EXCEPT ![p].step = "status", ![p].dep = deps[t] + 1]
  <2>. DEFINE d == deps[t] + 1
              w == [work[p] EXCEPT !.step = "status", !.dep = d]
  <2>1. d \in Nat /\ "status" \in Steps
    BY <1>3 DEF Steps, RemoteSteps
  <2>2. work' = [work EXCEPT ![p] = w]
    BY <1>5
  <2>. HIDE DEF d
  <2>3. /\ w \in WorkRow /\ w.step = "status" /\ w.dep = d
        /\ w.target = work[p].target /\ w.row = work[p].row /\ w.comment = work[p].comment
    BY <2>1, Types DEF WorkRow
  <2>. HIDE DEF w
  <2>4. /\ Delivering(p) /\ work'[p].step = "status" /\ work'[p].dep = d
        /\ work'[p].comment = work[p].comment
    BY <1>1, <2>2, <2>3, WorkReplaced DEF Delivering, OthersStay, Same
  <2>. QED BY <1>1, <1>2, <1>3, <1>4, <2>4 DEF d
<1>6. CASE Give(p, "retry")
  <2>1. Delivering(p) /\ GivenUp(p)
    BY <1>1, <1>6, StepNames, GiveEffect DEF Delivering, GivenUp
  <2>. QED BY <1>1, <1>2, <1>3, <1>4, <2>1
<1>. QED BY <1>5, <1>6 DEF CreateDeployment

LEMMA StartEffect ==
  ASSUME Typed, NEW p \in Worker, work[p].step # "idle", StartUpsert(p),
         UNCHANGED <<comment, remote, made, deleted>>
  PROVE  Begins(p)
<1>1. ids[work[p].target].provider \in Provider
  BY RowsOf DEF Typed, AtWork, Linked
<1>. QED BY <1>1 DEF StartUpsert, Begins

LEMMA FindStatusEffect ==
  ASSUME Typed, NEW p \in Worker, FindStatus(p)
  PROVE  /\ Delivering(p) /\ UNCHANGED remoteVars
         /\ work[p].step = "status"
         /\ \/ StatusFound(p) /\ Advanced(p, "comment") /\ Begins(p)
            \/ ~StatusFound(p) /\ Advanced(p, "new status") /\ Quiet(p)
<1>1. /\ work[p].step = "status"
      /\ UNCHANGED <<rowVars, remoteVars, comment, remote, made, deleted, faults>>
  BY DEF FindStatus
<1>2. {"comment", "new status"} \subseteq Steps
  BY DEF Steps, RemoteSteps
<1>3. CASE StatusFound(p)
  BY <1>1, <1>2, <1>3, AdvanceEffect, StartEffect DEF FindStatus, Delivering, Advanced
<1>4. CASE ~StatusFound(p)
  <2>1. Quiet(p)
    BY <1>1, <1>4 DEF FindStatus, Typed, Together, Quiet, commentVars
  <2>. QED BY <1>1, <1>2, <1>4, <2>1, AdvanceEffect DEF FindStatus, Delivering, Advanced
<1>. QED BY <1>3, <1>4

(* The statuses of a deployment with one more. *)
StatusAdded(t, s) ==
    /\ statuses' \in [Target -> Seq(Status)]
    /\ statuses'[t] = Append(statuses[t], s)
    /\ Len(statuses'[t]) = Len(statuses[t]) + 1
    /\ \A k \in 1..Len(statuses[t]) : statuses'[t][k] = statuses[t][k]
    /\ statuses'[t][Len(statuses[t]) + 1] = s
    /\ \A u \in Target \ {t} : statuses'[u] = statuses[u]

LEMMA CreateStatusEffect ==
  ASSUME Typed, NEW p \in Worker, CreateStatus(p)
  PROVE  LET t == work[p].target
         IN  /\ Delivering(p) /\ UNCHANGED deps
             /\ work[p].step = "new status" /\ t \in Target
             /\ StatusAdded(t, TheStatus(p)) /\ TheStatus(p) \in Status
             /\ \/ Advanced(p, "comment") /\ Begins(p)
                \/ GivenUp(p) /\ Quiet(p)
<1>. DEFINE t == work[p].target
<1>1. /\ work[p].step = "new status"
      /\ UNCHANGED <<rowVars, deps, comment, remote, made, deleted, faults>>
      /\ statuses' = [statuses EXCEPT ![t] = Append(statuses[t], TheStatus(p))]
  BY DEF CreateStatus
<1>2. t \in Target
  BY <1>1 DEF Typed, AtWork
<1>3. TheStatus(p) \in Status
  BY Types DEF TheStatus, Status, WorkRow
<1>4. StatusAdded(t, TheStatus(p))
  <2>. DEFINE s == TheStatus(p)
  <2>. HIDE DEF s, t
  <2>1. statuses[t] \in Seq(Status) /\ Append(statuses[t], s) \in Seq(Status)
    BY <1>2, <1>3, Types, AppendProperties DEF s
  <2>2. /\ statuses' \in [Target -> Seq(Status)] /\ statuses'[t] = Append(statuses[t], s)
        /\ \A u \in Target \ {t} : statuses'[u] = statuses[u]
    BY <1>1, <1>2, <2>1, Types DEF s
  <2>3. StatusAdded(t, s)
    BY <1>3, <2>1, <2>2, AppendProperties DEF StatusAdded, s
  <2>. QED BY <2>3 DEF s, t
<1>5. CASE Advance(p, "comment") /\ StartUpsert(p)
  <2>1. "comment" \in Steps
    BY DEF Steps, RemoteSteps
  <2>2. Begins(p)
    BY <1>1, <1>5, StartEffect
  <2>3. Delivering(p) /\ Advanced(p, "comment")
    BY <1>1, <1>5, <2>1, AdvanceEffect DEF Delivering, Advanced
  <2>. QED BY <1>1, <1>2, <1>3, <1>4, <2>2, <2>3
<1>6. CASE Give(p, "retry") /\ UNCHANGED upsert
  <2>1. Quiet(p)
    BY <1>1, <1>6 DEF Typed, Together, Quiet, commentVars
  <2>2. Delivering(p) /\ GivenUp(p)
    BY <1>1, <1>6, StepNames, GiveEffect DEF Delivering, GivenUp
  <2>. QED BY <1>1, <1>2, <1>3, <1>4, <2>1, <2>2
<1>. QED BY <1>5, <1>6 DEF CreateStatus

LEMMA FailsEffect ==
  ASSUME Typed, NEW p \in Worker, DeliveryFails(p)
  PROVE  Delivering(p) /\ Quiet(p) /\ GivenUp(p) /\ UNCHANGED remoteVars
<1>1. /\ work[p].step \in RemoteSteps \ {"comment"}
      /\ UNCHANGED <<rowVars, remoteVars, commentVars, faults>>
      /\ \E s \in {"retry", "reject", "skip"} : Give(p, s)
  BY StepNames DEF DeliveryFails
<1>2. Quiet(p)
  BY <1>1 DEF Typed, Together, Quiet
<1>. QED BY <1>1, <1>2, StepNames, GiveEffect DEF Delivering, GivenUp

LEMMA FinishEffect ==
  ASSUME Typed, NEW p \in Worker, FinishUpsert(p)
  PROVE  /\ Delivering(p) /\ Rests(p) /\ UNCHANGED remoteVars
         /\ work[p].step = "comment"
         /\ \/ /\ work'[p].step = "delivered" /\ work'[p].dep = work[p].dep
               /\ work[p].comment # NoId => work'[p].comment = work[p].comment
            \/ GivenUp(p)
<1>1. /\ upsert[p].step \in Verdicts /\ upsert' = [upsert EXCEPT ![p] = Resting]
      /\ UNCHANGED <<rowVars, remoteVars, comment, remote, made, deleted, faults>>
  BY DEF FinishUpsert
<1>2. work[p].step = "comment" /\ Rests(p)
  BY <1>1 DEF Typed, Together, Verdicts, Rests
<1>3. CASE upsert[p].step = "done" /\ StableIdentity(p)
  <2>. DEFINE i == upsert[p].id
              w == [work[p] EXCEPT !.step = "delivered", !.comment = i]
  <2>1. work' = [work EXCEPT ![p] = w]
    BY <1>3 DEF FinishUpsert
  <2>2. i \in Nat /\ "delivered" \in Steps /\ work[p].comment \in {NoId, i}
    BY <1>3, Types, CommentTypes DEF Upsert, Steps, Outcomes, StableIdentity
  <2>. HIDE DEF i
  <2>3. /\ w \in WorkRow /\ w.step = "delivered" /\ w.dep = work[p].dep /\ w.comment = i
        /\ w.target = work[p].target /\ w.row = work[p].row
    BY <2>2, Types DEF WorkRow
  <2>. HIDE DEF w
  <2>. QED BY <1>1, <1>2, <2>1, <2>2, <2>3, WorkReplaced DEF Delivering, OthersStay, Same
<1>4. CASE ~(upsert[p].step = "done" /\ StableIdentity(p))
  <2>1. \E s \in {"retry", "reject", "skip"} : Give(p, s)
    BY <1>1, <1>4 DEF FinishUpsert, Verdicts
  <2>. QED BY <1>1, <1>2, <2>1, StepNames, GiveEffect DEF Delivering, GivenUp
<1>. QED BY <1>3, <1>4

(* Every step of a delivery, with what happens to the comment. *)
LEMMA DeliveringTyped ==
  ASSUME Typed, NEW p \in Worker, Delivering(p),
         deps' \in [Target -> Nat], statuses' \in [Target -> Seq(Status)],
         Quiet(p) \/ Rests(p) \/ (Begins(p) /\ work'[p].step = "comment")
  PROVE  Typed'
<1>1. faults' \in 0..MaxFaults
  BY DEF Delivering, Typed, TypeOK, CommentTypeOK
<1>2. CommentStep
  BY DEF CommentStep, Quiet
<1>3. CommentTyped'
  BY <1>1, <1>2, Types, CommentTypesKept
<1>4. UNCHANGED <<rows, ids, lease>> /\ work' \in [Worker -> WorkRow]
  BY DEF Delivering, rowVars
<1>5. AtWork'
  BY <1>4 DEF Delivering, OthersStay, Same, Typed, AtWork
<1>6. Together'
  <2>1. \A q \in Worker \ {p} : upsert'[q] = upsert[q]
    BY Types, CommentTypes DEF Quiet, commentVars, Rests, Begins
  <2>2. upsert'[p].step = "idle" \/ work'[p].step = "comment"
    BY Types, CommentTypes DEF Quiet, commentVars, Rests, Resting
  <2>. QED BY <2>1, <2>2 DEF Delivering, OthersStay, Typed, Together
<1>7. Linked'
  BY <1>4 DEF Typed, Linked
<1>. QED BY <1>3, <1>4, <1>5, <1>6, <1>7, Types, TypedNext

(* A step that leaves the comment alone, and the upserts at work. *)
LEMMA CommentStays ==
  ASSUME Typed, UNCHANGED commentVars, faults' \in 0..MaxFaults
  PROVE  CommentTyped' /\ upsert' = upsert
BY Types, CommentTypesKept DEF CommentStep, commentVars

LEMMA NextTyped == Typed /\ [Next]_vars => Typed'
<1>. SUFFICES ASSUME Typed, [Next]_vars PROVE Typed'
  OBVIOUS
<1>0. faults \in 0..MaxFaults
  BY DEF Typed, TypeOK, CommentTypeOK
<1>1. ASSUME NEW t \in Target, QueueIntent(t) PROVE Typed'
  <2>1. Queued(t)
    BY <1>1, QueueEffect
  <2>2. CommentTyped' /\ upsert' = upsert
    BY <1>0, <2>1, CommentStays DEF Queued
  <2>3. AtWork'
    <3>1. \A u \in Target : Len(rows[u]) \in Nat /\ Len(rows'[u]) \in Nat
                            /\ Len(rows[u]) <= Len(rows'[u])
      BY <2>1, RowsOf DEF Queued
    <3>2. work' = work
      BY <2>1 DEF Queued
    <3>. QED BY <3>1, <3>2 DEF Typed, AtWork
  <2>4. Linked'
    BY <2>1 DEF Queued, Typed, Linked
  <2>5. Together'
    BY <2>1, <2>2 DEF Queued, Typed, Together
  <2>. QED BY <2>1, <2>2, <2>3, <2>4, <2>5, Types, TypedNext DEF Queued, remoteVars
<1>2. ASSUME NEW t \in Target, LoseLease(t) PROVE Typed'
  <2>1. /\ lease' = [lease EXCEPT ![t].live = FALSE]
        /\ UNCHANGED <<rows, ids, work, remoteVars, commentVars>>
        /\ faults' \in 0..MaxFaults
    BY <1>0, <1>2, BoundsAssumption DEF LoseLease
  <2>2. CommentTyped' /\ upsert' = upsert
    BY <2>1, CommentStays
  <2>3. lease' \in [Target -> LeaseRow]
    BY <2>1, Types DEF LeaseRow
  <2>4. AtWork' /\ Linked' /\ Together'
    BY <2>1, <2>2 DEF Typed, AtWork, Linked, Together
  <2>. QED BY <2>1, <2>2, <2>3, <2>4, Types, TypedNext DEF remoteVars
<1>3. ASSUME NEW p \in Worker, NEW t \in Target, Claim(p, t) PROVE Typed'
  <2>1. PICK i \in 1..Len(rows[t]) : Claimed(p, t, i)
    BY <1>3, ClaimEffect
  <2>2. CommentTyped' /\ upsert' = upsert
    BY <1>0, <2>1, CommentStays DEF Claimed
  <2>3. AtWork'
    <3>1. \A u \in Target : Len(rows'[u]) = Len(rows[u])
      BY <2>1 DEF Claimed
    <3>2. \A q \in Worker \ {p} : work'[q] = work[q]
      BY <2>1 DEF Claimed, OthersStay
    <3>3. work'[p].target = t /\ work'[p].row = i
      BY <2>1 DEF Claimed
    <3>. QED BY <3>1, <3>2, <3>3 DEF Typed, AtWork
  <2>4. Linked'
    BY <2>1 DEF Claimed, Typed, Linked
  <2>5. Together'
    BY <2>1, <2>2 DEF Claimed, OthersStay, Typed, Together
  <2>. QED BY <2>1, <2>2, <2>3, <2>4, <2>5, Types, TypedNext DEF Claimed, remoteVars
<1>4. ASSUME NEW p \in Worker, FindDeployment(p) \/ DeliveryFails(p) PROVE Typed'
  <2>1. Delivering(p) /\ Quiet(p) /\ UNCHANGED remoteVars
    BY <1>4, FindDeploymentEffect, FailsEffect
  <2>. QED BY <2>1, DeliveringTyped, Types DEF remoteVars
<1>5. ASSUME NEW p \in Worker, CreateDeployment(p) PROVE Typed'
  <2>1. Delivering(p) /\ Quiet(p) /\ UNCHANGED statuses /\ deps' \in [Target -> Nat]
    BY <1>5, CreateDeploymentEffect
  <2>. QED BY <2>1, DeliveringTyped, Types
<1>6. ASSUME NEW p \in Worker, FindStatus(p) PROVE Typed'
  <2>1. /\ Delivering(p) /\ UNCHANGED remoteVars
        /\ Quiet(p) \/ (Begins(p) /\ work'[p].step = "comment")
    BY <1>6, FindStatusEffect DEF Advanced
  <2>. QED BY <2>1, DeliveringTyped, Types DEF remoteVars
<1>7. ASSUME NEW p \in Worker, CreateStatus(p) PROVE Typed'
  <2>1. /\ Delivering(p) /\ UNCHANGED deps /\ statuses' \in [Target -> Seq(Status)]
        /\ Quiet(p) \/ (Begins(p) /\ work'[p].step = "comment")
    BY <1>7, CreateStatusEffect DEF Advanced, StatusAdded
  <2>. QED BY <2>1, DeliveringTyped, Types
<1>8. ASSUME NEW p \in Worker, FinishUpsert(p) PROVE Typed'
  <2>1. Delivering(p) /\ Rests(p) /\ UNCHANGED remoteVars
    BY <1>8, FinishEffect
  <2>. QED BY <2>1, DeliveringTyped, Types DEF remoteVars
<1>9. ASSUME NEW p \in Worker, UpsertStep(p), UNCHANGED <<rowVars, remoteVars, work>>
      PROVE  Typed'
  <2>1. Moved(p) /\ CommentStep
    BY <1>9, Types, WorkerMoves DEF CommentStep
  <2>2. faults' \in 0..MaxFaults
    BY <1>0, <1>9 DEF UpsertStep, ClaimComment, FindComment, UpdateComment, CreateComment,
                      CommentCallFails, SaveComment
  <2>3. CommentTyped'
    BY <2>1, <2>2, Types, CommentTypesKept
  <2>4. upsert[p].step # "idle"
    BY <1>9 DEF UpsertStep, ClaimComment, FindComment, UpdateComment, CreateComment,
                CommentCallFails, SaveComment, Calls
  <2>5. AtWork' /\ Linked' /\ Together'
    BY <1>9, <2>1, <2>4 DEF Moved, rowVars, Typed, AtWork, Linked, Together
  <2>. QED BY <1>9, <2>3, <2>5, Types, TypedNext DEF rowVars, remoteVars
<1>10. ASSUME NEW p \in Worker, Record(p) PROVE Typed'
  <2>1. /\ work[p].step \in Outcomes
        /\ work' \in [Worker -> WorkRow] /\ OthersStay(p) /\ work'[p].step = "idle"
        /\ UNCHANGED <<remoteVars, commentVars, faults>>
        /\ Recorded(p, work[p].target, work[p].row) \/ UNCHANGED rowVars
    BY <1>10, RecordEffect
  <2>2. CommentTyped' /\ upsert' = upsert
    BY <1>0, <2>1, CommentStays
  <2>3. /\ rows' \in [Target -> Seq(Row)] /\ lease' \in [Target -> LeaseRow]
        /\ ids' \in [Target -> IdRow]
        /\ \A t \in Target : Len(rows'[t]) = Len(rows[t]) /\ ids'[t].provider = ids[t].provider
    BY <2>1, Types DEF Recorded, rowVars
  <2>4. AtWork' /\ Linked'
    BY <2>1, <2>3 DEF OthersStay, Typed, AtWork, Linked
  <2>5. Together'
    BY <2>1, <2>2 DEF OthersStay, Outcomes, Typed, Together
  <2>. QED BY <2>1, <2>2, <2>3, <2>4, <2>5, Types, TypedNext DEF remoteVars
<1>11. ASSUME NEW p \in Worker, Crash(p) PROVE Typed'
  <2>1. /\ Rests(p) /\ UNCHANGED <<rowVars, remoteVars>>
        /\ work' = [work EXCEPT ![p] = Free]
        /\ faults' \in 0..MaxFaults
    BY <1>0, <1>11, BoundsAssumption DEF Crash, Rests
  <2>2. work' \in [Worker -> WorkRow] /\ OthersStay(p) /\ work'[p].step = "idle"
    BY <2>1, FreeEffect
  <2>3. CommentTyped'
    BY <2>1, Types, CommentTypesKept DEF CommentStep
  <2>4. upsert'[p].step = "idle" /\ \A q \in Worker \ {p} : upsert'[q] = upsert[q]
    BY <2>1, Types, CommentTypes DEF Rests, Resting
  <2>5. AtWork' /\ Linked' /\ Together'
    BY <2>1, <2>2, <2>4 DEF OthersStay, rowVars, Typed, AtWork, Linked, Together
  <2>. QED BY <2>1, <2>2, <2>3, <2>5, Types, TypedNext DEF rowVars, remoteVars
<1>12. CASE (LoseCommentLease \/ DeleteComment) /\ UNCHANGED <<rowVars, remoteVars, work>>
  <2>1. CommentStep /\ upsert' = upsert
    BY <1>12 DEF CommentStep, LoseCommentLease, DeleteComment
  <2>2. faults' \in 0..MaxFaults
    BY <1>0, <1>12, BoundsAssumption DEF LoseCommentLease, DeleteComment
  <2>3. CommentTyped'
    BY <2>1, <2>2, Types, CommentTypesKept
  <2>4. AtWork' /\ Linked' /\ Together'
    BY <1>12, <2>1 DEF rowVars, Typed, AtWork, Linked, Together
  <2>. QED BY <1>12, <2>3, <2>4, Types, TypedNext DEF rowVars, remoteVars
<1>13. CASE UNCHANGED vars
  <2>1. CommentTyped' /\ upsert' = upsert
    BY <1>0, <1>13, CommentStays DEF vars, commentVars
  <2>2. AtWork' /\ Linked' /\ Together'
    BY <1>13 DEF vars, Typed, AtWork, Linked, Together
  <2>. QED BY <1>13, <2>1, <2>2, Types, TypedNext DEF vars
<1>. QED BY <1>1, <1>2, <1>3, <1>4, <1>5, <1>6, <1>7, <1>8, <1>9, <1>10, <1>11, <1>12, <1>13
         DEF Next, Deliver

LEMMA TypedAlways == Spec => []Typed
BY InitTyped, NextTyped, PTL DEF Spec

(* Every value stays in its range, for every instance. *)
THEOREM FeedbackTypeCorrect == Spec => []TypeOK
<1>1. Typed => TypeOK
  BY DEF Typed
<1>. QED BY <1>1, TypedAlways, PTL

--------------------------------------------------------------------------------
(* What is never taken back, and what a processor knows while the lease is its.  *)

Later == {"status", "new status", "comment", "delivered"}
Going(p) == work[p].step \notin {"idle", "retry", "reject", "skip"}

(* The claimed row stays open and next in turn. *)
RowIsOurs(p) ==
    LET t == work[p].target
    IN  work[p].step # "idle" /\ lease[t].holder = p =>
            /\ rows[t][work[p].row].state \in Open
            /\ \A j \in 1..(work[p].row - 1) : rows[t][j].state \in Closed
IdsAreOurs(p) ==
    LET t == work[p].target
    IN  Going(p) /\ lease[t].holder = p =>
            /\ ids[t].dep # NoId => work[p].dep = ids[t].dep
            /\ ids[t].comment # NoId => work[p].comment = ids[t].comment
(* What a processor names exists. *)
NamesReal(p) ==
    LET t == work[p].target
    IN  /\ work[p].step # "idle" => work[p].dep <= deps[t]
        /\ work[p].step = "new deployment" => work[p].dep = NoId
        /\ work[p].step \in Later => work[p].dep # NoId
        /\ work[p].step \in {"comment", "delivered"} => Shown(t, TheStatus(p))
Knows(p) == RowIsOurs(p) /\ IdsAreOurs(p) /\ NamesReal(p)

IdsAreReal == \A t \in Target : ids[t].dep <= deps[t]
DeliveredHasDeployment ==
    \A t \in Target : \A i \in 1..Len(rows[t]) :
        rows[t][i].state = "delivered" =>
            ids[t].dep # NoId /\ Shown(t, [dep |-> ids[t].dep, row |-> i])
Sound == (\A p \in Worker : Knows(p)) /\ IdsAreReal /\ DeliveredHasDeployment

(* Nothing goes away at the provider. *)
StillShown(t, s) == \E k \in DOMAIN statuses'[t] : statuses'[t][k] = s
Grows == \A t \in Target : deps[t] <= deps'[t] /\ \A s : Shown(t, s) => StillShown(t, s)

(* A step of others leaves a processor's lease, row and ids alone. *)
Undisturbed(q) ==
    LET t == work[q].target
    IN  work[q].step # "idle" /\ lease'[t].holder = q =>
            /\ lease[t].holder = q
            /\ \A j \in 1..Len(rows[t]) : rows'[t][j] = rows[t][j]
            /\ ids'[t].dep = ids[t].dep /\ ids'[t].comment = ids[t].comment

LEMMA OthersKnow ==
  ASSUME Typed, NEW q \in Worker, Knows(q), work'[q] = work[q], Grows, Undisturbed(q),
         deps' \in [Target -> Nat]
  PROVE  Knows(q)'
<1>. DEFINE t == work[q].target
<1>1. CASE work[q].step = "idle"
  BY <1>1 DEF Knows, RowIsOurs, IdsAreOurs, NamesReal, Going, Later
<1>2. CASE work[q].step # "idle"
  <2>1. t \in Target /\ work[q].row \in 1..Len(rows[t]) /\ Len(rows[t]) \in Nat
    BY <1>2, RowsOf DEF Typed, AtWork
  <2>2. RowIsOurs(q)'
    <3>1. SUFFICES ASSUME lease'[t].holder = q
                   PROVE  /\ rows'[t][work[q].row].state \in Open
                          /\ \A j \in 1..(work[q].row - 1) : rows'[t][j].state \in Closed
      BY DEF RowIsOurs
    <3>2. \A j \in 1..work[q].row : rows'[t][j] = rows[t][j]
      BY <1>2, <2>1, <3>1 DEF Undisturbed
    <3>3. /\ rows[t][work[q].row].state \in Open
          /\ \A j \in 1..(work[q].row - 1) : rows[t][j].state \in Closed
      BY <1>2, <3>1 DEF Knows, RowIsOurs, Undisturbed
    <3>4. work[q].row \in 1..work[q].row /\ 1..(work[q].row - 1) \subseteq 1..work[q].row
      BY <2>1
    <3>. QED BY <3>2, <3>3, <3>4
  <2>3. IdsAreOurs(q)'
    BY <1>2, <2>1 DEF Knows, IdsAreOurs, Undisturbed, Going
  <2>4. deps[t] \in Nat /\ deps'[t] \in Nat /\ work[q].dep \in Nat
    BY <2>1, Types DEF WorkRow
  <2>5. TheStatus(q)' = TheStatus(q)
    BY DEF TheStatus
  <2>6. Shown(t, TheStatus(q)) => StillShown(t, TheStatus(q))
    BY <2>1 DEF Grows
  <2>7. NamesReal(q)'
    <3>1. deps[t] <= deps'[t]
      BY <2>1 DEF Grows
    <3>2. /\ work[q].dep <= deps[t]
          /\ work[q].step \in {"comment", "delivered"} => Shown(t, TheStatus(q))
          /\ work[q].step = "new deployment" => work[q].dep = NoId
          /\ work[q].step \in Later => work[q].dep # NoId
      BY <1>2 DEF Knows, NamesReal
    <3>3. work[q].dep <= deps'[t]
      <4>. DEFINE a == work[q].dep
                  b == deps[t]
                  c == deps'[t]
      <4>1. a \in Nat /\ b \in Nat /\ c \in Nat /\ a <= b /\ b <= c
        BY <2>4, <3>1, <3>2
      <4>. HIDE DEF a, b, c
      <4>2. a <= c
        BY <4>1
      <4>. QED BY <4>2 DEF a, c
    <3>4. work[q].step \in {"comment", "delivered"} => Shown(t, TheStatus(q))'
      BY <2>5, <2>6, <3>2 DEF Shown, StillShown
    <3>. QED BY <3>2, <3>3, <3>4 DEF NamesReal
  <2>. QED BY <2>2, <2>3, <2>7 DEF Knows
<1>. QED BY <1>1, <1>2

(* A processor that has given up, or is idle, keeps only its place. *)
LEMMA PlaceKept ==
  ASSUME Typed, NEW p \in Worker, RowIsOurs(p), Delivering(p)
  PROVE  RowIsOurs(p)'
BY DEF RowIsOurs, Delivering, Same, rowVars

LEMMA IdleKnows ==
  ASSUME NEW p \in Worker, work'[p].step = "idle"
  PROVE  Knows(p)'
BY DEF Knows, RowIsOurs, IdsAreOurs, NamesReal, Going, Later

LEMMA GivenUpKnows ==
  ASSUME Typed, NEW p \in Worker, Knows(p), Delivering(p), GivenUp(p), deps' \in [Target -> Nat]
  PROVE  Knows(p)'
<1>1. work'[p].target \in Target
  BY DEF Delivering, Same, Typed, AtWork
<1>2. work'[p].dep <= deps'[work'[p].target]
  BY <1>1 DEF GivenUp, NoId
<1>. QED BY <1>2, PlaceKept DEF Knows, GivenUp, IdsAreOurs, NamesReal, Going, Later

LEMMA NothingRemoved ==
  ASSUME Typed, UNCHANGED remoteVars
  PROVE  Grows
<1>1. \A t \in Target : deps[t] \in Nat
  BY Types
<1>. QED BY <1>1 DEF Grows, Shown, StillShown, remoteVars

LEMMA NothingDisturbed ==
  ASSUME UNCHANGED rowVars
  PROVE  \A q \in Worker : Undisturbed(q)
BY DEF Undisturbed, rowVars

(* The recorded ids and the delivered rows stay real if only the provider grows. *)
LEMMA TablesStay ==
  ASSUME Typed, IdsAreReal, DeliveredHasDeployment, Grows, deps' \in [Target -> Nat],
         UNCHANGED rowVars
  PROVE  IdsAreReal' /\ DeliveredHasDeployment'
<1>1. \A t \in Target : ids[t].dep \in Nat /\ deps[t] \in Nat /\ deps'[t] \in Nat
  BY Types DEF IdRow
<1>2. IdsAreReal'
  <2>1. ASSUME NEW t \in Target PROVE ids[t].dep <= deps'[t]
    <3>. DEFINE a == ids[t].dep
                b == deps[t]
                c == deps'[t]
    <3>1. a \in Nat /\ b \in Nat /\ c \in Nat /\ a <= b /\ b <= c
      BY <1>1 DEF IdsAreReal, Grows
    <3>. HIDE DEF a, b, c
    <3>2. a <= c
      BY <3>1
    <3>. QED BY <3>2 DEF a, c
  <2>. QED BY <2>1 DEF IdsAreReal, rowVars
<1>3. DeliveredHasDeployment'
  BY DEF DeliveredHasDeployment, Grows, Shown, StillShown, rowVars
<1>. QED BY <1>2, <1>3

LEMMA OthersOf ==
  ASSUME Typed, Sound, NEW p \in Worker, OthersStay(p), Grows, deps' \in [Target -> Nat],
         \A q \in Worker \ {p} : Undisturbed(q)
  PROVE  \A q \in Worker \ {p} : Knows(q)'
BY OthersKnow DEF OthersStay, Sound

(* A processor knows what it has just found or made. *)
LEMMA FindDeploymentKnows ==
  ASSUME Typed, NEW p \in Worker, Knows(p), FindDeployment(p)
  PROVE  Knows(p)'
<1>. DEFINE t == work[p].target
<1>1. /\ Delivering(p) /\ UNCHANGED remoteVars /\ work[p].step = "deployment"
      /\ \/ work[p].dep # NoId /\ Advanced(p, "status")
         \/ /\ work[p].dep = NoId
            /\ work'[p].step = "status" /\ work'[p].dep \in 1..deps[t]
            /\ work'[p].comment = work[p].comment
         \/ /\ work[p].dep = NoId /\ deps[t] = 0
            /\ Advanced(p, "new deployment")
  BY FindDeploymentEffect
<1>2. /\ t \in Target /\ work'[p].target = t /\ deps' = deps /\ deps[t] \in Nat
      /\ work[p].dep \in Nat /\ work[p].dep <= deps[t]
  <2>1. t \in Target
    BY <1>1 DEF Delivering, Typed, AtWork
  <2>. QED BY <1>1, <2>1, Types DEF Delivering, Same, remoteVars, WorkRow, Knows, NamesReal
<1>3. RowIsOurs(p)'
  BY <1>1, PlaceKept DEF Knows
<1>4. /\ work'[p].comment = work[p].comment
      /\ work'[p].dep = work[p].dep \/ (work[p].dep = NoId /\ work'[p].dep \in 1..deps[t])
      /\ work'[p].step \in {"status", "new deployment"}
      /\ work'[p].step = "status" => work'[p].dep # NoId
      /\ work'[p].step = "new deployment" => work'[p].dep = NoId
  <2>1. CASE work[p].dep # NoId /\ Advanced(p, "status")
    BY <2>1 DEF Advanced
  <2>2. CASE /\ work[p].dep = NoId
             /\ work'[p].step = "status" /\ work'[p].dep \in 1..deps[t]
             /\ work'[p].comment = work[p].comment
    <3>1. work'[p].dep # NoId
      BY <1>2, <2>2 DEF NoId
    <3>. QED BY <2>2, <3>1
  <2>3. CASE work[p].dep = NoId /\ Advanced(p, "new deployment")
    BY <2>3 DEF Advanced
  <2>. QED BY <1>1, <2>1, <2>2, <2>3
<1>5. IdsAreOurs(p)'
  <2>1. UNCHANGED <<ids, lease>>
    BY <1>1 DEF Delivering, rowVars
  <2>2. lease[t].holder = p =>
           /\ ids[t].dep # NoId => work[p].dep = ids[t].dep
           /\ ids[t].comment # NoId => work[p].comment = ids[t].comment
    BY <1>1 DEF Knows, IdsAreOurs, Going
  <2>. QED BY <1>2, <1>4, <2>1, <2>2 DEF IdsAreOurs
<1>6. work'[p].dep <= deps[t]
  <2>1. CASE work'[p].dep = work[p].dep
    BY <1>2, <2>1
  <2>2. CASE work'[p].dep \in 1..deps[t]
    BY <1>2, <2>2
  <2>. QED BY <1>4, <2>1, <2>2
<1>7. NamesReal(p)'
  BY <1>2, <1>4, <1>6 DEF NamesReal, Later
<1>. QED BY <1>3, <1>5, <1>7 DEF Knows

LEMMA CreateDeploymentKnows ==
  ASSUME Typed, NEW p \in Worker, Knows(p), CreateDeployment(p)
  PROVE  Knows(p)' /\ Grows
<1>. DEFINE t == work[p].target
<1>1. /\ Delivering(p) /\ UNCHANGED statuses
      /\ work[p].step = "new deployment" /\ t \in Target
      /\ deps' \in [Target -> Nat] /\ deps'[t] = deps[t] + 1
      /\ \A u \in Target \ {t} : deps'[u] = deps[u]
      /\ \/ /\ work'[p].step = "status" /\ work'[p].dep = deps[t] + 1
            /\ work'[p].comment = work[p].comment
         \/ GivenUp(p)
  BY CreateDeploymentEffect
<1>2. Grows
  <2>1. \A u \in Target : deps[u] \in Nat
    BY Types
  <2>2. ASSUME NEW u \in Target PROVE deps[u] <= deps'[u]
    <3>. DEFINE a == deps[u]
                b == deps'[u]
    <3>1. a \in Nat /\ (b = a + 1 \/ b = a)
      BY <1>1, <2>1
    <3>. HIDE DEF a, b
    <3>2. a <= b
      BY <3>1
    <3>. QED BY <3>2 DEF a, b
  <2>. QED BY <1>1, <2>2 DEF Grows, Shown, StillShown
<1>3. CASE GivenUp(p)
  BY <1>1, <1>2, <1>3, GivenUpKnows
<1>4. CASE /\ work'[p].step = "status" /\ work'[p].dep = deps[t] + 1
           /\ work'[p].comment = work[p].comment
  <2>1. RowIsOurs(p)'
    BY <1>1, PlaceKept DEF Knows
  <2>2. work'[p].target = t /\ UNCHANGED <<ids, lease>>
    BY <1>1 DEF Delivering, Same, rowVars
  <2>3. lease[t].holder = p =>
           /\ ids[t].dep = NoId
           /\ ids[t].comment # NoId => work[p].comment = ids[t].comment
    BY <1>1 DEF Knows, IdsAreOurs, NamesReal, Going
  <2>4. IdsAreOurs(p)'
    BY <1>4, <2>2, <2>3 DEF IdsAreOurs
  <2>5. work'[p].dep <= deps'[t] /\ work'[p].dep # NoId
    <3>. DEFINE a == work'[p].dep
                b == deps[t]
                c == deps'[t]
    <3>1. b \in Nat /\ a = b + 1 /\ c = b + 1
      BY <1>1, <1>4, Types
    <3>. HIDE DEF a, b, c
    <3>2. a <= c /\ a # 0
      BY <3>1
    <3>. QED BY <3>2 DEF a, c, NoId
  <2>6. NamesReal(p)'
    BY <1>4, <2>2, <2>5 DEF NamesReal, Later
  <2>. QED BY <1>2, <2>1, <2>4, <2>6 DEF Knows
<1>. QED BY <1>1, <1>3, <1>4

(* Going on with the same ids. *)
LEMMA AdvancedKnows ==
  ASSUME Typed, NEW p \in Worker, Knows(p), Delivering(p), Grows, deps' \in [Target -> Nat],
         work[p].step \in Later, work'[p].step \in Later, work'[p].dep = work[p].dep,
         work[p].comment # NoId => work'[p].comment = work[p].comment,
         work'[p].step \in {"comment", "delivered"} => Shown(work[p].target, TheStatus(p))'
  PROVE  Knows(p)'
<1>. DEFINE t == work[p].target
<1>1. t \in Target /\ work'[p].target = t /\ UNCHANGED <<ids, lease>>
  BY DEF Delivering, Same, rowVars, Typed, AtWork
<1>2. RowIsOurs(p)'
  BY PlaceKept DEF Knows
<1>3. lease[t].holder = p =>
         /\ ids[t].dep # NoId => work[p].dep = ids[t].dep
         /\ ids[t].comment # NoId => work[p].comment = ids[t].comment
  BY DEF Knows, IdsAreOurs, Going, Later
<1>4. IdsAreOurs(p)'
  BY <1>1, <1>3 DEF IdsAreOurs
<1>5. work'[p].dep <= deps'[t] /\ work[p].dep # NoId
  <2>. DEFINE a == work[p].dep
              b == deps[t]
              c == deps'[t]
  <2>1. a \in Nat /\ b \in Nat /\ c \in Nat /\ a <= b /\ b <= c
    BY <1>1, Types DEF WorkRow, Knows, NamesReal, Grows, Later
  <2>2. work[p].dep # NoId
    BY DEF Knows, NamesReal
  <2>. HIDE DEF a, b, c
  <2>3. a <= c
    BY <2>1
  <2>. QED BY <2>2, <2>3 DEF a, c
<1>6. NamesReal(p)'
  BY <1>1, <1>5 DEF NamesReal, Later
<1>. QED BY <1>2, <1>4, <1>6 DEF Knows

LEMMA FindStatusKnows ==
  ASSUME Typed, NEW p \in Worker, Knows(p), FindStatus(p)
  PROVE  Knows(p)'
<1>1. /\ Delivering(p) /\ UNCHANGED remoteVars /\ work[p].step = "status"
      /\ \/ StatusFound(p) /\ Advanced(p, "comment")
         \/ Advanced(p, "new status")
  BY FindStatusEffect
<1>2. Grows /\ deps' \in [Target -> Nat]
  BY <1>1, NothingRemoved, Types DEF remoteVars
<1>3. CASE StatusFound(p) /\ Advanced(p, "comment")
  <2>1. TheStatus(p)' = TheStatus(p) /\ work'[p].target = work[p].target
    BY <1>1, <1>3 DEF TheStatus, Advanced, Delivering, Same
  <2>2. Shown(work[p].target, TheStatus(p))'
    BY <1>1, <1>3, <2>1 DEF StatusFound, Shown, remoteVars
  <2>. QED BY <1>1, <1>2, <1>3, <2>2, AdvancedKnows DEF Advanced, Later
<1>4. CASE Advanced(p, "new status")
  BY <1>1, <1>2, <1>4, AdvancedKnows DEF Advanced, Later
<1>. QED BY <1>1, <1>3, <1>4

LEMMA StatusAddedGrows ==
  ASSUME Typed, NEW t \in Target, NEW s \in Status, StatusAdded(t, s), UNCHANGED deps
  PROVE  Grows /\ StillShown(t, s)
<1>1. \A u \in Target : /\ statuses[u] \in Seq(Status) /\ statuses'[u] \in Seq(Status)
                        /\ deps[u] \in Nat
  BY Types DEF StatusAdded
<1>2. \A u \in Target : /\ DOMAIN statuses[u] = 1..Len(statuses[u]) /\ Len(statuses[u]) \in Nat
                        /\ DOMAIN statuses'[u] = 1..Len(statuses'[u])
  BY <1>1
<1>3. ASSUME NEW u \in Target, NEW r, Shown(u, r) PROVE StillShown(u, r)
  <2>1. CASE u = t
    <3>1. PICK k \in 1..Len(statuses[t]) : statuses[t][k] = r
      BY <1>2, <1>3, <2>1 DEF Shown
    <3>2. k \in DOMAIN statuses'[t] /\ statuses'[t][k] = r
      BY <1>2, <3>1 DEF StatusAdded
    <3>. QED BY <2>1, <3>2 DEF StillShown
  <2>2. CASE u # t
    BY <1>3, <2>2 DEF StatusAdded, Shown, StillShown
  <2>. QED BY <2>1, <2>2
<1>4. StillShown(t, s)
  <2>1. Len(statuses[t]) + 1 \in DOMAIN statuses'[t]
    BY <1>2 DEF StatusAdded
  <2>. QED BY <2>1 DEF StatusAdded, StillShown
<1>. QED BY <1>1, <1>3, <1>4 DEF Grows

LEMMA CreateStatusKnows ==
  ASSUME Typed, NEW p \in Worker, Knows(p), CreateStatus(p)
  PROVE  Knows(p)' /\ Grows
<1>. DEFINE t == work[p].target
<1>1. /\ Delivering(p) /\ UNCHANGED deps /\ work[p].step = "new status" /\ t \in Target
      /\ StatusAdded(t, TheStatus(p)) /\ TheStatus(p) \in Status
      /\ Advanced(p, "comment") \/ GivenUp(p)
  BY CreateStatusEffect
<1>2. Grows /\ StillShown(t, TheStatus(p)) /\ deps' \in [Target -> Nat]
  BY <1>1, StatusAddedGrows, Types
<1>3. CASE GivenUp(p)
  BY <1>1, <1>2, <1>3, GivenUpKnows
<1>4. CASE Advanced(p, "comment")
  <2>1. TheStatus(p)' = TheStatus(p) /\ work'[p].target = t
    BY <1>1, <1>4 DEF TheStatus, Advanced, Delivering, Same
  <2>2. Shown(work[p].target, TheStatus(p))'
    BY <1>2, <2>1 DEF StillShown, Shown
  <2>. QED BY <1>1, <1>2, <1>4, <2>2, AdvancedKnows DEF Advanced, Later
<1>. QED BY <1>1, <1>3, <1>4

LEMMA FinishKnows ==
  ASSUME Typed, NEW p \in Worker, Knows(p), FinishUpsert(p)
  PROVE  Knows(p)'
<1>1. /\ Delivering(p) /\ UNCHANGED remoteVars /\ work[p].step = "comment"
      /\ \/ /\ work'[p].step = "delivered" /\ work'[p].dep = work[p].dep
            /\ work[p].comment # NoId => work'[p].comment = work[p].comment
         \/ GivenUp(p)
  BY FinishEffect
<1>2. Grows /\ deps' \in [Target -> Nat]
  BY <1>1, NothingRemoved, Types DEF remoteVars
<1>3. CASE GivenUp(p)
  BY <1>1, <1>2, <1>3, GivenUpKnows
<1>4. CASE /\ work'[p].step = "delivered" /\ work'[p].dep = work[p].dep
           /\ work[p].comment # NoId => work'[p].comment = work[p].comment
  <2>1. TheStatus(p)' = TheStatus(p) /\ work'[p].target = work[p].target
    BY <1>1, <1>4 DEF TheStatus, Delivering, Same
  <2>2. Shown(work[p].target, TheStatus(p))'
    BY <1>1, <2>1 DEF Knows, NamesReal, Shown, remoteVars
  <2>. QED BY <1>1, <1>2, <1>4, <2>2, AdvancedKnows DEF Later
<1>. QED BY <1>1, <1>3, <1>4

(* A step that leaves the rows, the ids and the leases alone. *)
LEMMA SoundIfOneMoves ==
  ASSUME Typed, Typed', Sound, Grows, UNCHANGED rowVars,
         NEW p \in Worker, OthersStay(p), Knows(p)'
  PROVE  Sound'
<1>1. deps' \in [Target -> Nat]
  BY DEF Typed, TypeOK
<1>2. \A q \in Worker \ {p} : Knows(q)'
  BY <1>1, NothingDisturbed, OthersOf
<1>3. IdsAreReal' /\ DeliveredHasDeployment'
  BY <1>1, TablesStay DEF Sound
<1>. QED BY <1>2, <1>3 DEF Sound

(* A step of no processor. *)
LEMMA AllKnow ==
  ASSUME Typed, Typed', Sound, Grows, work' = work, \A q \in Worker : Undisturbed(q)
  PROVE  \A q \in Worker : Knows(q)'
<1>1. deps' \in [Target -> Nat]
  BY DEF Typed, TypeOK
<1>. QED BY <1>1, OthersKnow DEF Sound

LEMMA QueueSound ==
  ASSUME Typed, Typed', Sound, NEW t \in Target, QueueIntent(t)
  PROVE  Sound'
<1>1. Queued(t) /\ work' = work /\ UNCHANGED remoteVars
  BY QueueEffect DEF Queued
<1>2. Grows
  BY <1>1, NothingRemoved
<1>3. \A q \in Worker : Undisturbed(q)
  BY <1>1 DEF Queued, Undisturbed, Typed, AtWork
<1>4. IdsAreReal'
  BY <1>1 DEF Queued, Sound, IdsAreReal, remoteVars
<1>5. DeliveredHasDeployment'
  <2>1. ASSUME NEW u \in Target, NEW i \in 1..Len(rows'[u]), rows'[u][i].state = "delivered"
        PROVE  ids'[u].dep # NoId /\ Shown(u, [dep |-> ids'[u].dep, row |-> i])
    <3>1. i \in 1..Len(rows[u]) /\ rows'[u][i] = rows[u][i]
      <4>1. CASE u # t
        BY <1>1, <2>1, <4>1 DEF Queued
      <4>2. CASE u = t
        <5>. DEFINE n == Len(rows[t])
        <5>1. /\ n \in Nat /\ Len(rows'[t]) = n + 1
              /\ rows'[t][n + 1].state = "pending"
          BY <1>1, RowsOf DEF Queued
        <5>2. i \in 1..(n + 1) /\ i # n + 1
          BY <2>1, <4>2, <5>1
        <5>. HIDE DEF n
        <5>3. i \in 1..n
          BY <5>1, <5>2
        <5>. QED BY <1>1, <4>2, <5>3 DEF Queued, n
      <4>. QED BY <4>1, <4>2
    <3>2. ids'[u].dep = ids[u].dep
      BY <1>1 DEF Queued
    <3>. QED BY <2>1, <3>1, <3>2 DEF Sound, DeliveredHasDeployment
  <2>. QED BY <1>1, <2>1 DEF DeliveredHasDeployment, Shown, remoteVars
<1>6. \A q \in Worker : Knows(q)'
  BY <1>1, <1>2, <1>3, AllKnow
<1>. QED BY <1>4, <1>5, <1>6 DEF Sound

LEMMA ClaimSound ==
  ASSUME Typed, Typed', Sound, NEW p \in Worker, NEW t \in Target, Claim(p, t)
  PROVE  Sound'
<1>1. PICK i \in 1..Len(rows[t]) : Claimed(p, t, i)
  BY ClaimEffect
<1>2. OthersStay(p) /\ UNCHANGED <<ids, deps, statuses>> /\ UNCHANGED remoteVars
  BY <1>1 DEF Claimed, remoteVars
<1>3. Grows /\ deps' \in [Target -> Nat]
  BY <1>2, NothingRemoved, Types
<1>4. \A q \in Worker \ {p} : Undisturbed(q)
  <2>1. ASSUME NEW q \in Worker \ {p}, work[q].step # "idle", lease'[work[q].target].holder = q
        PROVE  /\ lease[work[q].target].holder = q
               /\ \A j \in 1..Len(rows[work[q].target]) :
                     rows'[work[q].target][j] = rows[work[q].target][j]
    <3>1. work[q].target \in Target /\ work[q].target # t
      BY <1>1, <2>1 DEF Claimed, Typed, AtWork
    <3>. QED BY <1>1, <2>1, <3>1 DEF Claimed
  <2>. QED BY <1>2, <2>1 DEF Undisturbed
<1>5. \A q \in Worker \ {p} : Knows(q)'
  BY <1>2, <1>3, <1>4, OthersOf
<1>6. Knows(p)'
  <2>1. /\ work'[p].step = "deployment" /\ work'[p].target = t /\ work'[p].row = i
        /\ work'[p].dep = ids[t].dep /\ work'[p].comment = ids[t].comment
    BY <1>1 DEF Claimed
  <2>2. /\ rows'[t][i].state \in Open
        /\ \A j \in 1..(i - 1) : rows'[t][j].state \in Closed
    <3>1. \A j \in 1..(i - 1) : j \in 1..Len(rows[t]) /\ j # i
      BY RowsOf
    <3>2. \A j \in 1..(i - 1) : rows[t][j].state \in Closed
      BY <1>1 DEF Claimed, Claimable
    <3>. QED BY <1>1, <3>1, <3>2 DEF Claimed
  <2>3. ids[t].dep <= deps[t]
    BY DEF Sound, IdsAreReal
  <2>. QED BY <1>2, <2>1, <2>2, <2>3 DEF Knows, RowIsOurs, IdsAreOurs, NamesReal, Later
<1>7. IdsAreReal'
  BY <1>2 DEF Sound, IdsAreReal
<1>8. DeliveredHasDeployment'
  <2>1. ASSUME NEW u \in Target, NEW j \in 1..Len(rows'[u]), rows'[u][j].state = "delivered"
        PROVE  j \in 1..Len(rows[u]) /\ rows[u][j].state = "delivered"
    BY <1>1, <2>1 DEF Claimed, Open
  <2>. QED BY <1>2, <2>1 DEF Sound, DeliveredHasDeployment, Shown
<1>. QED BY <1>5, <1>6, <1>7, <1>8 DEF Sound

LEMMA RecordSound ==
  ASSUME Typed, Typed', Sound, NEW p \in Worker, Record(p)
  PROVE  Sound'
<1>. DEFINE t == work[p].target
            i == work[p].row
<1>1. /\ work[p].step \in Outcomes
      /\ OthersStay(p) /\ work'[p].step = "idle"
      /\ UNCHANGED remoteVars
      /\ Recorded(p, t, i) \/ UNCHANGED rowVars
  BY RecordEffect
<1>2. Grows /\ Knows(p)' /\ deps' \in [Target -> Nat]
  BY <1>1, NothingRemoved, IdleKnows, Types DEF remoteVars
<1>3. CASE UNCHANGED rowVars
  BY <1>1, <1>2, <1>3, SoundIfOneMoves
<1>4. CASE Recorded(p, t, i)
  <2>1. \A q \in Worker \ {p} : Undisturbed(q)
    <3>1. ASSUME NEW q \in Worker \ {p}, work[q].step # "idle", lease'[work[q].target].holder = q
          PROVE  work[q].target \in Target \ {t}
      BY <1>4, <3>1, NoneAssumption DEF Recorded, Typed, AtWork
    <3>. QED BY <1>4, <3>1 DEF Undisturbed, Recorded
  <2>2. \A q \in Worker \ {p} : Knows(q)'
    BY <1>1, <1>2, <2>1, OthersOf
  <2>3. /\ t \in Target /\ lease[t].holder = p /\ Knows(p)
        /\ \A u \in Target \ {t} : ids'[u] = ids[u]
    BY <1>4 DEF Recorded, HoldsLease, Sound
  <2>4. CASE work[p].step = "delivered"
    <3>1. /\ ids'[t].dep = work[p].dep /\ work[p].dep # NoId /\ work[p].dep <= deps[t]
          /\ Shown(t, TheStatus(p))
          /\ ids[t].dep # NoId => work[p].dep = ids[t].dep
      BY <1>4, <2>3, <2>4 DEF Recorded, Knows, NamesReal, IdsAreOurs, Going, Later
    <3>2. IdsAreReal'
      BY <1>1, <2>3, <3>1 DEF Sound, IdsAreReal, remoteVars
    <3>3. ASSUME NEW u \in Target, NEW j \in 1..Len(rows'[u]), rows'[u][j].state = "delivered"
          PROVE  ids'[u].dep # NoId /\ Shown(u, [dep |-> ids'[u].dep, row |-> j])
      <4>1. CASE u = t /\ j = i
        BY <3>1, <4>1 DEF TheStatus
      <4>2. CASE ~(u = t /\ j = i)
        <5>1. j \in 1..Len(rows[u]) /\ rows[u][j].state = "delivered"
          BY <1>4, <3>3, <4>2 DEF Recorded
        <5>2. ids[u].dep # NoId /\ Shown(u, [dep |-> ids[u].dep, row |-> j])
          BY <5>1 DEF Sound, DeliveredHasDeployment
        <5>. QED BY <2>3, <3>1, <5>2
      <4>. QED BY <4>1, <4>2
    <3>4. DeliveredHasDeployment'
      BY <1>1, <3>3 DEF DeliveredHasDeployment, Shown, remoteVars
    <3>. QED BY <1>2, <2>2, <3>2, <3>4 DEF Sound
  <2>5. CASE work[p].step # "delivered"
    <3>1. ids' = ids
      BY <1>4, <2>5 DEF Recorded
    <3>2. ASSUME NEW u \in Target, NEW j \in 1..Len(rows'[u]), rows'[u][j].state = "delivered"
          PROVE  j \in 1..Len(rows[u]) /\ rows[u][j].state = "delivered"
      BY <1>4, <2>5, <3>2 DEF Recorded
    <3>3. IdsAreReal' /\ DeliveredHasDeployment'
      BY <1>1, <3>1, <3>2 DEF Sound, IdsAreReal, DeliveredHasDeployment, Shown, remoteVars
    <3>. QED BY <1>2, <2>2, <3>3 DEF Sound
  <2>. QED BY <2>4, <2>5
<1>. QED BY <1>1, <1>3, <1>4

LEMMA NextSound == Typed /\ Typed' /\ Sound /\ [Next]_vars => Sound'
<1>. SUFFICES ASSUME Typed, Typed', Sound, [Next]_vars PROVE Sound'
  OBVIOUS
<1>0. deps' \in [Target -> Nat] /\ \A p \in Worker : Knows(p)
  BY DEF Typed, TypeOK, Sound
<1>1. ASSUME NEW t \in Target, QueueIntent(t) PROVE Sound'
  BY <1>1, QueueSound
<1>2. ASSUME NEW t \in Target, LoseLease(t) PROVE Sound'
  <2>1. /\ UNCHANGED <<rows, ids, work, remoteVars>>
        /\ lease' = [lease EXCEPT ![t].live = FALSE]
    BY <1>2 DEF LoseLease
  <2>2. Grows
    BY <2>1, NothingRemoved
  <2>3. \A u \in Target : lease'[u].holder = lease[u].holder
    BY <2>1, Types DEF LeaseRow
  <2>4. \A q \in Worker : Undisturbed(q)
    BY <2>1, <2>3 DEF Undisturbed, Typed, AtWork
  <2>5. \A q \in Worker : Knows(q)'
    BY <2>1, <2>2, <2>4, AllKnow
  <2>6. IdsAreReal' /\ DeliveredHasDeployment'
    BY <2>1 DEF Sound, IdsAreReal, DeliveredHasDeployment, Shown, remoteVars
  <2>. QED BY <2>5, <2>6 DEF Sound
<1>3. ASSUME NEW p \in Worker, NEW t \in Target, Claim(p, t) PROVE Sound'
  BY <1>3, ClaimSound
<1>4. ASSUME NEW p \in Worker, FindDeployment(p) PROVE Sound'
  <2>1. Delivering(p) /\ UNCHANGED remoteVars
    BY <1>4, FindDeploymentEffect
  <2>. QED BY <1>0, <1>4, <2>1, FindDeploymentKnows, NothingRemoved, SoundIfOneMoves DEF Delivering
<1>5. ASSUME NEW p \in Worker, CreateDeployment(p) PROVE Sound'
  <2>1. Delivering(p)
    BY <1>5, CreateDeploymentEffect
  <2>. QED BY <1>0, <1>5, <2>1, CreateDeploymentKnows, SoundIfOneMoves DEF Delivering
<1>6. ASSUME NEW p \in Worker, FindStatus(p) PROVE Sound'
  <2>1. Delivering(p) /\ UNCHANGED remoteVars
    BY <1>6, FindStatusEffect
  <2>. QED BY <1>0, <1>6, <2>1, FindStatusKnows, NothingRemoved, SoundIfOneMoves DEF Delivering
<1>7. ASSUME NEW p \in Worker, CreateStatus(p) PROVE Sound'
  <2>1. Delivering(p)
    BY <1>7, CreateStatusEffect
  <2>. QED BY <1>0, <1>7, <2>1, CreateStatusKnows, SoundIfOneMoves DEF Delivering
<1>8. ASSUME NEW p \in Worker, DeliveryFails(p) PROVE Sound'
  <2>1. Delivering(p) /\ GivenUp(p) /\ UNCHANGED remoteVars
    BY <1>8, FailsEffect
  <2>. QED BY <1>0, <2>1, GivenUpKnows, NothingRemoved, SoundIfOneMoves DEF Delivering
<1>9. ASSUME NEW p \in Worker, FinishUpsert(p) PROVE Sound'
  <2>1. Delivering(p) /\ UNCHANGED remoteVars
    BY <1>9, FinishEffect
  <2>. QED BY <1>0, <1>9, <2>1, FinishKnows, NothingRemoved, SoundIfOneMoves DEF Delivering
<1>10. ASSUME NEW p \in Worker, Record(p) PROVE Sound'
  BY <1>10, RecordSound
<1>11. ASSUME NEW p \in Worker, Crash(p) PROVE Sound'
  <2>1. UNCHANGED <<rowVars, remoteVars>> /\ work' = [work EXCEPT ![p] = Free]
    BY <1>11 DEF Crash
  <2>2. OthersStay(p) /\ work'[p].step = "idle"
    BY <2>1, FreeEffect
  <2>. QED BY <2>1, <2>2, IdleKnows, NothingRemoved, SoundIfOneMoves
<1>12. CASE UNCHANGED <<rowVars, remoteVars, work>>
  <2>1. Grows /\ UNCHANGED rowVars /\ work' = work
    BY <1>12, NothingRemoved
  <2>2. \A q \in Worker : Knows(q)'
    BY <2>1, NothingDisturbed, AllKnow
  <2>3. IdsAreReal' /\ DeliveredHasDeployment'
    BY <1>0, <2>1, TablesStay DEF Sound
  <2>. QED BY <2>2, <2>3 DEF Sound
<1>13. UNCHANGED vars => UNCHANGED <<rowVars, remoteVars, work>>
  BY DEF vars, rowVars, remoteVars
<1>. QED BY <1>1, <1>2, <1>3, <1>4, <1>5, <1>6, <1>7, <1>8, <1>9, <1>10, <1>11, <1>12, <1>13
         DEF Next, Deliver

LEMMA InitSound == Init => Sound
<1>. SUFFICES ASSUME Init PROVE Sound
  OBVIOUS
<1>1. \A p \in Worker : Knows(p)
  BY DEF Init, Free, Knows, RowIsOurs, IdsAreOurs, NamesReal, Going, Later
<1>2. IdsAreReal
  BY DEF Init, IdsAreReal, NoId
<1>3. DeliveredHasDeployment
  BY EmptySeq DEF Init, DeliveredHasDeployment
<1>. QED BY <1>1, <1>2, <1>3 DEF Sound

LEMMA SoundAlways == Spec => [](Typed /\ Sound)
<1>1. Init => Typed /\ Sound
  BY InitTyped, InitSound
<1>2. Typed /\ Sound /\ [Next]_vars => Typed' /\ Sound'
  BY NextTyped, NextSound
<1>. QED BY <1>1, <1>2, PTL DEF Spec

(* A row recorded as delivered is shown by the provider on the deployment the    *)
(* target recorded, whatever fails, crashes or is taken over.                    *)
THEOREM DeliveriesAreShown == Spec => []DeliveredIsShown
<1>1. Typed /\ Sound => DeliveredIsShown
  <2>. SUFFICES ASSUME Typed, Sound PROVE DeliveredIsShown
    OBVIOUS
  <2>1. \A t \in Target : DOMAIN rows[t] = 1..Len(rows[t])
    BY RowsOf
  <2>. QED BY <2>1 DEF Sound, DeliveredHasDeployment, DeliveredIsShown
<1>. QED BY <1>1, SoundAlways, PTL

(* Only a delivery under a lease records ids, and it had the recorded ones. *)
LEMMA IdsStay ==
  ASSUME Typed, Sound, [Next]_vars
  PROVE  \A t \in Target : /\ ids[t].dep # NoId => ids'[t].dep = ids[t].dep
                           /\ ids[t].comment # NoId => ids'[t].comment = ids[t].comment
<1>1. ASSUME NEW t \in Target, QueueIntent(t) PROVE \A u \in Target : ids'[u].dep = ids[u].dep
                                                     /\ ids'[u].comment = ids[u].comment
  BY <1>1, QueueEffect DEF Queued
<1>2. ASSUME NEW p \in Worker, Record(p)
      PROVE  \A u \in Target : /\ ids[u].dep # NoId => ids'[u].dep = ids[u].dep
                               /\ ids[u].comment # NoId => ids'[u].comment = ids[u].comment
  <2>1. work[p].step \in Outcomes
        /\ (Recorded(p, work[p].target, work[p].row) \/ UNCHANGED rowVars)
    BY <1>2, RecordEffect
  <2>2. CASE UNCHANGED rowVars
    BY <2>2 DEF rowVars
  <2>3. CASE Recorded(p, work[p].target, work[p].row)
    BY <2>3 DEF Recorded, HoldsLease, Sound, Knows, IdsAreOurs, Going
  <2>. QED BY <2>1, <2>2, <2>3
<1>3. ASSUME NEW p \in Worker,
             \/ FindDeployment(p) \/ CreateDeployment(p) \/ FindStatus(p) \/ CreateStatus(p)
             \/ DeliveryFails(p) \/ FinishUpsert(p) \/ Crash(p)
             \/ (UpsertStep(p) /\ UNCHANGED <<rowVars, remoteVars, work>>)
      PROVE  ids' = ids
  BY <1>3 DEF FindDeployment, CreateDeployment, FindStatus, CreateStatus, DeliveryFails,
              FinishUpsert, Crash, rowVars
<1>4. ASSUME NEW t \in Target, LoseLease(t) \/ \E p \in Worker : Claim(p, t) PROVE ids' = ids
  BY <1>4 DEF LoseLease, Claim
<1>5. UNCHANGED vars \/ UNCHANGED <<rowVars, remoteVars, work>> => ids' = ids
  BY DEF vars, rowVars
<1>. QED BY <1>1, <1>2, <1>3, <1>4, <1>5 DEF Next, Deliver

(* A target's recorded ids are never replaced. *)
THEOREM RecordedIdsStay == Spec => IdentityIsKept
<1>1. Typed /\ Sound /\ [Next]_vars =>
        [\A t \in Target :
            /\ ids[t].dep # NoId => ids'[t].dep = ids[t].dep
            /\ ids[t].comment # NoId => ids'[t].comment = ids[t].comment]_ids
  BY IdsStay
<1>. QED BY <1>1, SoundAlways, PTL DEF Spec, IdentityIsKept

--------------------------------------------------------------------------------
(* With timely leases: a processor at the provider holds its target's lease, so  *)
(* no other is there for the same deployment, and what it did not find is still  *)
(* not there. A transition is shown only when those before it are closed.        *)

Alone == \A p \in Worker : AtProvider(p) => HoldsLease(p)
Unmade(p) ==
    /\ work[p].step = "new deployment" => deps[work[p].target] = 0
    /\ work[p].step = "new status" => ~Shown(work[p].target, TheStatus(p))
Placed(t, s) ==
    /\ s.row \in 1..Len(rows[t]) /\ s.dep \in 1..deps[t]
    /\ \A j \in 1..(s.row - 1) : rows[t][j].state \in Closed
Published(t) == deps[t] <= 1 /\ \A k \in 1..Len(statuses[t]) : Placed(t, statuses[t][k])
Single ==
    /\ Alone
    /\ \A p \in Worker : Unmade(p)
    /\ \A t \in Target : Published(t)

LEMMA AloneIfUnleased ==
  ASSUME Alone, lease' = lease, NEW p \in Worker, OthersStay(p),
         AtProvider(p)' => AtProvider(p) /\ Same(p)
  PROVE  Alone'
BY DEF Alone, AtProvider, HoldsLease, OthersStay, Same

LEMMA AloneKept ==
  ASSUME Timely, Typed, Alone, [Next]_vars
  PROVE  Alone'
<1>1. ASSUME NEW t \in Target, LoseLease(t) PROVE Alone'
  <2>1. /\ work' = work
        /\ lease' = [lease EXCEPT ![t].live = FALSE]
        /\ Abandoned(t) \/ ~AtProvider(lease[t].holder)
    BY <1>1 DEF LoseLease
  <2>2. ASSUME NEW q \in Worker, AtProvider(q) PROVE HoldsLease(q)'
    <3>1. HoldsLease(q) /\ work[q].target \in Target
      BY <2>2, StepNames DEF Alone, AtProvider, Typed, AtWork
    <3>2. work[q].target # t
      BY <2>1, <2>2, <3>1 DEF HoldsLease, Abandoned
    <3>. QED BY <2>1, <3>1, <3>2, Types DEF HoldsLease
  <2>. QED BY <2>1, <2>2 DEF Alone, AtProvider
<1>2. ASSUME NEW p \in Worker, NEW t \in Target, Claim(p, t) PROVE Alone'
  <2>1. PICK i \in 1..Len(rows[t]) : Claimed(p, t, i)
    BY <1>2, ClaimEffect
  <2>2. HoldsLease(p)'
    BY <2>1 DEF Claimed, HoldsLease
  <2>3. ASSUME NEW q \in Worker \ {p}, AtProvider(q)' PROVE HoldsLease(q)'
    <3>1. work'[q] = work[q]
      BY <2>1 DEF Claimed, OthersStay
    <3>2. HoldsLease(q) /\ work[q].target \in Target
      BY <2>3, <3>1, StepNames DEF Alone, AtProvider, Typed, AtWork
    <3>3. work[q].target # t
      BY <2>1, <3>2 DEF Claimed, Claimable, HoldsLease
    <3>. QED BY <2>1, <3>1, <3>2, <3>3 DEF Claimed, HoldsLease
  <2>. QED BY <2>2, <2>3 DEF Alone
<1>3. ASSUME NEW p \in Worker,
             \/ FindDeployment(p) \/ CreateDeployment(p) \/ FindStatus(p) \/ CreateStatus(p)
             \/ DeliveryFails(p) \/ FinishUpsert(p)
      PROVE  Alone'
  <2>1. Delivering(p)
    BY <1>3, FindDeploymentEffect, CreateDeploymentEffect, FindStatusEffect,
       CreateStatusEffect, FailsEffect, FinishEffect
  <2>2. AtProvider(p)
    <3>1. FinishUpsert(p) => work[p].step = "comment"
      BY FinishEffect
    <3>. QED BY <1>3, <3>1 DEF FindDeployment, CreateDeployment, FindStatus, CreateStatus,
                DeliveryFails, AtProvider, RemoteSteps
  <2>. QED BY <2>1, <2>2, AloneIfUnleased DEF Delivering, rowVars
<1>4. ASSUME NEW p \in Worker, Record(p) PROVE Alone'
  <2>. DEFINE t == work[p].target
  <2>1. /\ OthersStay(p) /\ work'[p].step = "idle"
        /\ Recorded(p, t, work[p].row) \/ UNCHANGED rowVars
    BY <1>4, RecordEffect
  <2>2. ~AtProvider(p)'
    BY <2>1 DEF AtProvider, RemoteSteps
  <2>3. CASE UNCHANGED rowVars
    BY <2>1, <2>2, <2>3, AloneIfUnleased DEF rowVars
  <2>4. CASE Recorded(p, t, work[p].row)
    <3>1. ASSUME NEW q \in Worker \ {p}, AtProvider(q)' PROVE HoldsLease(q)'
      <4>1. work'[q] = work[q]
        BY <2>1 DEF OthersStay
      <4>2. HoldsLease(q) /\ work[q].target \in Target
        BY <3>1, <4>1, StepNames DEF Alone, AtProvider, Typed, AtWork
      <4>3. work[q].target # t
        BY <2>4, <3>1, <4>2 DEF Recorded, HoldsLease
      <4>. QED BY <2>4, <4>1, <4>2, <4>3 DEF Recorded, HoldsLease
    <3>. QED BY <2>2, <3>1 DEF Alone
  <2>. QED BY <2>1, <2>3, <2>4
<1>5. ASSUME NEW p \in Worker, Crash(p) PROVE Alone'
  <2>1. OthersStay(p) /\ work'[p].step = "idle" /\ lease' = lease
    BY <1>5, FreeEffect DEF Crash, rowVars
  <2>. QED BY <2>1, AloneIfUnleased DEF AtProvider, RemoteSteps
<1>6. ASSUME UNCHANGED <<lease, work>> PROVE Alone'
  BY <1>6 DEF Alone, AtProvider, HoldsLease
<1>7. /\ \A t \in Target : QueueIntent(t) => UNCHANGED <<lease, work>>
      /\ UNCHANGED vars \/ UNCHANGED <<rowVars, remoteVars, work>> => UNCHANGED <<lease, work>>
  BY DEF QueueIntent, vars, rowVars
<1>. QED BY <1>1, <1>2, <1>3, <1>4, <1>5, <1>6, <1>7 DEF Next, Deliver

(* Nothing appears at the provider for the deployment of another processor. *)
OnlyAt(t) == \A u \in Target \ {t} : deps'[u] = deps[u] /\ statuses'[u] = statuses[u]

LEMMA OthersUnmade ==
  ASSUME Typed, Alone, NEW p \in Worker, NEW q \in Worker \ {p}, Unmade(q), OthersStay(p),
         UNCHANGED remoteVars \/ (AtProvider(p) /\ OnlyAt(work[p].target))
  PROVE  Unmade(q)'
<1>. DEFINE t == work[q].target
<1>1. work'[q] = work[q] /\ TheStatus(q)' = TheStatus(q)
  BY DEF OthersStay, TheStatus
<1>2. CASE work[q].step \notin {"new deployment", "new status"}
  BY <1>1, <1>2 DEF Unmade
<1>3. CASE work[q].step \in {"new deployment", "new status"}
  <2>1. AtProvider(q) /\ t \in Target
    BY <1>3 DEF AtProvider, RemoteSteps, Typed, AtWork
  <2>2. AtProvider(p) => work[p].target # t
    BY <2>1 DEF Alone, HoldsLease
  <2>3. deps'[t] = deps[t] /\ statuses'[t] = statuses[t]
    BY <2>1, <2>2 DEF OnlyAt, remoteVars
  <2>. QED BY <1>1, <2>3 DEF Unmade, Shown
<1>. QED BY <1>2, <1>3

LEMMA UnmadeKept ==
  ASSUME Typed, Alone, \A q \in Worker : Unmade(q), [Next]_vars
  PROVE  \A q \in Worker : Unmade(q)'
<1>. DEFINE All == \A q \in Worker : Unmade(q)'
<1>1. ASSUME NEW p \in Worker, OthersStay(p), Unmade(p)',
             UNCHANGED remoteVars \/ (AtProvider(p) /\ OnlyAt(work[p].target))
      PROVE  All
  <2>1. \A q \in Worker \ {p} : Unmade(q)'
    BY <1>1, OthersUnmade
  <2>. QED BY <1>1, <2>1
<1>. HIDE DEF All
<1>2. ASSUME NEW p \in Worker, work'[p].step \notin {"new deployment", "new status"}
      PROVE  Unmade(p)'
  BY <1>2 DEF Unmade
<1>3. ASSUME NEW p \in Worker, NEW t \in Target, Claim(p, t) PROVE All
  <2>1. PICK i \in 1..Len(rows[t]) : Claimed(p, t, i)
    BY <1>3, ClaimEffect
  <2>2. OthersStay(p) /\ UNCHANGED remoteVars /\ work'[p].step = "deployment"
    BY <2>1 DEF Claimed
  <2>. QED BY <1>1, <1>2, <2>2
<1>4. ASSUME NEW p \in Worker, FindDeployment(p) PROVE All
  <2>1. /\ Delivering(p) /\ UNCHANGED remoteVars
        /\ \/ work'[p].step = "status"
           \/ deps[work[p].target] = 0 /\ Advanced(p, "new deployment")
    BY <1>4, FindDeploymentEffect DEF Advanced
  <2>2. Unmade(p)'
    BY <2>1 DEF Unmade, Delivering, Same, Advanced, remoteVars
  <2>. QED BY <1>1, <2>1, <2>2 DEF Delivering
<1>5. ASSUME NEW p \in Worker, CreateDeployment(p) PROVE All
  <2>1. /\ Delivering(p) /\ UNCHANGED statuses /\ work[p].step = "new deployment"
        /\ \A u \in Target \ {work[p].target} : deps'[u] = deps[u]
        /\ work'[p].step = "status" \/ GivenUp(p)
    BY <1>5, CreateDeploymentEffect
  <2>2. Unmade(p)'
    BY <1>2, <2>1 DEF GivenUp
  <2>3. AtProvider(p) /\ OnlyAt(work[p].target)
    BY <2>1 DEF AtProvider, RemoteSteps, OnlyAt
  <2>. QED BY <1>1, <2>1, <2>2, <2>3 DEF Delivering
<1>6. ASSUME NEW p \in Worker, FindStatus(p) PROVE All
  <2>1. /\ Delivering(p) /\ UNCHANGED remoteVars
        /\ \/ Advanced(p, "comment")
           \/ ~StatusFound(p) /\ Advanced(p, "new status")
    BY <1>6, FindStatusEffect
  <2>2. TheStatus(p)' = TheStatus(p) /\ work'[p].target = work[p].target
    BY <2>1 DEF TheStatus, Advanced, Delivering, Same
  <2>3. Unmade(p)'
    BY <2>1, <2>2 DEF Unmade, Advanced, StatusFound, Shown, remoteVars
  <2>. QED BY <1>1, <2>1, <2>3 DEF Delivering
<1>7. ASSUME NEW p \in Worker, CreateStatus(p) PROVE All
  <2>1. /\ Delivering(p) /\ UNCHANGED deps /\ work[p].step = "new status"
        /\ StatusAdded(work[p].target, TheStatus(p))
        /\ Advanced(p, "comment") \/ GivenUp(p)
    BY <1>7, CreateStatusEffect
  <2>2. Unmade(p)'
    BY <1>2, <2>1 DEF GivenUp, Advanced
  <2>3. AtProvider(p) /\ OnlyAt(work[p].target)
    BY <2>1 DEF AtProvider, RemoteSteps, OnlyAt, StatusAdded
  <2>. QED BY <1>1, <2>1, <2>2, <2>3 DEF Delivering
<1>8. ASSUME NEW p \in Worker, DeliveryFails(p) \/ FinishUpsert(p) PROVE All
  <2>1. /\ Delivering(p) /\ UNCHANGED remoteVars
        /\ work'[p].step = "delivered" \/ GivenUp(p)
    BY <1>8, FailsEffect, FinishEffect
  <2>2. Unmade(p)'
    BY <1>2, <2>1 DEF GivenUp
  <2>. QED BY <1>1, <2>1, <2>2 DEF Delivering
<1>9. ASSUME NEW p \in Worker, Record(p) \/ Crash(p) PROVE All
  <2>1. OthersStay(p) /\ work'[p].step = "idle" /\ UNCHANGED remoteVars
    BY <1>9, RecordEffect, FreeEffect DEF Crash
  <2>. QED BY <1>1, <1>2, <2>1
<1>10. ASSUME UNCHANGED <<work, remoteVars>> PROVE All
  BY <1>10 DEF All, Unmade, Shown, TheStatus, remoteVars
<1>11. /\ \A t \in Target : QueueIntent(t) \/ LoseLease(t) => UNCHANGED <<work, remoteVars>>
       /\ UNCHANGED vars \/ UNCHANGED <<rowVars, remoteVars, work>> => UNCHANGED <<work, remoteVars>>
  BY DEF QueueIntent, LoseLease, vars, remoteVars
<1>12. All
  BY <1>3, <1>4, <1>5, <1>6, <1>7, <1>8, <1>9, <1>10, <1>11 DEF Next, Deliver
<1>. QED BY <1>12 DEF All

(* Rows are only added, and a closed row stays closed. *)
ClosedStay ==
    \A t \in Target : \A j \in 1..Len(rows[t]) :
        /\ j \in 1..Len(rows'[t])
        /\ rows[t][j].state \in Closed => rows'[t][j].state \in Closed

LEMMA ClosedRowsStay ==
  ASSUME Typed, Sound, [Next]_vars
  PROVE  ClosedStay
<1>1. ASSUME NEW t \in Target, QueueIntent(t) PROVE ClosedStay
  <2>1. Queued(t)
    BY <1>1, QueueEffect
  <2>2. ASSUME NEW u \in Target, NEW j \in 1..Len(rows[u])
        PROVE  j \in 1..Len(rows'[u]) /\ rows'[u][j] = rows[u][j]
    <3>1. CASE u # t
      BY <2>1, <3>1 DEF Queued
    <3>2. CASE u = t
      <4>1. j \in 1..Len(rows'[u])
        <5>. DEFINE n == Len(rows[u])
                    m == Len(rows'[u])
        <5>1. n \in Nat /\ m = n + 1 /\ j \in 1..n
          BY <2>1, <3>2, RowsOf DEF Queued
        <5>. HIDE DEF n, m
        <5>2. j \in 1..m
          BY <5>1
        <5>. QED BY <5>2 DEF m
      <4>. QED BY <2>1, <3>2, <4>1 DEF Queued
    <3>. QED BY <3>1, <3>2
  <2>. QED BY <2>2 DEF ClosedStay
<1>2. ASSUME NEW p \in Worker, NEW t \in Target, Claim(p, t) PROVE ClosedStay
  <2>1. PICK i \in 1..Len(rows[t]) : Claimed(p, t, i)
    BY <1>2, ClaimEffect
  <2>2. rows[t][i].state \notin Closed
    BY <2>1 DEF Claimed, Claimable, Open, Closed
  <2>. QED BY <2>1, <2>2 DEF Claimed, ClosedStay
<1>3. ASSUME NEW p \in Worker, Record(p) PROVE ClosedStay
  <2>. DEFINE t == work[p].target
              i == work[p].row
  <2>1. work[p].step \in Outcomes /\ (Recorded(p, t, i) \/ UNCHANGED rowVars)
    BY <1>3, RecordEffect
  <2>2. CASE UNCHANGED rowVars
    BY <2>2 DEF rowVars, ClosedStay
  <2>3. CASE Recorded(p, t, i)
    <3>1. rows[t][i].state \notin Closed
      <4>1. RowIsOurs(p) /\ lease[t].holder = p /\ work[p].step # "idle"
        BY <2>1, <2>3, StepNames DEF Recorded, HoldsLease, Sound, Knows
      <4>. QED BY <4>1 DEF RowIsOurs, Open, Closed
    <3>. QED BY <2>3, <3>1 DEF Recorded, ClosedStay
  <2>. QED BY <2>1, <2>2, <2>3
<1>4. ASSUME rows' = rows PROVE ClosedStay
  BY <1>4 DEF ClosedStay
<1>5. ASSUME NEW p \in Worker,
             \/ FindDeployment(p) \/ CreateDeployment(p) \/ FindStatus(p) \/ CreateStatus(p)
             \/ DeliveryFails(p) \/ FinishUpsert(p) \/ Crash(p)
      PROVE  rows' = rows
  BY <1>5 DEF FindDeployment, CreateDeployment, FindStatus, CreateStatus, DeliveryFails,
              FinishUpsert, Crash, rowVars
<1>6. /\ \A t \in Target : LoseLease(t) => rows' = rows
      /\ UNCHANGED vars \/ UNCHANGED <<rowVars, remoteVars, work>> => rows' = rows
  BY DEF LoseLease, vars, rowVars
<1>. QED BY <1>1, <1>2, <1>3, <1>4, <1>5, <1>6 DEF Next, Deliver

LEMMA PlacedKept ==
  ASSUME Typed, Typed', ClosedStay, NEW t \in Target, NEW s \in Status, Placed(t, s),
         deps[t] <= deps'[t]
  PROVE  Placed(t, s)'
<1>. DEFINE n == Len(rows[t])
            r == s.row
            a == deps[t]
            b == deps'[t]
            d == s.dep
<1>1. /\ n \in Nat /\ r \in Nat /\ a \in Nat /\ b \in Nat /\ d \in Nat /\ a <= b
      /\ r \in 1..n /\ d \in 1..a
  BY RowsOf, Types DEF Placed, Status, Typed, TypeOK
<1>2. \A j \in 1..(r - 1) : rows[t][j].state \in Closed
  BY DEF Placed
<1>. HIDE DEF n, r, a, b, d
<1>3. d \in 1..b /\ \A j \in 1..(r - 1) : j \in 1..n
  BY <1>1
<1>4. r \in 1..Len(rows'[t]) /\ \A j \in 1..(r - 1) : rows'[t][j].state \in Closed
  BY <1>1, <1>2, <1>3 DEF ClosedStay, n
<1>. QED BY <1>3, <1>4 DEF Placed, b, d, r

LEMMA StatusesOf ==
  ASSUME Typed, NEW t \in Target
  PROVE  /\ Len(statuses[t]) \in Nat /\ DOMAIN statuses[t] = 1..Len(statuses[t])
         /\ \A k \in 1..Len(statuses[t]) : statuses[t][k] \in Status
BY Types

LEMMA PublishedIf ==
  ASSUME Typed, Typed', Single, ClosedStay, NEW t \in Target,
         deps[t] <= deps'[t], deps'[t] <= 1,
         \A k \in 1..Len(statuses'[t]) :
             \/ k \in 1..Len(statuses[t]) /\ statuses'[t][k] = statuses[t][k]
             \/ \E s \in Status : statuses'[t][k] = s /\ Placed(t, s)'
  PROVE  Published(t)'
<1>1. ASSUME NEW k \in 1..Len(statuses'[t])
      PROVE  \E s \in Status : statuses'[t][k] = s /\ Placed(t, s)'
  <2>1. CASE k \in 1..Len(statuses[t]) /\ statuses'[t][k] = statuses[t][k]
    <3>1. PICK s \in Status : s = statuses[t][k]
      BY <2>1, StatusesOf
    <3>2. Placed(t, s)
      BY <2>1, <3>1 DEF Single, Published
    <3>3. Placed(t, s)'
      BY <3>2, PlacedKept
    <3>. QED BY <2>1, <3>1, <3>3
  <2>. QED BY <1>1, <2>1
<1>2. \A k \in 1..Len(statuses'[t]) : Placed(t, statuses[t][k])'
  BY <1>1 DEF Placed
<1>. QED BY <1>2 DEF Published

LEMMA Positive ==
  ASSUME NEW m \in Nat, NEW n \in Nat, n <= m, n # 0
  PROVE  n \in 1..m
OBVIOUS

(* The status a processor creates has its turn: the claimed row is open, so      *)
(* those before it are closed.                                                  *)
LEMMA TheStatusPlaced ==
  ASSUME Typed, Sound, Single, NEW p \in Worker, work[p].step = "new status"
  PROVE  Placed(work[p].target, TheStatus(p)) /\ work[p].target \in Target
<1>. DEFINE t == work[p].target
<1>1. lease[t].holder = p /\ RowIsOurs(p) /\ NamesReal(p) /\ work[p].step # "idle"
  BY DEF Single, Alone, AtProvider, RemoteSteps, HoldsLease, Sound, Knows
<1>2. /\ t \in Target /\ work[p].row \in 1..Len(rows[t])
      /\ \A j \in 1..(work[p].row - 1) : rows[t][j].state \in Closed
  BY <1>1 DEF RowIsOurs, Typed, AtWork
<1>3. work[p].dep \in 1..deps[t]
  <2>. DEFINE a == work[p].dep
              b == deps[t]
  <2>1. a \in Nat /\ b \in Nat /\ a <= b /\ a # 0
    BY <1>1, <1>2, Types DEF WorkRow, NamesReal, Later, NoId
  <2>. HIDE DEF a, b
  <2>2. a \in 1..b
    BY <2>1, Positive
  <2>. QED BY <2>2 DEF a, b
<1>. QED BY <1>2, <1>3 DEF Placed, TheStatus

LEMMA PublishedKept ==
  ASSUME Typed, Typed', Sound, Single, [Next]_vars
  PROVE  \A t \in Target : Published(t)'
<1>. DEFINE All == \A t \in Target : Published(t)'
<1>0. ClosedStay /\ \A t \in Target : deps[t] \in Nat /\ deps[t] <= 1
  BY ClosedRowsStay, Types DEF Single, Published
<1>1. ASSUME UNCHANGED remoteVars PROVE All
  <2>1. \A t \in Target : deps[t] <= deps[t]
    BY <1>0
  <2>. QED BY <1>0, <1>1, <2>1, PublishedIf DEF remoteVars
<1>2. ASSUME NEW p \in Worker, CreateDeployment(p) PROVE All
  <2>. DEFINE t == work[p].target
  <2>1. /\ statuses' = statuses /\ work[p].step = "new deployment" /\ t \in Target
        /\ deps'[t] = deps[t] + 1 /\ \A u \in Target \ {t} : deps'[u] = deps[u]
    BY <1>2, CreateDeploymentEffect
  <2>2. deps[t] = 0
    BY <2>1 DEF Single, Unmade
  <2>3. ASSUME NEW u \in Target PROVE deps[u] <= deps'[u] /\ deps'[u] <= 1
    <3>. DEFINE a == deps[u]
                b == deps'[u]
    <3>1. a \in Nat /\ a <= 1 /\ (b = a \/ (a = 0 /\ b = a + 1))
      BY <1>0, <2>1, <2>2
    <3>. HIDE DEF a, b
    <3>2. a <= b /\ b <= 1
      BY <3>1
    <3>. QED BY <3>2 DEF a, b
  <2>. QED BY <1>0, <2>1, <2>3, PublishedIf
<1>3. ASSUME NEW p \in Worker, CreateStatus(p) PROVE All
  <2>1. /\ deps' = deps /\ rows' = rows /\ work[p].step = "new status"
        /\ StatusAdded(work[p].target, TheStatus(p)) /\ TheStatus(p) \in Status
    BY <1>3, CreateStatusEffect DEF CreateStatus, rowVars
  <2>2. PICK t \in Target, s \in Status : t = work[p].target /\ s = TheStatus(p) /\ Placed(t, s)
    BY <2>1, TheStatusPlaced
  <2>3. /\ Placed(t, s)' /\ StatusAdded(t, s)
        /\ \A u \in Target : deps[u] <= deps'[u] /\ deps'[u] <= 1
    <3>1. Placed(t, s)'
      BY <2>1, <2>2 DEF Placed
    <3>2. \A u \in Target : deps[u] <= deps[u] /\ deps[u] <= 1
      BY <1>0
    <3>. QED BY <2>1, <2>2, <3>1, <3>2
  <2>4. ASSUME NEW k \in 1..Len(statuses'[t])
        PROVE  \/ k \in 1..Len(statuses[t]) /\ statuses'[t][k] = statuses[t][k]
               \/ statuses'[t][k] = s
    <3>. DEFINE n == Len(statuses[t])
                m == Len(statuses'[t])
    <3>1. n \in Nat /\ m = n + 1 /\ k \in 1..m
      BY <2>3, <2>4, StatusesOf DEF StatusAdded
    <3>. HIDE DEF n, m
    <3>2. k \in 1..n \/ k = n + 1
      BY <3>1
    <3>. QED BY <2>3, <3>2 DEF StatusAdded, n
  <2>5. Published(t)'
    BY <1>0, <2>3, <2>4, PublishedIf
  <2>6. ASSUME NEW u \in Target \ {t} PROVE Published(u)'
    <3>1. statuses'[u] = statuses[u]
      BY <2>3 DEF StatusAdded
    <3>. QED BY <1>0, <2>3, <3>1, PublishedIf
  <2>. QED BY <2>5, <2>6
<1>. HIDE DEF All
<1>4. ASSUME NEW p \in Worker, Record(p) PROVE UNCHANGED remoteVars
  BY <1>4, RecordEffect
<1>5. ASSUME NEW p \in Worker,
             FindDeployment(p) \/ FindStatus(p) \/ DeliveryFails(p) \/ FinishUpsert(p) \/ Crash(p)
      PROVE  UNCHANGED remoteVars
  BY <1>5 DEF FindDeployment, FindStatus, DeliveryFails, FinishUpsert, Crash
<1>6. /\ \A t \in Target : QueueIntent(t) \/ LoseLease(t) => UNCHANGED remoteVars
      /\ \A p \in Worker, t \in Target : Claim(p, t) => UNCHANGED remoteVars
      /\ UNCHANGED vars \/ UNCHANGED <<rowVars, remoteVars, work>> => UNCHANGED remoteVars
  BY DEF QueueIntent, LoseLease, Claim, vars, remoteVars
<1>7. All
  BY <1>1, <1>2, <1>3, <1>4, <1>5, <1>6 DEF Next, Deliver
<1>. QED BY <1>7 DEF All

(* What the steps do to the comment. *)
LEMMA CommentMoves ==
  ASSUME Typed, [Next]_vars
  PROVE  CommentStep
<1>1. ASSUME NEW p \in Worker, FindDeployment(p) \/ DeliveryFails(p) \/ CreateDeployment(p)
                               \/ FindStatus(p) \/ CreateStatus(p) \/ FinishUpsert(p)
      PROVE  CommentStep
  <2>1. Quiet(p) \/ Begins(p) \/ Rests(p)
    BY <1>1, FindDeploymentEffect, FailsEffect, CreateDeploymentEffect, FindStatusEffect,
       CreateStatusEffect, FinishEffect
  <2>. QED BY <2>1 DEF CommentStep, Quiet
<1>2. ASSUME NEW p \in Worker, Crash(p) PROVE Rests(p)
  BY <1>2 DEF Crash, Rests
<1>3. ASSUME NEW p \in Worker, Record(p) PROVE UNCHANGED commentVars
  BY <1>3, RecordEffect
<1>4. /\ \A t \in Target : QueueIntent(t) \/ LoseLease(t) => UNCHANGED commentVars
      /\ \A p \in Worker, t \in Target : Claim(p, t) => UNCHANGED commentVars
      /\ UNCHANGED vars => UNCHANGED commentVars
  BY DEF QueueIntent, LoseLease, Claim, vars, commentVars
<1>. QED BY <1>1, <1>2, <1>3, <1>4 DEF Next, Deliver, CommentStep

LEMMA InitSingle == Init => Single /\ OneComment
<1>. SUFFICES ASSUME Init PROVE Single /\ OneComment
  OBVIOUS
<1>1. Alone /\ \A p \in Worker : Unmade(p)
  BY DEF Init, Free, Alone, AtProvider, RemoteSteps, Unmade
<1>2. \A t \in Target : Published(t)
  BY EmptySeq DEF Init, Published
<1>. QED BY <1>1, <1>2, CommentStarts DEF Single, Init

LEMMA SingleAlways ==
  ASSUME Timely
  PROVE  Spec => [](Typed /\ Sound /\ Single /\ OneComment)
<1>. DEFINE All == Typed /\ Sound /\ Single /\ OneComment
<1>1. Init => All
  BY InitTyped, InitSound, InitSingle
<1>2. All /\ [Next]_vars => All'
  <2>. SUFFICES ASSUME All, [Next]_vars PROVE All'
    OBVIOUS
  <2>1. Typed' /\ Sound'
    BY NextTyped, NextSound
  <2>2. Single'
    BY <2>1, AloneKept, UnmadeKept, PublishedKept DEF Single
  <2>3. OneComment'
    BY CommentMoves, Types, OneCommentKept
  <2>. QED BY <2>1, <2>2, <2>3
<1>. QED BY <1>1, <1>2, PTL DEF Spec

(* With leases that outlast a call, no deployment gets a second external         *)
(* deployment and no pull request a second live comment.                        *)
THEOREM OneIdentityEach ==
  ASSUME Timely
  PROVE  Spec => []OneExternalIdentity
<1>1. Typed /\ Single /\ OneComment => OneExternalIdentity
  <2>. SUFFICES ASSUME Typed, Single, OneComment PROVE OneExternalIdentity
    OBVIOUS
  <2>1. \A t \in Target : deps[t] <= 1
    BY DEF Single, Published
  <2>2. ASSUME NEW pr \in Provider PROVE Cardinality(Marked(pr)) <= 1
    <3>1. CASE Marked(pr) = {}
      BY <3>1, FS_EmptySet
    <3>2. ASSUME NEW c \in Marked(pr) PROVE Cardinality(Marked(pr)) <= 1
      <4>1. Marked(pr) = {c}
        BY <3>2 DEF Marked, OneComment, OneEach
      <4>2. Cardinality({c}) = 1
        BY FS_Singleton
      <4>. QED BY <4>1, <4>2
    <3>. QED BY <3>1, <3>2
  <2>. QED BY <2>1, <2>2 DEF OneExternalIdentity
<1>. QED BY <1>1, SingleAlways, PTL

(* The stream of a deployment: how many rows it has, and the rows shown. *)
RowsIn(s) == [k \in DOMAIN s |-> s[k].row]
Counts == [t \in Target |-> Len(rows[t])]
Streams == [t \in Target |-> RowsIn(statuses[t])]

LEMMA RowsInSeq ==
  ASSUME NEW s \in Seq(Status)
  PROVE  /\ RowsIn(s) \in Seq(Nat) /\ Len(RowsIn(s)) = Len(s)
         /\ \A k \in 1..Len(s) : RowsIn(s)[k] = s[k].row
<1>0. \A k \in 1..Len(s) : s[k] \in Status
  BY ElementOfSeq
<1>1. Len(s) \in Nat /\ DOMAIN s = 1..Len(s) /\ \A k \in 1..Len(s) : s[k].row \in Nat
  BY <1>0, LenProperties DEF Status
<1>2. RowsIn(s) \in [1..Len(s) -> Nat]
  BY <1>1 DEF RowsIn
<1>3. RowsIn(s) \in Seq(Nat)
  BY <1>1, <1>2, SeqDef
<1>4. Len(RowsIn(s)) = Len(s)
  BY <1>1, <1>2, <1>3, LenProperties
<1>. QED BY <1>1, <1>3, <1>4 DEF RowsIn

LEMMA RowsInAppend ==
  ASSUME NEW s \in Seq(Status), NEW e \in Status
  PROVE  RowsIn(Append(s, e)) = Append(RowsIn(s), e.row)
<1>. DEFINE s2 == Append(s, e)
            a == RowsIn(s2)
            b == Append(RowsIn(s), e.row)
            n == Len(s)
<1>1. /\ s2 \in Seq(Status) /\ Len(s2) = n + 1 /\ n \in Nat /\ e.row \in Nat
      /\ s2[n + 1] = e /\ \A k \in 1..n : s2[k] = s[k]
  BY AppendProperties DEF Status
<1>2. /\ a \in Seq(Nat) /\ Len(a) = n + 1
      /\ \A k \in 1..(n + 1) : a[k] = s2[k].row
  <2>. HIDE DEF s2
  <2>. QED BY <1>1, RowsInSeq
<1>3. /\ RowsIn(s) \in Seq(Nat) /\ Len(RowsIn(s)) = n
      /\ \A k \in 1..n : RowsIn(s)[k] = s[k].row
  BY RowsInSeq
<1>4. /\ b \in Seq(Nat) /\ Len(b) = n + 1
      /\ b[n + 1] = e.row /\ \A k \in 1..n : b[k] = s[k].row
  <2>. DEFINE r == RowsIn(s)
              x == e.row
  <2>1. r \in Seq(Nat) /\ x \in Nat /\ Len(r) = n /\ \A k \in 1..n : r[k] = s[k].row
    BY <1>1, <1>3
  <2>. HIDE DEF r, x, n
  <2>2. /\ Append(r, x) \in Seq(Nat) /\ Len(Append(r, x)) = n + 1
        /\ Append(r, x)[n + 1] = x /\ \A k \in 1..n : Append(r, x)[k] = r[k]
    BY <2>1, AppendProperties
  <2>. QED BY <2>1, <2>2 DEF r, x
<1>. HIDE DEF a, b, n, s2
<1>5. \A k \in 1..(n + 1) : k \in 1..n \/ k = n + 1
  BY <1>1
<1>6. \A k \in 1..(n + 1) : a[k] = b[k]
  BY <1>1, <1>2, <1>4, <1>5
<1>7. a = b
  BY <1>2, <1>4, <1>6, SeqEqual
<1>. QED BY <1>7 DEF a, b, s2

LEMMA StreamStarts == Init => Stream!Init
<1>. SUFFICES ASSUME Init PROVE Counts = [t \in Target |-> 0] /\ Streams = [t \in Target |-> <<>>]
  BY DEF Stream!Init, Counts, Streams, RowsIn
<1>1. /\ <<>> \in Seq(Status) /\ <<>> \in Seq(Nat) /\ Len(<<>>) = 0
  BY EmptySeq
<1>2. RowsIn(<<>>) = <<>>
  BY <1>1, RowsInSeq, EmptySeq
<1>. QED BY <1>1, <1>2 DEF Init, Counts, Streams

(* A step that shows nothing new and adds no row. *)
LEMMA StreamRests ==
  ASSUME Typed, \A t \in Target : Len(rows'[t]) = Len(rows[t]), statuses' = statuses
  PROVE  Counts' = Counts /\ Streams' = Streams
BY DEF Counts, Streams

LEMMA StreamMoves ==
  ASSUME Typed, Typed', Sound, Single, [Next]_vars
  PROVE  \/ Counts' = Counts /\ Streams' = Streams
         \/ \E t \in Target :
               \/ Counts' = [Counts EXCEPT ![t] = @ + 1] /\ Streams' = Streams
               \/ /\ Counts' = Counts
                  /\ \E i \in 1..Counts[t] :
                        /\ \A k \in DOMAIN Streams[t] : Streams[t][k] < i
                        /\ Streams' = [Streams EXCEPT ![t] = Append(@, i)]
<1>1. ASSUME NEW t \in Target, QueueIntent(t)
      PROVE  Counts' = [Counts EXCEPT ![t] = @ + 1] /\ Streams' = Streams
  <2>1. /\ Len(rows'[t]) = Len(rows[t]) + 1 /\ \A u \in Target \ {t} : rows'[u] = rows[u]
        /\ statuses' = statuses
    BY <1>1, QueueEffect DEF Queued, remoteVars
  <2>. QED BY <2>1 DEF Counts, Streams
<1>2. ASSUME NEW p \in Worker, CreateStatus(p)
      PROVE  \E t \in Target :
               /\ Counts' = Counts
               /\ \E i \in 1..Counts[t] :
                     /\ \A k \in DOMAIN Streams[t] : Streams[t][k] < i
                     /\ Streams' = [Streams EXCEPT ![t] = Append(@, i)]
  <2>1. /\ work[p].step = "new status" /\ rows' = rows
        /\ StatusAdded(work[p].target, TheStatus(p)) /\ TheStatus(p) \in Status
    BY <1>2, CreateStatusEffect DEF CreateStatus, rowVars
  <2>2. PICK t \in Target, s \in Status : t = work[p].target /\ s = TheStatus(p) /\ Placed(t, s)
    BY <2>1, TheStatusPlaced
  <2>. DEFINE i == s.row
  <2>3. i \in 1..Counts[t] /\ i = work[p].row /\ s.dep \in 1..deps[t]
    BY <2>2 DEF Placed, Counts, TheStatus
  <2>4. \A k \in 1..Len(statuses[t]) : statuses[t][k].row < i
    <3>1. SUFFICES ASSUME NEW k \in 1..Len(statuses[t]) PROVE statuses[t][k].row < i
      OBVIOUS
    <3>2. PICK s2 \in Status : s2 = statuses[t][k]
      BY <3>1, StatusesOf
    <3>3. Placed(t, s2) /\ deps[t] \in Nat /\ deps[t] <= 1
      BY <3>1, <3>2, Types DEF Single, Published
    <3>4. s2 # s
      BY <2>1, <2>2, <3>1, <3>2, StatusesOf DEF Single, Unmade, Shown
    <3>5. s2.dep = s.dep
      <4>. DEFINE n == deps[t]
      <4>1. n \in Nat /\ n <= 1 /\ s2.dep \in 1..n /\ s.dep \in 1..n
        BY <2>3, <3>3 DEF Placed
      <4>. HIDE DEF n
      <4>2. s2.dep = 1 /\ s.dep = 1
        BY <4>1
      <4>. QED BY <4>2
    <3>6. s2.row # i
      BY <3>4, <3>5 DEF Status
    <3>7. rows[t][i].state \notin Closed
      <4>1. lease[t].holder = p /\ RowIsOurs(p)
        BY <2>1, <2>2 DEF Single, Alone, AtProvider, RemoteSteps, HoldsLease, Sound, Knows
      <4>. QED BY <2>1, <2>2, <2>3, <4>1 DEF RowIsOurs, Open, Closed
    <3>8. i \notin 1..(s2.row - 1)
      BY <3>3, <3>7 DEF Placed
    <3>9. s2.row < i
      <4>. DEFINE a == s2.row
      <4>1. a \in Nat /\ i \in Nat /\ i >= 1 /\ a # i /\ i \notin 1..(a - 1)
        BY <2>2, <2>3, <3>2, <3>6, <3>8 DEF Status
      <4>. HIDE DEF a, i
      <4>2. a < i
        BY <4>1
      <4>. QED BY <4>2 DEF a, i
    <3>. QED BY <3>2, <3>9
  <2>5. \A k \in DOMAIN Streams[t] : Streams[t][k] < i
    BY <2>4, StatusesOf DEF Streams, RowsIn
  <2>6. statuses'[t] = Append(statuses[t], s) /\ \A u \in Target \ {t} : statuses'[u] = statuses[u]
    BY <2>1, <2>2 DEF StatusAdded
  <2>7. RowsIn(statuses'[t]) = Append(RowsIn(statuses[t]), i)
    BY <2>6, Types, RowsInAppend
  <2>. HIDE DEF i
  <2>8. Streams' = [Streams EXCEPT ![t] = Append(@, i)]
    BY <2>6, <2>7 DEF Streams
  <2>9. Counts' = Counts
    BY <2>1 DEF Counts
  <2>. QED BY <2>3, <2>5, <2>8, <2>9
<1>3. ASSUME NEW p \in Worker, NEW t \in Target, Claim(p, t)
      PROVE  Counts' = Counts /\ Streams' = Streams
  <2>1. PICK i \in 1..Len(rows[t]) : Claimed(p, t, i)
    BY <1>3, ClaimEffect
  <2>. QED BY <2>1, StreamRests DEF Claimed, remoteVars
<1>4. ASSUME NEW p \in Worker, Record(p)
      PROVE  Counts' = Counts /\ Streams' = Streams
  <2>1. /\ statuses' = statuses
        /\ Recorded(p, work[p].target, work[p].row) \/ UNCHANGED rowVars
    BY <1>4, RecordEffect DEF remoteVars
  <2>2. \A t \in Target : Len(rows'[t]) = Len(rows[t])
    BY <2>1 DEF Recorded, rowVars
  <2>. QED BY <2>1, <2>2, StreamRests
<1>5. UNCHANGED <<rows, statuses>> => Counts' = Counts /\ Streams' = Streams
  BY DEF Counts, Streams
<1>6. ASSUME NEW p \in Worker,
             \/ FindDeployment(p) \/ CreateDeployment(p) \/ FindStatus(p)
             \/ DeliveryFails(p) \/ FinishUpsert(p) \/ Crash(p)
      PROVE  UNCHANGED <<rows, statuses>>
  BY <1>6 DEF FindDeployment, CreateDeployment, FindStatus, DeliveryFails,
              FinishUpsert, Crash, rowVars, remoteVars
<1>7. /\ \A t \in Target : LoseLease(t) => UNCHANGED <<rows, statuses>>
      /\ UNCHANGED vars \/ UNCHANGED <<rowVars, remoteVars, work>> => UNCHANGED <<rows, statuses>>
  BY DEF LoseLease, vars, rowVars, remoteVars
<1>. QED BY <1>1, <1>2, <1>3, <1>4, <1>5, <1>6, <1>7 DEF Next, Deliver

(* With leases that outlast a call, the provider sees each deployment's          *)
(* transitions in order, each at most once.                                     *)
THEOREM TransitionsInOrder ==
  ASSUME Timely
  PROVE  Spec => PublishedInOrder
<1>1. Typed /\ Sound /\ Single /\ Typed' /\ [Next]_vars =>
        [Stream!Next]_<<[t \in Target |-> Len(rows[t])],
                        [t \in Target |-> [k \in DOMAIN statuses[t] |-> statuses[t][k].row]]>>
  BY StreamMoves DEF Stream!Next, Stream!Queue, Stream!Publish, Counts, Streams, RowsIn
<1>. QED BY <1>1, StreamStarts, SingleAlways, PTL DEF Spec, PublishedInOrder, Stream!Spec

--------------------------------------------------------------------------------
(* Without timely leases: an external deployment too many is paid for by a       *)
(* fault, as a comment too many is. A processor that lost its lease while it     *)
(* looks for the deployment or creates it is a stray.                           *)

About(p) == work[p].step \in {"deployment", "new deployment"}
Strays(t) == {p \in Worker : About(p) /\ work[p].target = t /\ ~HoldsLease(p)}
Awaited(t) ==
    \E p \in Worker : work[p].step = "new deployment" /\ work[p].target = t /\ HoldsLease(p)
DeploymentsPaid(t) ==
    /\ Paid(deps[t], Strays(t), faults)
    /\ Awaited(t) => Room(deps[t], Strays(t), faults)

(* A step that makes no stray of the processor, nor lets it create the           *)
(* deployment of t unless there is none.                                        *)
Calm(p, t) ==
    About(p)' /\ work'[p].target = t =>
        \/ HoldsLease(p)' /\ work'[p].step = "deployment"
        \/ /\ About(p) /\ work[p].target = t /\ (HoldsLease(p)' <=> HoldsLease(p))
           /\ work'[p].step = "new deployment" => work[p].step = "new deployment" \/ deps[t] = 0

LEMMA CalmStrays ==
  ASSUME NEW t \in Target, \A p \in Worker : Calm(p, t)
  PROVE  Strays(t)' \subseteq Strays(t) /\ (Awaited(t)' => Awaited(t) \/ deps[t] = 0)
<1>1. ASSUME NEW p \in Strays(t)' PROVE p \in Strays(t)
  BY <1>1 DEF Strays, Calm
<1>2. ASSUME NEW p \in Worker, work'[p].step = "new deployment", work'[p].target = t,
             HoldsLease(p)', deps[t] # 0
      PROVE  Awaited(t)
  BY <1>2 DEF Calm, Awaited, About
<1>. QED BY <1>1, <1>2 DEF Awaited

LEMMA CalmPaid ==
  ASSUME Typed, NEW t \in Target, DeploymentsPaid(t), \A p \in Worker : Calm(p, t),
         deps'[t] = deps[t], faults' \in Nat, faults <= faults'
  PROVE  DeploymentsPaid(t)'
<1>1. Strays(t)' \subseteq Strays(t) /\ (Awaited(t)' => Awaited(t) \/ deps[t] = 0)
  BY CalmStrays
<1>2. deps[t] \in Nat
  BY Types
<1>3. /\ Paid(deps[t], Strays(t)', faults')
      /\ Room(deps[t], Strays(t), faults) \/ deps[t] = 0 => Room(deps[t], Strays(t)', faults')
  BY <1>1, <1>2, FewerPaid DEF DeploymentsPaid
<1>. QED BY <1>1, <1>3 DEF DeploymentsPaid

(* A processor that does not move stays as it is while its lease does. *)
LEMMA OthersCalm ==
  ASSUME NEW p \in Worker, NEW t \in Target, work'[p] = work[p],
         HoldsLease(p)' <=> HoldsLease(p)
  PROVE  Calm(p, t)
BY DEF Calm, About

LEMMA UnleasedCalm ==
  ASSUME NEW p \in Worker, NEW t \in Target, OthersStay(p), lease' = lease
  PROVE  \A q \in Worker \ {p} : Calm(q, t)
<1>1. ASSUME NEW q \in Worker \ {p} PROVE Calm(q, t)
  <2>1. work'[q] = work[q] /\ (HoldsLease(q)' <=> HoldsLease(q))
    BY DEF OthersStay, HoldsLease
  <2>. QED BY <2>1, OthersCalm
<1>. QED BY <1>1

LEMMA DeploymentsStayPaid ==
  ASSUME Typed, [Next]_vars, NEW t \in Target, DeploymentsPaid(t),
         faults' \in Nat, faults <= faults'
  PROVE  DeploymentsPaid(t)'
<1>0. deps[t] \in Nat /\ faults \in Nat
  BY Types DEF DeploymentsPaid, Paid
<1>1. ASSUME \A p \in Worker : Calm(p, t), deps'[t] = deps[t] PROVE DeploymentsPaid(t)'
  BY <1>1, CalmPaid
<1>2. ASSUME NEW p \in Worker, OthersStay(p), lease' = lease, Calm(p, t), deps'[t] = deps[t]
      PROVE  DeploymentsPaid(t)'
  BY <1>1, <1>2, UnleasedCalm
<1>3. ASSUME NEW u \in Target, LoseLease(u) PROVE DeploymentsPaid(t)'
  <2>1. /\ UNCHANGED <<work, deps>> /\ lease[u].live
        /\ lease' = [lease EXCEPT ![u].live = FALSE]
        /\ \/ Abandoned(u) /\ faults' = faults
           \/ faults' = faults + 1
    BY <1>3 DEF LoseLease, remoteVars
  <2>2. ~lease'[u].live /\ \A v \in Target \ {u} : lease'[v] = lease[v]
    BY <2>1, Types DEF LeaseRow
  <2>3. ASSUME NEW q \in Worker, About(q), work[q].target # u PROVE HoldsLease(q)' <=> HoldsLease(q)
    <3>1. work[q].target \in Target
      BY <2>3 DEF About, Typed, AtWork
    <3>. QED BY <2>1, <2>2, <2>3, <3>1 DEF HoldsLease
  <2>4. CASE u # t \/ Abandoned(u)
    <3>1. ASSUME NEW q \in Worker, About(q), work[q].target = t
          PROVE  HoldsLease(q)' <=> HoldsLease(q)
      <4>1. CASE u # t
        BY <2>3, <3>1, <4>1
      <4>2. CASE u = t /\ Abandoned(u)
        BY <2>1, <2>2, <3>1, <4>2 DEF HoldsLease, Abandoned
      <4>. QED BY <2>4, <4>1, <4>2
    <3>2. \A q \in Worker : Calm(q, t)
      BY <2>1, <3>1 DEF Calm, About
    <3>. QED BY <1>1, <2>1, <3>2
  <2>5. CASE u = t /\ ~Abandoned(u)
    <3>1. ~Awaited(t)'
      BY <2>1, <2>2, <2>5 DEF Awaited, HoldsLease
    <3>2. Strays(t)' \subseteq Strays(t) \cup {lease[t].holder}
      BY <2>1, <2>5 DEF Strays, About, HoldsLease
    <3>3. Paid(deps[t], Strays(t)', faults + 1)
      BY <3>2, LossPaid DEF DeploymentsPaid
    <3>. QED BY <2>1, <2>5, <3>1, <3>3 DEF DeploymentsPaid
  <2>. QED BY <2>4, <2>5
<1>4. ASSUME NEW p \in Worker, NEW u \in Target, Claim(p, u) PROVE DeploymentsPaid(t)'
  <2>1. PICK i \in 1..Len(rows[u]) : Claimed(p, u, i)
    BY <1>4, ClaimEffect
  <2>2. Calm(p, t)
    BY <2>1 DEF Claimed, Calm, HoldsLease
  <2>3. ASSUME NEW q \in Worker \ {p} PROVE Calm(q, t)
    <3>1. work'[q] = work[q]
      BY <2>1 DEF Claimed, OthersStay
    <3>2. ASSUME About(q) PROVE HoldsLease(q)' <=> HoldsLease(q)
      <4>1. work[q].target \in Target
        BY <3>2 DEF About, Typed, AtWork
      <4>2. CASE work[q].target = u
        <5>1. ~lease[u].live /\ lease'[u].holder # q
          BY <2>1 DEF Claimed, Claimable
        <5>. QED BY <3>1, <4>2, <5>1 DEF HoldsLease
      <4>3. CASE work[q].target # u
        <5>1. lease'[work[q].target] = lease[work[q].target]
          BY <2>1, <4>1, <4>3 DEF Claimed
        <5>. QED BY <3>1, <5>1 DEF HoldsLease
      <4>. QED BY <4>2, <4>3
    <3>. QED BY <3>1, <3>2 DEF Calm, About
  <2>4. deps' = deps
    BY <2>1 DEF Claimed, remoteVars
  <2>. QED BY <1>1, <2>2, <2>3, <2>4
<1>5. ASSUME NEW p \in Worker, FindDeployment(p) PROVE DeploymentsPaid(t)'
  <2>1. /\ Delivering(p) /\ deps' = deps /\ lease' = lease /\ work[p].step = "deployment"
        /\ \/ work'[p].step = "status"
           \/ work'[p].step = "new deployment" /\ deps[work[p].target] = 0
    BY <1>5, FindDeploymentEffect DEF Advanced, remoteVars, Delivering, rowVars
  <2>2. Calm(p, t)
    BY <2>1 DEF Calm, About, Delivering, Same, HoldsLease
  <2>. QED BY <1>2, <2>1, <2>2 DEF Delivering
<1>6. ASSUME NEW p \in Worker, CreateDeployment(p) PROVE DeploymentsPaid(t)'
  <2>. DEFINE u == work[p].target
  <2>1. /\ Delivering(p) /\ lease' = lease /\ work[p].step = "new deployment"
        /\ u \in Target /\ deps' \in [Target -> Nat] /\ deps'[u] = deps[u] + 1
        /\ \A v \in Target \ {u} : deps'[v] = deps[v]
        /\ work'[p].step \notin {"deployment", "new deployment"}
        /\ faults' = faults
    BY <1>6, CreateDeploymentEffect DEF GivenUp, Delivering, rowVars
  <2>2. Calm(p, t)
    BY <2>1 DEF Calm, About
  <2>3. CASE u # t
    BY <1>2, <2>1, <2>2, <2>3 DEF Delivering
  <2>4. CASE u = t
    <3>. DEFINE m == deps'[t]
    <3>0. m \in Nat /\ m <= deps[t] + 1
      <4>1. m = deps[t] + 1
        BY <2>1, <2>4
      <4>. HIDE DEF m
      <4>. QED BY <1>0, <4>1
    <3>. HIDE DEF m
    <3>1. /\ Strays(t)' \subseteq Strays(t) \ {p}
          /\ \A q \in Worker \ {p} : work'[q] = work[q] /\ (HoldsLease(q)' <=> HoldsLease(q))
      <4>1. \A q \in Worker \ {p} : work'[q] = work[q] /\ (HoldsLease(q)' <=> HoldsLease(q))
        BY <2>1 DEF Delivering, OthersStay, HoldsLease
      <4>. QED BY <2>1, <4>1 DEF Strays, About
    <3>2. CASE HoldsLease(p)
      <4>1. Awaited(t)
        BY <2>1, <2>4, <3>2 DEF Awaited
      <4>2. ~Awaited(t)'
        <5>1. \A q \in Worker \ {p} : work[q].target = t => ~HoldsLease(q)
          BY <2>4, <3>2 DEF HoldsLease
        <5>. QED BY <2>1, <3>1, <5>1 DEF Awaited
      <4>3. Paid(m, Strays(t)', faults)
        BY <3>0, <3>1, <4>1, HolderMakes DEF DeploymentsPaid
      <4>. QED BY <2>1, <4>2, <4>3 DEF DeploymentsPaid, m
    <3>3. CASE ~HoldsLease(p)
      <4>1. p \in Strays(t)
        BY <2>1, <2>4, <3>3 DEF Strays, About
      <4>2. Awaited(t)' => Awaited(t)
        BY <2>1, <3>1 DEF Awaited
      <4>3. /\ Paid(m, Strays(t)', faults)
            /\ Room(deps[t], Strays(t), faults) => Room(m, Strays(t)', faults)
        BY <3>0, <3>1, <4>1, StrayMakes DEF DeploymentsPaid
      <4>. QED BY <2>1, <4>2, <4>3 DEF DeploymentsPaid, m
    <3>. QED BY <3>2, <3>3
  <2>. QED BY <2>3, <2>4
<1>7. ASSUME NEW p \in Worker, FindStatus(p) \/ CreateStatus(p) \/ DeliveryFails(p) \/ FinishUpsert(p)
      PROVE  DeploymentsPaid(t)'
  <2>1. /\ Delivering(p) /\ deps' = deps /\ lease' = lease
        /\ work'[p].step \notin {"deployment", "new deployment"}
    BY <1>7, FindStatusEffect, CreateStatusEffect, FailsEffect, FinishEffect
       DEF Delivering, rowVars, remoteVars, Advanced, GivenUp
  <2>. QED BY <1>2, <2>1 DEF Delivering, Calm, About
<1>8. ASSUME NEW p \in Worker, Record(p) PROVE DeploymentsPaid(t)'
  <2>. DEFINE u == work[p].target
  <2>1. /\ OthersStay(p) /\ work'[p].step = "idle" /\ deps' = deps
        /\ Recorded(p, u, work[p].row) \/ UNCHANGED rowVars
    BY <1>8, RecordEffect DEF remoteVars
  <2>2. Calm(p, t)
    BY <2>1 DEF Calm, About
  <2>3. CASE UNCHANGED rowVars
    BY <1>2, <2>1, <2>2, <2>3 DEF rowVars
  <2>4. CASE Recorded(p, u, work[p].row)
    <3>1. ASSUME NEW q \in Worker \ {p} PROVE Calm(q, t)
      <4>1. work'[q] = work[q]
        BY <2>1 DEF OthersStay
      <4>2. ASSUME About(q) PROVE HoldsLease(q)' <=> HoldsLease(q)
        <5>1. work[q].target \in Target
          BY <4>2 DEF About, Typed, AtWork
        <5>. QED BY <2>4, <4>1, <5>1 DEF HoldsLease, Recorded
      <4>. QED BY <4>1, <4>2 DEF Calm, About
    <3>. QED BY <1>1, <2>1, <2>2, <3>1
  <2>. QED BY <2>1, <2>3, <2>4
<1>9. ASSUME NEW p \in Worker, Crash(p) PROVE DeploymentsPaid(t)'
  <2>1. OthersStay(p) /\ work'[p].step = "idle" /\ lease' = lease /\ deps' = deps
    BY <1>9, FreeEffect DEF Crash, rowVars, remoteVars
  <2>. QED BY <1>2, <2>1 DEF Calm, About
<1>10. ASSUME UNCHANGED <<work, lease, deps>> PROVE DeploymentsPaid(t)'
  <2>1. \A q \in Worker : HoldsLease(q)' <=> HoldsLease(q)
    BY <1>10 DEF HoldsLease
  <2>. QED BY <1>1, <1>10, <2>1, OthersCalm
<1>11. /\ \A u \in Target : QueueIntent(u) => UNCHANGED <<work, lease, deps>>
       /\ UNCHANGED vars \/ UNCHANGED <<rowVars, remoteVars, work>> => UNCHANGED <<work, lease, deps>>
  BY DEF QueueIntent, vars, rowVars, remoteVars
<1>. QED BY <1>3, <1>4, <1>5, <1>6, <1>7, <1>8, <1>9, <1>10, <1>11 DEF Next, Deliver

(* Faults are only counted up. *)
LEMMA FaultsGrow ==
  ASSUME Typed, [Next]_vars
  PROVE  faults' \in Nat /\ faults <= faults'
<1>0. faults \in Nat
  BY DEF Typed, TypeOK, CommentTypeOK
<1>1. ASSUME NEW p \in Worker, Deliver(p) PROVE faults' = faults
  BY <1>1 DEF Deliver, FindDeployment, CreateDeployment, FindStatus, CreateStatus, DeliveryFails,
     FinishUpsert, Record, UpsertStep, ClaimComment, FindComment, UpdateComment, CreateComment,
     CommentCallFails, SaveComment
<1>2. /\ \A t \in Target : QueueIntent(t) => faults' = faults
      /\ \A p \in Worker, t \in Target : Claim(p, t) => faults' = faults
      /\ UNCHANGED vars \/ DeleteComment => faults' = faults
  BY DEF QueueIntent, Claim, vars, DeleteComment
<1>3. /\ \A t \in Target : LoseLease(t) => faults' \in {faults, faults + 1}
      /\ LoseCommentLease => faults' \in {faults, faults + 1}
      /\ \A p \in Worker : Crash(p) => faults' = faults + 1
  BY DEF LoseLease, LoseCommentLease, Crash
<1>4. faults' \in {faults, faults + 1}
  BY <1>1, <1>2, <1>3 DEF Next
<1>. QED BY <1>0, <1>4

AllPaid ==
    /\ \A t \in Target : DeploymentsPaid(t)
    /\ \A pr \in Provider : CommentsPaid(pr)

LEMMA AllPaidAlways == Spec => [](Typed /\ AllPaid)
<1>1. Init => Typed /\ AllPaid
  <2>. SUFFICES ASSUME Init PROVE Typed /\ AllPaid
    OBVIOUS
  <2>1. ASSUME NEW t \in Target PROVE DeploymentsPaid(t)
    <3>1. Strays(t) = {} /\ ~Awaited(t) /\ deps[t] = 0 /\ faults = 0
      BY DEF Init, CommentInit, Free, Strays, About, Awaited
    <3>. QED BY <3>1, FS_EmptySet DEF DeploymentsPaid, Paid
  <2>. QED BY <2>1, InitTyped, CommentStarts DEF AllPaid, Init
<1>2. Typed /\ AllPaid /\ [Next]_vars => (Typed /\ AllPaid)'
  <2>. SUFFICES ASSUME Typed, AllPaid, [Next]_vars PROVE (Typed /\ AllPaid)'
    OBVIOUS
  <2>1. faults' \in Nat /\ faults <= faults'
    BY FaultsGrow
  <2>2. \A t \in Target : DeploymentsPaid(t)'
    BY <2>1, DeploymentsStayPaid DEF AllPaid
  <2>3. \A pr \in Provider : CommentsPaid(pr)'
    BY <2>1, CommentMoves, Types, CommentsStayPaid DEF AllPaid
  <2>. QED BY <2>2, <2>3, NextTyped DEF AllPaid
<1>. QED BY <1>1, <1>2, PTL DEF Spec

(* Whatever the leases do, a second external deployment or a second live comment *)
(* takes a fault, a third takes two: no interleaving of healthy processors makes *)
(* one.                                                                         *)
DuplicatesCostFaults ==
    /\ \A t \in Target : deps[t] <= 1 + faults
    /\ \A pr \in Provider : Cardinality(Marked(pr)) <= 1 + faults

LEMMA PaidBound ==
  ASSUME NEW n, NEW S, NEW f, Paid(n, S, f)
  PROVE  n <= 1 + f
<1>1. Cardinality(S) \in Nat /\ n \in Nat /\ f \in Nat /\ n + Cardinality(S) <= 1 + f
  BY FS_CardinalityType DEF Paid
<1>. QED BY <1>1

(* Each external deployment and each live comment beyond the first took a crash  *)
(* or the loss of a lease at work.                                              *)
THEOREM EachDuplicateCostsAFault == Spec => []DuplicatesCostFaults
<1>1. AllPaid => DuplicatesCostFaults
  BY PaidBound DEF AllPaid, DeploymentsPaid, CommentsPaid, DuplicatesCostFaults
<1>. QED BY <1>1, AllPaidAlways, PTL

(* As long as no processor died and none lost a lease at work, no deployment has *)
(* a second external deployment and no pull request a second live comment,       *)
(* however short the leases are.                                                *)
THEOREM OneIdentityUntilAFault == Spec => [](faults = 0 => OneExternalIdentity)
<1>1. DuplicatesCostFaults => (faults = 0 => OneExternalIdentity)
  BY DEF DuplicatesCostFaults, OneExternalIdentity
<1>. QED BY <1>1, EachDuplicateCostsAFault, PTL

================================================================================
