-------------------------- MODULE PreviewCommentProofs --------------------------
(* Facts about the steps of PreviewComment, for any workers and providers, on    *)
(* which the proofs about ProviderFeedback rest. If leases are Timely, whoever   *)
(* calls the provider holds the comment's lease, so nothing is created between   *)
(* its search and its creation.                                                 *)
EXTENDS PreviewComment, FiniteSetTheorems, TLAPS

CommentRow == [provider : Provider \cup {None}, id : Nat,
               holder : Worker \cup {None}, live : BOOLEAN]

(* A worker that is about the comment knows the provider. *)
HasProvider == \A w \in Worker : upsert[w].step # "idle" => upsert[w].provider \in Provider
CommentTyped == CommentTypeOK /\ HasProvider

(* A worker begins an upsert, or drops what it was doing. *)
Begins(w) ==
    /\ \E pr \in Provider :
          upsert' = [upsert EXCEPT ![w] = [step |-> "claim", provider |-> pr, id |-> NoId]]
    /\ UNCHANGED <<comment, remote, made, deleted>>
Rests(w) ==
    /\ upsert' = [upsert EXCEPT ![w] = Resting]
    /\ UNCHANGED <<comment, remote, made, deleted>>

CommentStep ==
    \/ \E w \in Worker : UpsertStep(w) \/ Begins(w) \/ Rests(w)
    \/ LoseCommentLease
    \/ DeleteComment
    \/ UNCHANGED commentVars

UpsertSteps == {"idle", "claim", "save"} \cup Calls \cup Verdicts

LEMMA CommentTypes ==
  ASSUME CommentTyped
  PROVE  /\ comment \in CommentRow
         /\ upsert \in [Worker -> Upsert]
         /\ made \in Nat
         /\ remote \subseteq [provider : Provider, id : 1..made]
BY DEF CommentTyped, CommentTypeOK, CommentRow

LEMMA GoEffect ==
  ASSUME CommentTyped, NEW w \in Worker, NEW s \in UpsertSteps, NEW i \in Nat, Go(w, s, i)
  PROVE  /\ upsert' \in [Worker -> Upsert]
         /\ upsert'[w].step = s /\ upsert'[w].provider = upsert[w].provider
         /\ upsert'[w].id = i
         /\ \A v \in Worker \ {w} : upsert'[v] = upsert[v]
<1>. DEFINE u == [upsert[w] EXCEPT !.step = s, !.id = i]
<1>1. upsert \in [Worker -> Upsert] /\ upsert[w] \in Upsert
  BY CommentTypes
<1>2. u \in Upsert /\ u.step = s /\ u.provider = upsert[w].provider /\ u.id = i
  BY <1>1 DEF Upsert, UpsertSteps
<1>3. upsert' = [upsert EXCEPT ![w] = u]
  BY DEF Go
<1>. HIDE DEF u
<1>. QED BY <1>1, <1>2, <1>3

LEMMA LeaveEffect ==
  ASSUME CommentTyped, NEW w \in Worker, LeaveComment(w)
  PROVE  /\ comment' \in CommentRow
         /\ comment'.live => comment'.holder # None
         /\ \A v \in Worker \ {w} : HoldsComment(v) <=> HoldsComment(v)'
<1>1. comment \in CommentRow /\ (comment.live => comment.holder # None)
  BY DEF CommentTyped, CommentTypeOK, CommentRow
<1>2. Unleased \in CommentRow /\ ~Unleased.live
  BY <1>1 DEF Unleased, CommentRow
<1>. QED BY <1>1, <1>2 DEF LeaveComment, HoldsComment

(* What a step of one worker does: it moves that worker only, takes the lease    *)
(* only when it is free, and adds a comment only by creating it.                 *)
Moved(w) ==
    /\ upsert' \in [Worker -> Upsert]
    /\ upsert'[w].step # "idle" => upsert'[w].provider \in Provider
    /\ \A v \in Worker \ {w} : upsert'[v] = upsert[v]
    /\ comment' \in CommentRow
    /\ comment'.live => comment'.holder # None
    /\ \A v \in Worker \ {w} : HoldsComment(v) <=> HoldsComment(v)'
    /\ HoldsComment(w) /\ upsert[w].step \in Calls /\ upsert'[w].step \in Calls => HoldsComment(w)'
    /\ upsert'[w].step \in Calls /\ upsert[w].step \notin Calls => HoldsComment(w)'
    /\ deleted' = deleted
NothingMade(w) ==
    /\ UNCHANGED <<remote, made>>
    /\ upsert'[w].step = "create" => Marked(upsert'[w].provider) = {}
Creates(w) ==
    /\ upsert[w].step = "create" /\ upsert'[w].step \notin Calls
    /\ made' = made + 1
    /\ remote' = remote \cup {[provider |-> upsert[w].provider, id |-> made + 1]}

LEMMA ClaimMoves ==
  ASSUME CommentTyped, NEW w \in Worker, ClaimComment(w)
  PROVE  Moved(w) /\ NothingMade(w)
<1>. DEFINE pr == upsert[w].provider
            i == IF comment.provider = pr THEN comment.id ELSE NoId
<1>1. /\ comment \in CommentRow /\ upsert \in [Worker -> Upsert]
      /\ comment.live => comment.holder # None
      /\ pr \in Provider
  BY CommentTypes DEF CommentTyped, CommentTypeOK, HasProvider, ClaimComment
<1>2. i \in Nat
  BY <1>1 DEF CommentRow, NoId
<1>3. CASE comment.live /\ Go(w, "retry", NoId) /\ UNCHANGED comment
  <2>1. NoId \in Nat /\ "retry" \in UpsertSteps /\ "retry" \notin Calls
    BY DEF NoId, UpsertSteps, Verdicts, Calls
  <2>. QED BY <1>1, <1>3, <2>1, GoEffect DEF ClaimComment, Moved, NothingMade, HoldsComment
<1>4. CASE /\ ~comment.live
           /\ comment' = [provider |-> pr, id |-> i, holder |-> w, live |-> TRUE]
           /\ Go(w, IF i = NoId THEN "find" ELSE "update", i)
  <2>. DEFINE s == IF i = NoId THEN "find" ELSE "update"
  <2>1. s \in UpsertSteps /\ s # "create" /\ Go(w, s, i)
    BY <1>4 DEF UpsertSteps, Calls
  <2>2. comment' \in CommentRow /\ comment'.holder = w /\ comment'.live /\ w # None
    BY <1>1, <1>2, <1>4, NoneAssumption DEF CommentRow
  <2>. HIDE DEF s, i
  <2>3. UNCHANGED <<remote, made, deleted>>
    BY DEF ClaimComment
  <2>4. /\ upsert' \in [Worker -> Upsert]
        /\ upsert'[w].step = s /\ upsert'[w].provider = upsert[w].provider
        /\ \A v \in Worker \ {w} : upsert'[v] = upsert[v]
    BY <1>2, <2>1, GoEffect
  <2>5. \A v \in Worker : ~HoldsComment(v)
    BY <1>4 DEF HoldsComment
  <2>6. HoldsComment(w)'
    BY <2>2 DEF HoldsComment
  <2>7. \A v \in Worker \ {w} : ~HoldsComment(v)'
    BY <2>2 DEF HoldsComment
  <2>. QED BY <1>1, <2>1, <2>2, <2>3, <2>4, <2>5, <2>6, <2>7 DEF Moved, NothingMade
<1>. QED BY <1>3, <1>4 DEF ClaimComment

LEMMA FindMoves ==
  ASSUME CommentTyped, NEW w \in Worker, FindComment(w)
  PROVE  Moved(w) /\ NothingMade(w)
<1>1. /\ comment \in CommentRow /\ upsert[w].step \in Calls
      /\ comment.live => comment.holder # None
      /\ upsert[w].provider \in Provider
      /\ UNCHANGED <<comment, remote, made, deleted>>
  BY CommentTypes DEF CommentTyped, CommentTypeOK, HasProvider, FindComment, Calls
<1>2. \A v \in Worker : HoldsComment(v)' <=> HoldsComment(v)
  BY <1>1 DEF HoldsComment
<1>3. CASE \E c \in Marked(upsert[w].provider) :
             Go(w, IF upsert[w].step = "find" THEN "update" ELSE "update again", c.id)
  <2>1. PICK c \in Marked(upsert[w].provider) :
           Go(w, IF upsert[w].step = "find" THEN "update" ELSE "update again", c.id)
    BY <1>3
  <2>. DEFINE s == IF upsert[w].step = "find" THEN "update" ELSE "update again"
  <2>2. c.id \in Nat
    BY CommentTypes DEF Marked
  <2>3. s \in UpsertSteps /\ s # "create" /\ Go(w, s, c.id)
    BY <2>1 DEF UpsertSteps, Calls
  <2>. HIDE DEF s
  <2>. QED BY <1>1, <1>2, <2>2, <2>3, GoEffect DEF Moved, NothingMade
<1>4. CASE Marked(upsert[w].provider) = {} /\ Go(w, "create", NoId)
  <2>1. NoId \in Nat /\ "create" \in UpsertSteps
    BY DEF NoId, UpsertSteps, Calls
  <2>. QED BY <1>1, <1>2, <1>4, <2>1, GoEffect DEF Moved, NothingMade
<1>. QED BY <1>3, <1>4 DEF FindComment

LEMMA UpdateMoves ==
  ASSUME CommentTyped, NEW w \in Worker, UpdateComment(w)
  PROVE  Moved(w) /\ NothingMade(w)
<1>1. /\ comment \in CommentRow /\ upsert[w] \in Upsert /\ upsert[w].step \in Calls
      /\ comment.live => comment.holder # None
      /\ upsert[w].provider \in Provider
      /\ UNCHANGED <<remote, made, deleted>>
  BY CommentTypes DEF CommentTyped, CommentTypeOK, HasProvider, UpdateComment, Calls
<1>2. upsert[w].id \in Nat /\ NoId \in Nat /\ {"save", "find again", "reject"} \subseteq UpsertSteps
  BY <1>1 DEF Upsert, NoId, UpsertSteps, Calls, Verdicts
<1>3. ASSUME NEW s \in {"save", "find again"}, NEW i \in Nat, Go(w, s, i), UNCHANGED comment
      PROVE  Moved(w) /\ NothingMade(w)
  <2>1. \A v \in Worker : HoldsComment(v)' <=> HoldsComment(v)
    BY <1>3 DEF HoldsComment
  <2>. QED BY <1>1, <1>2, <1>3, <2>1, GoEffect DEF Moved, NothingMade
<1>4. CASE Go(w, "reject", NoId) /\ LeaveComment(w)
  <2>1. "reject" \notin Calls
    BY DEF Calls
  <2>. QED BY <1>1, <1>2, <1>4, <2>1, GoEffect, LeaveEffect DEF Moved, NothingMade
<1>. QED BY <1>2, <1>3, <1>4 DEF UpdateComment

LEMMA CreateMoves ==
  ASSUME CommentTyped, NEW w \in Worker, CreateComment(w)
  PROVE  Moved(w) /\ Creates(w)
<1>1. /\ comment \in CommentRow /\ upsert[w].step = "create" /\ upsert[w].step \in Calls
      /\ comment.live => comment.holder # None
      /\ upsert[w].provider \in Provider /\ made \in Nat
      /\ made' = made + 1 /\ deleted' = deleted
      /\ remote' = remote \cup {[provider |-> upsert[w].provider, id |-> made + 1]}
  BY CommentTypes DEF CommentTyped, CommentTypeOK, HasProvider, CreateComment, Calls
<1>2. made + 1 \in Nat /\ NoId \in Nat /\ {"save", "retry"} \subseteq UpsertSteps
  BY <1>1 DEF NoId, UpsertSteps, Verdicts
<1>3. "save" \notin Calls /\ "retry" \notin Calls
  BY DEF Calls
<1>4. CASE Go(w, "save", made + 1) /\ UNCHANGED comment
  <2>1. \A v \in Worker : HoldsComment(v)' <=> HoldsComment(v)
    BY <1>4 DEF HoldsComment
  <2>. QED BY <1>1, <1>2, <1>3, <1>4, <2>1, GoEffect DEF Moved, Creates
<1>5. CASE Go(w, "retry", NoId) /\ LeaveComment(w)
  BY <1>1, <1>2, <1>3, <1>5, GoEffect, LeaveEffect DEF Moved, Creates
<1>. QED BY <1>4, <1>5 DEF CreateComment

LEMMA FailMoves ==
  ASSUME CommentTyped, NEW w \in Worker, CommentCallFails(w)
  PROVE  Moved(w) /\ NothingMade(w)
<1>1. /\ upsert[w].step \in Calls
      /\ upsert[w].provider \in Provider
      /\ UNCHANGED <<remote, made, deleted>>
      /\ LeaveComment(w)
  BY DEF CommentTyped, HasProvider, CommentCallFails, Calls
<1>2. PICK s \in Failures : Go(w, s, NoId)
  BY DEF CommentCallFails
<1>3. s \in UpsertSteps /\ s \notin Calls /\ s # "create" /\ NoId \in Nat
  BY FailuresAssumption DEF UpsertSteps, Verdicts, Calls, NoId
<1>. QED BY <1>1, <1>2, <1>3, GoEffect, LeaveEffect DEF Moved, NothingMade

LEMMA SaveMoves ==
  ASSUME CommentTyped, NEW w \in Worker, SaveComment(w)
  PROVE  Moved(w) /\ NothingMade(w)
<1>1. /\ upsert[w].step = "save" /\ upsert[w] \in Upsert
      /\ upsert[w].provider \in Provider
      /\ UNCHANGED <<remote, made, deleted>>
      /\ comment \in CommentRow
      /\ comment.live => comment.holder # None
  BY CommentTypes DEF CommentTyped, CommentTypeOK, HasProvider, SaveComment
<1>2. /\ upsert[w].id \in Nat /\ NoId \in Nat /\ {"done", "retry"} \subseteq UpsertSteps
      /\ "done" \notin Calls /\ "retry" \notin Calls
  BY <1>1 DEF Upsert, NoId, UpsertSteps, Verdicts, Calls
<1>3. CASE HoldsComment(w)
  <2>1. comment' = [Unleased EXCEPT !.id = upsert[w].id] /\ Go(w, "done", upsert[w].id)
    BY <1>3 DEF SaveComment
  <2>2. comment' \in CommentRow /\ ~comment'.live
    BY <1>1, <1>2, <2>1 DEF CommentRow, Unleased
  <2>3. \A v \in Worker \ {w} : ~HoldsComment(v) /\ ~HoldsComment(v)'
    BY <1>3, <2>2 DEF HoldsComment
  <2>. QED BY <1>1, <1>2, <2>1, <2>2, <2>3, GoEffect DEF Moved, NothingMade
<1>4. CASE ~HoldsComment(w)
  <2>1. Go(w, "retry", NoId) /\ UNCHANGED comment
    BY <1>4 DEF SaveComment
  <2>2. \A v \in Worker : HoldsComment(v)' <=> HoldsComment(v)
    BY <2>1 DEF HoldsComment
  <2>. QED BY <1>1, <1>2, <2>1, <2>2, GoEffect DEF Moved, NothingMade
<1>. QED BY <1>3, <1>4

LEMMA BeginMoves ==
  ASSUME CommentTyped, NEW w \in Worker, Begins(w) \/ Rests(w)
  PROVE  Moved(w) /\ NothingMade(w)
<1>1. /\ UNCHANGED <<comment, remote, made, deleted>>
      /\ comment \in CommentRow /\ upsert \in [Worker -> Upsert]
      /\ comment.live => comment.holder # None
  BY CommentTypes DEF Begins, Rests, CommentTyped, CommentTypeOK
<1>2. PICK u \in Upsert : /\ u.step \in {"claim", "idle"}
                          /\ u.step # "idle" => u.provider \in Provider
                          /\ upsert' = [upsert EXCEPT ![w] = u]
  <2>1. CASE Begins(w)
    <3>1. PICK pr \in Provider :
             upsert' = [upsert EXCEPT ![w] = [step |-> "claim", provider |-> pr, id |-> NoId]]
      BY <2>1 DEF Begins
    <3>2. [step |-> "claim", provider |-> pr, id |-> NoId] \in Upsert
      BY DEF Upsert, NoId
    <3>. QED BY <3>1, <3>2
  <2>2. CASE Rests(w)
    <3>1. Resting \in Upsert /\ Resting.step = "idle"
      BY DEF Resting, Upsert, NoId
    <3>. QED BY <2>2, <3>1 DEF Rests
  <2>. QED BY <2>1, <2>2
<1>3. \A v \in Worker : HoldsComment(v)' <=> HoldsComment(v)
  BY <1>1 DEF HoldsComment
<1>4. upsert'[w] = u /\ u.step \notin Calls
  BY <1>1, <1>2 DEF Calls
<1>. QED BY <1>1, <1>2, <1>3, <1>4 DEF Moved, NothingMade, Calls

LEMMA WorkerMoves ==
  ASSUME CommentTyped, NEW w \in Worker, UpsertStep(w) \/ Begins(w) \/ Rests(w)
  PROVE  Moved(w) /\ (NothingMade(w) \/ Creates(w))
BY ClaimMoves, FindMoves, UpdateMoves, CreateMoves, FailMoves, SaveMoves, BeginMoves DEF UpsertStep

(* The types are kept by every step, if the count of faults is. *)
LEMMA CommentTypesKept ==
  ASSUME CommentTyped, CommentStep, faults' \in 0..MaxFaults
  PROVE  CommentTyped'
<1>1. ASSUME NEW w \in Worker, UpsertStep(w) \/ Begins(w) \/ Rests(w)
      PROVE  CommentTyped'
  <2>1. Moved(w) /\ (NothingMade(w) \/ Creates(w))
    BY <1>1, WorkerMoves
  <2>2. remote' \subseteq [provider : Provider, id : 1..made'] /\ made' \in Nat
    <3>1. CASE NothingMade(w)
      BY <3>1, CommentTypes DEF NothingMade
    <3>2. CASE Creates(w)
      <4>1. upsert[w].provider \in Provider
        BY <3>2 DEF Creates, CommentTyped, HasProvider
      <4>. QED BY <3>2, <4>1, CommentTypes DEF Creates
    <3>. QED BY <2>1, <3>1, <3>2
  <2>3. HasProvider'
    BY <2>1 DEF Moved, CommentTyped, HasProvider
  <2>4. deleted' \in 0..MaxDeletes
    BY <2>1 DEF Moved, CommentTyped, CommentTypeOK
  <2>. QED BY <2>1, <2>2, <2>3, <2>4 DEF Moved, CommentTyped, CommentTypeOK, CommentRow
<1>2. CASE LoseCommentLease
  <2>1. comment' \in CommentRow /\ ~comment'.live
    BY <1>2, CommentTypes DEF LoseCommentLease, CommentRow
  <2>2. UNCHANGED <<remote, made, deleted, upsert>>
    BY <1>2 DEF LoseCommentLease
  <2>. QED BY <2>1, <2>2 DEF CommentTyped, CommentTypeOK, CommentRow, HasProvider
<1>3. CASE DeleteComment
  <2>1. UNCHANGED <<comment, made, upsert>> /\ remote' \subseteq remote
    BY <1>3 DEF DeleteComment
  <2>2. deleted' \in 0..MaxDeletes
    BY <1>3, BoundsAssumption DEF DeleteComment, CommentTyped, CommentTypeOK
  <2>. QED BY <2>1, <2>2 DEF CommentTyped, CommentTypeOK, HasProvider
<1>4. CASE UNCHANGED commentVars
  BY <1>4 DEF commentVars, CommentTyped, CommentTypeOK, HasProvider
<1>. QED BY <1>1, <1>2, <1>3, <1>4 DEF CommentStep

(* With timely leases: a worker between two calls holds the lease, what it did   *)
(* not find is not there, and no provider has two comments.                      *)
CallsHold == \A w \in Worker : upsert[w].step \in Calls => HoldsComment(w)
NoneToCreate == \A w \in Worker : upsert[w].step = "create" => Marked(upsert[w].provider) = {}
OneEach == \A c, d \in remote : c.provider = d.provider => c = d
OneComment == CallsHold /\ NoneToCreate /\ OneEach

LEMMA OneCommentKept ==
  ASSUME CommentTyped, OneComment, CommentStep, Timely
  PROVE  OneComment'
<1>. USE DEF OneComment
<1>1. ASSUME NEW w \in Worker, UpsertStep(w) \/ Begins(w) \/ Rests(w)
      PROVE  OneComment'
  <2>1. Moved(w) /\ (NothingMade(w) \/ Creates(w))
    BY <1>1, WorkerMoves
  <2>2. CallsHold'
    BY <2>1 DEF Moved, CallsHold
  <2>3. CASE NothingMade(w)
    <3>1. remote' = remote
      BY <2>3 DEF NothingMade
    <3>. QED BY <2>1, <2>2, <2>3, <3>1 DEF Moved, NothingMade, NoneToCreate, OneEach, Marked
  <2>4. CASE Creates(w)
    <3>. DEFINE c == [provider |-> upsert[w].provider, id |-> made + 1]
    <3>1. /\ upsert[w].step = "create" /\ upsert'[w].step # "create"
          /\ Marked(upsert[w].provider) = {}
          /\ remote' = remote \cup {c} /\ c.provider = upsert[w].provider
      BY <2>4 DEF Creates, NoneToCreate, Calls
    <3>. HIDE DEF c
    <3>2. \A d \in remote : d.provider # c.provider
      BY <3>1 DEF Marked
    <3>3. OneEach'
      BY <3>1, <3>2 DEF OneEach
    <3>4. \A v \in Worker : upsert[v].step = "create" => v = w
      BY <3>1 DEF CallsHold, HoldsComment, Calls
    <3>5. NoneToCreate'
      BY <2>1, <3>1, <3>4 DEF Moved, NoneToCreate
    <3>. QED BY <2>2, <3>3, <3>5
  <2>. QED BY <2>1, <2>3, <2>4
<1>2. CASE LoseCommentLease
  <2>1. UNCHANGED <<remote, upsert>> /\ upsert[comment.holder].step \notin Calls
    BY <1>2 DEF LoseCommentLease, CommentAbandoned
  <2>2. CallsHold'
    BY <2>1 DEF CallsHold, HoldsComment
  <2>. QED BY <2>1, <2>2 DEF NoneToCreate, Marked, OneEach
<1>3. CASE DeleteComment
  <2>1. UNCHANGED <<comment, upsert>> /\ remote' \subseteq remote
    BY <1>3 DEF DeleteComment
  <2>. QED BY <2>1 DEF CallsHold, HoldsComment, NoneToCreate, Marked, OneEach
<1>4. CASE UNCHANGED commentVars
  BY <1>4 DEF commentVars, CallsHold, HoldsComment, NoneToCreate, Marked, OneEach
<1>. QED BY <1>1, <1>2, <1>3, <1>4 DEF CommentStep

--------------------------------------------------------------------------------
(* Without timely leases: a comment too many is paid for by a fault. A worker    *)
(* that lost the lease while it calls the provider may still create a comment,   *)
(* so such strays are counted with the comments that exist.                      *)

CommentStrays(pr) ==
    {w \in Worker : upsert[w].step \in Calls /\ upsert[w].provider = pr /\ ~HoldsComment(w)}
CommentAwaited(pr) ==
    \E w \in Worker : upsert[w].step = "create" /\ upsert[w].provider = pr /\ HoldsComment(w)

(* n things exist, the strays S may each make one more, and f faults happened;   *)
(* and there is room for one that nobody has found yet.                          *)
Paid(n, S, f) ==
    IsFiniteSet(S) /\ n \in Nat /\ f \in Nat /\ Cardinality(S) <= f /\ n + Cardinality(S) <= 1 + f
Room(n, S, f) == n + Cardinality(S) <= f
CommentsPaid(pr) ==
    LET n == Cardinality(Marked(pr))
    IN  /\ IsFiniteSet(Marked(pr))
        /\ Paid(n, CommentStrays(pr), faults)
        /\ CommentAwaited(pr) => Room(n, CommentStrays(pr), faults)

LEMMA FewerPaid ==
  ASSUME NEW n, NEW S, NEW f, Paid(n, S, f), NEW T \in SUBSET S, NEW m \in Nat, m <= n,
         NEW g \in Nat, f <= g
  PROVE  Paid(m, T, g) /\ (Room(n, S, f) \/ m = 0 => Room(m, T, g))
<1>1. /\ IsFiniteSet(S) /\ IsFiniteSet(T) /\ Cardinality(T) <= Cardinality(S)
      /\ Cardinality(S) \in Nat /\ Cardinality(T) \in Nat
  BY FS_Subset, FS_CardinalityType DEF Paid
<1>. QED BY <1>1 DEF Paid, Room

LEMMA LossPaid ==
  ASSUME NEW n, NEW S, NEW f, Paid(n, S, f), NEW w, NEW T \in SUBSET (S \cup {w})
  PROVE  Paid(n, T, f + 1)
<1>0. IsFiniteSet(S) /\ Cardinality(S) \in Nat
  BY FS_CardinalityType DEF Paid
<1>1. /\ IsFiniteSet(S \cup {w}) /\ Cardinality(S \cup {w}) <= Cardinality(S) + 1
      /\ Cardinality(S \cup {w}) \in Nat
  BY <1>0, FS_AddElement, FS_CardinalityType
<1>2. IsFiniteSet(T) /\ Cardinality(T) <= Cardinality(S \cup {w}) /\ Cardinality(T) \in Nat
  BY <1>1, FS_Subset, FS_CardinalityType
<1>. QED BY <1>0, <1>1, <1>2 DEF Paid

LEMMA StrayMakes ==
  ASSUME NEW n, NEW S, NEW f, Paid(n, S, f), NEW w \in S, NEW T \in SUBSET (S \ {w}),
         NEW m \in Nat, m <= n + 1
  PROVE  Paid(m, T, f) /\ (Room(n, S, f) => Room(m, T, f))
<1>1. /\ IsFiniteSet(S \ {w}) /\ Cardinality(S \ {w}) = Cardinality(S) - 1
      /\ Cardinality(S) \in Nat /\ Cardinality(S \ {w}) \in Nat
  BY FS_RemoveElement, FS_CardinalityType DEF Paid
<1>2. IsFiniteSet(T) /\ Cardinality(T) <= Cardinality(S \ {w}) /\ Cardinality(T) \in Nat
  BY <1>1, FS_Subset, FS_CardinalityType
<1>. QED BY <1>1, <1>2 DEF Paid, Room

LEMMA HolderMakes ==
  ASSUME NEW n, NEW S, NEW f, Paid(n, S, f), Room(n, S, f), NEW T \in SUBSET S,
         NEW m \in Nat, m <= n + 1
  PROVE  Paid(m, T, f)
<1>1. /\ IsFiniteSet(S) /\ IsFiniteSet(T) /\ Cardinality(T) <= Cardinality(S)
      /\ Cardinality(S) \in Nat /\ Cardinality(T) \in Nat
  BY FS_Subset, FS_CardinalityType DEF Paid
<1>. QED BY <1>1 DEF Paid, Room

(* A step of one worker: the others stay strays, or do not become one. *)
LEMMA StraysOnMove ==
  ASSUME NEW w \in Worker, Moved(w), NEW pr, upsert'[w].step \in Calls =>
                                                 upsert'[w].provider = upsert[w].provider
  PROVE  /\ CommentStrays(pr)' \subseteq CommentStrays(pr)
         /\ upsert'[w].step \notin Calls => CommentStrays(pr)' \subseteq CommentStrays(pr) \ {w}
         /\ CommentAwaited(pr)' => CommentAwaited(pr)
              \/ (upsert'[w].step = "create" /\ upsert'[w].provider = pr)
<1>1. ASSUME NEW v \in CommentStrays(pr)' PROVE v \in CommentStrays(pr) /\ (v = w => upsert'[w].step \in Calls)
  <2>1. CASE v = w
    BY <1>1, <2>1 DEF CommentStrays, Moved
  <2>2. CASE v # w
    BY <1>1, <2>2 DEF CommentStrays, Moved
  <2>. QED BY <1>1, <2>1, <2>2
<1>2. ASSUME CommentAwaited(pr)', ~(upsert'[w].step = "create" /\ upsert'[w].provider = pr)
      PROVE  CommentAwaited(pr)
  BY <1>2 DEF CommentAwaited, Moved
<1>. QED BY <1>1, <1>2

(* A worker keeps the provider of its upsert. *)
LEMMA ProviderKept ==
  ASSUME CommentTyped, NEW w \in Worker, UpsertStep(w) \/ Begins(w) \/ Rests(w)
  PROVE  upsert'[w].step \in Calls => upsert'[w].provider = upsert[w].provider
<1>1. ASSUME NEW s, NEW i, Go(w, s, i) PROVE upsert'[w].provider = upsert[w].provider
  BY <1>1, CommentTypes DEF Go, Upsert
<1>2. Begins(w) \/ Rests(w) => upsert'[w].step \notin Calls
  <2>1. upsert \in [Worker -> Upsert]
    BY CommentTypes
  <2>2. Begins(w) \/ Rests(w) => upsert'[w].step \in {"claim", "idle"}
    BY <2>1 DEF Begins, Rests, Resting
  <2>. QED BY <2>2 DEF Calls
<1>3. UpsertStep(w) => \E s, i : Go(w, s, i)
  BY DEF UpsertStep, ClaimComment, FindComment, UpdateComment, CreateComment,
         CommentCallFails, SaveComment
<1>. QED BY <1>1, <1>2, <1>3

LEMMA CommentsStayPaid ==
  ASSUME CommentTyped, CommentStep, NEW pr, CommentsPaid(pr), faults' \in Nat, faults <= faults'
  PROVE  CommentsPaid(pr)'
<1>. DEFINE n == Cardinality(Marked(pr))
            S == CommentStrays(pr)
            m == n'
            T == S'
<1>0. /\ IsFiniteSet(Marked(pr)) /\ n \in Nat /\ Paid(n, S, faults) /\ faults \in Nat
      /\ CommentAwaited(pr) => Room(n, S, faults)
  BY FS_CardinalityType DEF CommentsPaid, Paid
<1>1. ASSUME Marked(pr)' \subseteq Marked(pr)
      PROVE  IsFiniteSet(Marked(pr))' /\ m \in Nat /\ m <= n
  BY <1>0, <1>1, FS_Subset, FS_CardinalityType
<1>2. ASSUME NEW w \in Worker, UpsertStep(w) \/ Begins(w) \/ Rests(w)
      PROVE  CommentsPaid(pr)'
  <2>1. Moved(w) /\ (NothingMade(w) \/ (Creates(w) /\ faults' = faults))
    <3>1. UpsertStep(w) => faults' = faults
      BY DEF UpsertStep, ClaimComment, FindComment, UpdateComment, CreateComment,
             CommentCallFails, SaveComment
    <3>. QED BY <1>2, <3>1, WorkerMoves, BeginMoves
  <2>2. /\ T \subseteq S
        /\ upsert'[w].step \notin Calls => T \subseteq S \ {w}
        /\ CommentAwaited(pr)' => CommentAwaited(pr)
              \/ (upsert'[w].step = "create" /\ upsert'[w].provider = pr)
    BY <1>2, <2>1, ProviderKept, StraysOnMove
  <2>3. CASE NothingMade(w)
    <3>1. Marked(pr)' = Marked(pr) /\ m = n
      BY <2>3 DEF NothingMade, Marked
    <3>2. upsert'[w].step = "create" /\ upsert'[w].provider = pr => n = 0
      BY <2>3, FS_EmptySet DEF NothingMade
    <3>3. Paid(m, T, faults') /\ (Room(n, S, faults) \/ m = 0 => Room(m, T, faults'))
      BY <1>0, <2>2, <3>1, FewerPaid
    <3>. QED BY <1>0, <2>2, <3>1, <3>2, <3>3 DEF CommentsPaid
  <2>4. CASE Creates(w) /\ faults' = faults
    <3>1. /\ upsert[w].step = "create" /\ upsert[w].step \in Calls
          /\ upsert'[w].step \notin Calls /\ upsert'[w].step # "create"
      BY <2>4 DEF Creates, Calls
    <3>2. CommentAwaited(pr)' => CommentAwaited(pr)
      BY <2>2, <3>1
    <3>3. CASE upsert[w].provider # pr
      <4>1. Marked(pr)' = Marked(pr) /\ m = n
        BY <2>4, <3>3 DEF Creates, Marked
      <4>2. Paid(m, T, faults') /\ (Room(n, S, faults) \/ m = 0 => Room(m, T, faults'))
        BY <1>0, <2>2, <4>1, FewerPaid
      <4>. QED BY <1>0, <3>2, <4>1, <4>2 DEF CommentsPaid
    <3>4. CASE upsert[w].provider = pr
      <4>. DEFINE c == [provider |-> pr, id |-> made + 1]
      <4>1. Marked(pr)' = Marked(pr) \cup {c}
        BY <2>4, <3>4 DEF Creates, Marked
      <4>. HIDE DEF c
      <4>2. IsFiniteSet(Marked(pr))' /\ m \in Nat /\ m <= n + 1
        <5>1. /\ IsFiniteSet(Marked(pr) \cup {c})
              /\ Cardinality(Marked(pr) \cup {c}) \in {n, n + 1}
          BY <1>0, FS_AddElement
        <5>. QED BY <1>0, <4>1, <5>1
      <4>3. CASE HoldsComment(w)
        <5>1. ~CommentAwaited(pr)'
          <6>1. \A v \in Worker \ {w} : ~HoldsComment(v)
            BY <4>3 DEF HoldsComment
          <6>. QED BY <2>1, <3>1, <6>1 DEF CommentAwaited, Moved
        <5>2. CommentAwaited(pr)
          BY <3>1, <3>4, <4>3 DEF CommentAwaited
        <5>3. Paid(m, T, faults)
          BY <1>0, <2>2, <4>2, <5>2, HolderMakes
        <5>. QED BY <2>4, <4>2, <5>1, <5>3 DEF CommentsPaid
      <4>4. CASE ~HoldsComment(w)
        <5>1. w \in S
          BY <3>1, <3>4, <4>4 DEF CommentStrays
        <5>2. Paid(m, T, faults) /\ (Room(n, S, faults) => Room(m, T, faults))
          BY <1>0, <2>2, <3>1, <4>2, <5>1, StrayMakes
        <5>. QED BY <1>0, <2>4, <3>2, <4>2, <5>2 DEF CommentsPaid
      <4>. QED BY <4>3, <4>4
    <3>. QED BY <3>3, <3>4
  <2>. QED BY <2>1, <2>3, <2>4
<1>3. CASE LoseCommentLease
  <2>1. /\ UNCHANGED <<remote, upsert>> /\ \A v \in Worker : ~HoldsComment(v)'
        /\ Marked(pr)' = Marked(pr) /\ m = n
    BY <1>3, CommentTypes DEF LoseCommentLease, HoldsComment, Marked, CommentRow
  <2>2. ~CommentAwaited(pr)'
    BY <2>1 DEF CommentAwaited
  <2>3. T \subseteq S \cup {comment.holder}
    BY <2>1, <1>3 DEF CommentStrays, HoldsComment, LoseCommentLease
  <2>4. CASE CommentAbandoned
    <3>1. T \subseteq S
      BY <2>1, <2>3, <2>4 DEF CommentStrays, CommentAbandoned
    <3>2. Paid(m, T, faults')
      BY <1>0, <2>1, <3>1, FewerPaid
    <3>. QED BY <1>0, <2>1, <2>2, <3>2 DEF CommentsPaid
  <2>5. CASE ~CommentAbandoned
    <3>1. faults' = faults + 1
      BY <1>3, <2>5 DEF LoseCommentLease
    <3>2. Paid(n, T, faults + 1)
      BY <1>0, <2>3, LossPaid
    <3>. QED BY <1>0, <2>1, <2>2, <3>1, <3>2 DEF CommentsPaid
  <2>. QED BY <2>4, <2>5
<1>4. CASE DeleteComment
  <2>1. /\ UNCHANGED <<comment, upsert>> /\ Marked(pr)' \subseteq Marked(pr)
    BY <1>4 DEF DeleteComment, Marked
  <2>2. T = S /\ (CommentAwaited(pr)' <=> CommentAwaited(pr))
    BY <2>1 DEF CommentStrays, CommentAwaited, HoldsComment
  <2>3. Paid(m, T, faults') /\ (Room(n, S, faults) => Room(m, T, faults'))
    BY <1>0, <1>1, <2>1, <2>2, FewerPaid
  <2>. QED BY <1>0, <1>1, <2>1, <2>2, <2>3 DEF CommentsPaid
<1>5. CASE UNCHANGED commentVars
  <2>1. /\ T = S /\ (CommentAwaited(pr)' <=> CommentAwaited(pr))
        /\ Marked(pr)' = Marked(pr) /\ m = n
    BY <1>5 DEF CommentStrays, CommentAwaited, HoldsComment, Marked, commentVars
  <2>2. Paid(m, T, faults') /\ (Room(n, S, faults) => Room(m, T, faults'))
    BY <1>0, <2>1, FewerPaid
  <2>. QED BY <1>0, <2>1, <2>2 DEF CommentsPaid
<1>. QED BY <1>2, <1>3, <1>4, <1>5 DEF CommentStep

LEMMA CommentStarts ==
  ASSUME CommentInit
  PROVE  CommentTyped /\ OneComment /\ \A pr \in Provider : CommentsPaid(pr)
<1>1. CommentTyped
  BY BoundsAssumption DEF CommentInit, CommentTyped, CommentTypeOK, HasProvider, Resting, Upsert, NoId
<1>2. OneComment
  BY DEF CommentInit, OneComment, CallsHold, NoneToCreate, OneEach, Resting, Calls
<1>3. ASSUME NEW pr \in Provider PROVE CommentsPaid(pr)
  <2>1. CommentStrays(pr) = {} /\ ~CommentAwaited(pr) /\ Marked(pr) = {} /\ faults = 0
    BY DEF CommentInit, CommentStrays, CommentAwaited, Marked, Resting, Calls
  <2>. QED BY <2>1, FS_EmptySet DEF CommentsPaid, Paid
<1>. QED BY <1>1, <1>2, <1>3
==================================================================================
