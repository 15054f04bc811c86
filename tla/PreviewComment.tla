----------------------------- MODULE PreviewComment -----------------------------
(* The one comment a pull request carries about its preview. Deployments of the  *)
(* pull request are reported by several processors, each of which lists, updates *)
(* or creates the comment at the provider while it holds the lease of the        *)
(* comment's database row. The calls can fail, a response can be lost after the  *)
(* call took effect, a processor can die, a user can delete the comment, and the *)
(* project can move to another provider.                                        *)
(*                                                                             *)
(* A lease is a holder and whether it is unexpired; the heartbeat keeps a lease  *)
(* alive, and LoseCommentLease is the expiry it did not prevent. The token is    *)
(* fresh for every claim, so a worker that claimed and is still at work holds    *)
(* the row's lease exactly when it is the row's holder.                         *)
EXTENDS Naturals, FiniteSets

CONSTANTS
    Worker,       \* the processors that report feedback
    Provider,     \* the Git providers the project can be linked to
    None,         \* no worker, no provider
    MaxFaults,    \* how many crashes and lost leases a behaviour has
    MaxDeletes,   \* how many comments users delete
    Failures,     \* the verdicts a provider call can fail with
    Timely        \* TRUE: a live worker keeps its lease while it calls the provider

ASSUME NoneAssumption == None \notin Worker \cup Provider
ASSUME BoundsAssumption == MaxFaults \in Nat /\ MaxDeletes \in Nat /\ Timely \in BOOLEAN
ASSUME FailuresAssumption == Failures \subseteq {"retry", "reject"}

VARIABLES
    comment,  \* the database row: the provider and id it recorded, and its lease
    remote,   \* the comments with the marker on the pull request
    made,     \* how many comments were created; their ids count them
    deleted,  \* how many comments users deleted
    upsert,   \* what each worker is doing to the comment
    faults    \* how many crashes and lost leases happened

commentVars == <<comment, remote, made, deleted, upsert>>

NoId == 0
Calls == {"find", "update", "find again", "update again", "create"}
Verdicts == {"done", "retry", "reject"}
Upsert == [step : {"idle", "claim", "save"} \cup Calls \cup Verdicts,
           provider : Provider \cup {None}, id : Nat]
Resting == [step |-> "idle", provider |-> None, id |-> NoId]

CommentInit ==
    /\ comment = [provider |-> None, id |-> NoId, holder |-> None, live |-> FALSE]
    /\ remote = {}
    /\ made = 0
    /\ deleted = 0
    /\ upsert = [w \in Worker |-> Resting]
    /\ faults = 0

HoldsComment(w) == comment.holder = w /\ comment.live
Marked(pr) == {c \in remote : c.provider = pr}

Go(w, step, id) == upsert' = [upsert EXCEPT ![w].step = step, ![w].id = id]
Tokenless == [comment EXCEPT !.holder = None]
Unleased == [comment EXCEPT !.holder = None, !.live = FALSE]
LeaveComment(w) == comment' = IF HoldsComment(w) THEN Unleased ELSE comment

(* The row is locked, and its lease compared with the database clock. The id is *)
(* forgotten when another provider recorded it.                                *)
ClaimComment(w) ==
    LET pr == upsert[w].provider
        id == IF comment.provider = pr THEN comment.id ELSE NoId
    IN  /\ upsert[w].step = "claim"
        /\ \/ /\ comment.live
              /\ Go(w, "retry", NoId)
              /\ UNCHANGED comment
           \/ /\ ~comment.live
              /\ comment' = [provider |-> pr, id |-> id, holder |-> w, live |-> TRUE]
              /\ Go(w, IF id = NoId THEN "find" ELSE "update", id)
        /\ UNCHANGED <<remote, made, deleted, faults>>

(* Lists the comments and looks for the marker. *)
FindComment(w) ==
    LET found == Marked(upsert[w].provider)
    IN  /\ upsert[w].step \in {"find", "find again"}
        /\ \/ \E c \in found :
                Go(w, IF upsert[w].step = "find" THEN "update" ELSE "update again", c.id)
           \/ found = {} /\ Go(w, "create", NoId)
        /\ UNCHANGED <<comment, remote, made, deleted, faults>>

(* A first update that finds no comment looks for the marker once more; a second *)
(* one gives up, and the failure releases the lease.                            *)
UpdateComment(w) ==
    LET present == [provider |-> upsert[w].provider, id |-> upsert[w].id] \in remote
    IN  /\ \/ /\ upsert[w].step \in {"update", "update again"} /\ present
              /\ Go(w, "save", upsert[w].id)
              /\ UNCHANGED comment
           \/ /\ upsert[w].step = "update" /\ ~present
              /\ Go(w, "find again", NoId)
              /\ UNCHANGED comment
           \/ /\ upsert[w].step = "update again" /\ ~present
              /\ Go(w, "reject", NoId)
              /\ LeaveComment(w)
        /\ UNCHANGED <<remote, made, deleted, faults>>

(* The comment is created; its response may be lost. *)
CreateComment(w) ==
    /\ upsert[w].step = "create"
    /\ made' = made + 1
    /\ remote' = remote \cup {[provider |-> upsert[w].provider, id |-> made + 1]}
    /\ \/ Go(w, "save", made + 1) /\ UNCHANGED comment
       \/ "retry" \in Failures /\ Go(w, "retry", NoId) /\ LeaveComment(w)
    /\ UNCHANGED <<deleted, faults>>

(* A call that did not take effect. The lease is given up, if it is still held. *)
CommentCallFails(w) ==
    /\ upsert[w].step \in Calls
    /\ \E verdict \in Failures : Go(w, verdict, NoId)
    /\ LeaveComment(w)
    /\ UNCHANGED <<remote, made, deleted, faults>>

(* The id is recorded under the lease; without it the upsert is to be retried. *)
SaveComment(w) ==
    /\ upsert[w].step = "save"
    /\ IF HoldsComment(w)
       THEN /\ comment' = [Unleased EXCEPT !.id = upsert[w].id]
            /\ Go(w, "done", upsert[w].id)
       ELSE Go(w, "retry", NoId) /\ UNCHANGED comment
    /\ UNCHANGED <<remote, made, deleted, faults>>

CommentAbandoned ==
    comment.live /\ upsert[comment.holder].step \notin Calls \cup {"save"}

(* The lease expires. The expiry of a lease whose worker is alive and at work is *)
(* a fault; a Timely one does not befall a worker that calls the provider.       *)
LoseCommentLease ==
    /\ comment.live
    /\ comment' = [comment EXCEPT !.live = FALSE]
    /\ IF CommentAbandoned
       THEN UNCHANGED faults
       ELSE /\ Timely => upsert[comment.holder].step \notin Calls
            /\ faults < MaxFaults
            /\ faults' = faults + 1
    /\ UNCHANGED <<remote, made, deleted, upsert>>

(* A user deletes the comment at the provider. *)
DeleteComment ==
    /\ deleted < MaxDeletes
    /\ \E c \in remote : remote' = remote \ {c}
    /\ deleted' = deleted + 1
    /\ UNCHANGED <<comment, made, upsert, faults>>

UpsertStep(w) ==
    \/ ClaimComment(w)
    \/ FindComment(w)
    \/ UpdateComment(w)
    \/ CreateComment(w)
    \/ CommentCallFails(w)
    \/ SaveComment(w)

CommentTypeOK ==
    /\ comment \in [provider : Provider \cup {None}, id : Nat,
                    holder : Worker \cup {None}, live : BOOLEAN]
    /\ comment.live => comment.holder # None
    /\ remote \subseteq [provider : Provider, id : 1..made]
    /\ made \in Nat
    /\ deleted \in 0..MaxDeletes
    /\ upsert \in [Worker -> Upsert]
    /\ faults \in 0..MaxFaults
================================================================================
