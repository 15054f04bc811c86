----------------------------- MODULE FeedbackStream -----------------------------
(* What provider feedback promises for each deployment: the provider shows the   *)
(* deployment's transitions in the order they happened, each at most once, on    *)
(* one external deployment. A transition may be left out, never put back later.  *)
EXTENDS Naturals, Sequences

CONSTANT Target

VARIABLES
    queued,    \* how many transitions each deployment has reported
    published  \* the transitions the provider shows, by their number

Init == queued = [t \in Target |-> 0] /\ published = [t \in Target |-> <<>>]

Queue(t) == queued' = [queued EXCEPT ![t] = @ + 1] /\ UNCHANGED published

Publish(t) ==
    /\ \E i \in 1..queued[t] :
          /\ \A k \in DOMAIN published[t] : published[t][k] < i
          /\ published' = [published EXCEPT ![t] = Append(@, i)]
    /\ UNCHANGED queued

Next == \E t \in Target : Queue(t) \/ Publish(t)

Spec == Init /\ [][Next]_<<queued, published>>
================================================================================
