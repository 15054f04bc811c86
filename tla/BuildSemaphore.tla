---------------------------- MODULE BuildSemaphore ----------------------------
(***************************************************************************)
(* What maxConcurrentBuilds promises: a counting semaphore whose limit an    *)
(* operator may change at any time.  Lowering the limit evicts nobody, it    *)
(* only keeps newcomers out.                                                *)
(***************************************************************************)
EXTENDS Naturals, FiniteSets

CONSTANTS Run, MaxCapacity
VARIABLES limit, users

Init == limit \in 1..MaxCapacity /\ users = {}

Enter(r) ==
  /\ r \notin users
  /\ Cardinality(users) < limit
  /\ users' = users \cup {r}
  /\ UNCHANGED limit

Leave(r) ==
  /\ r \in users
  /\ users' = users \ {r}
  /\ UNCHANGED limit

SetLimit(n) == limit' = n /\ UNCHANGED users

Next ==
  \/ \E r \in Run : Enter(r) \/ Leave(r)
  \/ \E n \in 1..MaxCapacity : SetLimit(n)

Spec == Init /\ [][Next]_<<limit, users>>
===============================================================================
