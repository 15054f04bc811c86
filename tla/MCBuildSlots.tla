------------------------------ MODULE MCBuildSlots ------------------------------
(* Instances of BuildSlots: two deployments with one run each (contention), and *)
(* one deployment that two workers execute behind an older one whose worker died *)
(* before it began (fencing).                                                   *)
EXTENDS BuildSlots, TLC
CONSTANTS a, b
OneRunEach == a :> 1 @@ b :> 2
TwoRunsOfOne == a :> 2 @@ b :> 2
=================================================================================
