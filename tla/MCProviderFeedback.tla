--------------------------- MODULE MCProviderFeedback ---------------------------
(* Instances of ProviderFeedback: two deployments of one pull request, of which  *)
(* one reports two transitions.                                                *)
EXTENDS ProviderFeedback, TLC
CONSTANTS p, q, x, y, gh
TwoAndOne == x :> 2 @@ y :> 1
================================================================================
