--------------------------- MODULE MCDeploymentQueue ---------------------------
(* Instances of DeploymentQueue: an upload that is sent twice, or two uploads,  *)
(* beside a deployment created without a reservation.                          *)
EXTENDS DeploymentQueue, TLC
CONSTANTS a, b, x, y, d
SentTwice == a :> x @@ b :> x
TwoUploads == a :> x @@ b :> y
===============================================================================
