-------------------------- MODULE MCDeploymentClaims --------------------------
(* Instances of DeploymentClaims on one server: three deployments of two      *)
(* services, of which the second and the third build an image, or two image   *)
(* deployments of one service.                                               *)
EXTENDS DeploymentClaims, TLC
CONSTANTS p, web, db, host
TwoServices == 1 :> web @@ 2 :> web @@ 3 :> db
OneServer == [d \in Deployment |-> host]
===============================================================================
