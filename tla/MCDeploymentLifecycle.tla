------------------------- MODULE MCDeploymentLifecycle -------------------------
(* Instances of DeploymentLifecycle: two runs of one deployment, and one user    *)
(* who cancels it.                                                             *)
EXTENDS DeploymentLifecycle, TLC
CONSTANTS a, b, u
RunSymmetry == Permutations(Run)
===============================================================================
