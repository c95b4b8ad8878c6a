---------------------------- MODULE MCDeployment ----------------------------
(* Deployment for the model checker: interchangeable versions and requests.  *)
EXTENDS Deployment, TLC

Alike == Permutations(Packages) \cup Permutations(Deployments) \cup Permutations(Requests)
=============================================================================
