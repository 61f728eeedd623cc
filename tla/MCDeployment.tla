------------------------------ MODULE MCDeployment --------------------------------
(* Deployment for TLC: requests, and the processes of each script, are
   interchangeable.  Requests come once, so the system may stop. *)
EXTENDS Deployment, TLC

DeploymentSymmetry == Permutations(Requests) \cup Permutations(Runners) \cup Permutations(Seeders)

===================================================================================
