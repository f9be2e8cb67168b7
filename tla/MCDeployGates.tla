--------------------------- MODULE MCDeployGates ---------------------------
(* Deployments of one service behind the gates an operator turns on.       *)
EXTENDS DeployGates
=============================================================================
