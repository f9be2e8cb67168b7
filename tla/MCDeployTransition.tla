------------------------- MODULE MCDeployTransition -------------------------
(* DeployTransition with two deployments: the first of the service, and one *)
(* that replaces it.                                                        *)
EXTENDS DeployTransition

TwoDeployments == {1, 2}

=============================================================================
