------------------------------ MODULE MCCanary ------------------------------
(* Canary on small instances; the bounds are in the configurations.        *)
EXTENDS Canary
=============================================================================
