-------------------------- MODULE MCNodeLifecycle --------------------------
(***************************************************************************)
(* Instances of NodeLifecycle for TLC.                                     *)
(***************************************************************************)
EXTENDS NodeLifecycle

AllKinds == {"stop", "start", "restart", "deploy"}

=============================================================================
