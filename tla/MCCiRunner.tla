---------------------------- MODULE MCCiRunner ----------------------------
(* A CI job on one runner.                                                 *)
EXTENDS CiRunner
CONSTANT r1
OneRunner == {r1}
=============================================================================
