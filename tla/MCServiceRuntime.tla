-------------------------- MODULE MCServiceRuntime --------------------------
(* One service; one request to its routes.                                 *)
EXTENDS ServiceRuntime
CONSTANT r1
OneRequest == {r1}
=============================================================================
