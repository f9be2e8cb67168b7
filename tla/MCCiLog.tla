------------------------------ MODULE MCCiLog ------------------------------
(* A log of a few chunks.                                                  *)
EXTENDS CiLog
=============================================================================
