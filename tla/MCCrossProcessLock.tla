------------------------ MODULE MCCrossProcessLock ------------------------
(* Three processes on one data directory.                                  *)
EXTENDS CrossProcessLock
CONSTANTS p1, p2, p3
ThreeProc == {p1, p2, p3}
=============================================================================
