---------------------------- MODULE MCBuildSlots ----------------------------
(* BuildSlots on a small host: the operator may move the concurrency        *)
(* between an invalid value, two and a value above the allowed range, and   *)
(* reads of it may fail.                                                    *)
EXTENDS BuildSlots

CONSTANTS b1, b2, b3, b4, down

FourBuilds == {b1, b2, b3, b4}
FourCapacities == {down, 0, 2, 9}
=============================================================================
