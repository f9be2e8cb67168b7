------------------------------ MODULE CiJobLife ------------------------------
(***************************************************************************)
(* The life of a CI job as docs and callers know it (apps/server/src/lib/  *)
(* ci.ts, lib/ciDeployGate.ts): approved at most once, tried at most       *)
(* MaxAttempts times, counted at most once.  CiRunner implements it with   *)
(* attempts, leases and conditional updates; DeployGates builds on it.     *)
(***************************************************************************)
EXTENDS Naturals

CONSTANTS Jobs, MaxAttempts

VARIABLES
    life,   \* [Jobs -> Lives]
    tries   \* [Jobs -> 0..MaxAttempts]

Over == {"succeeded", "failed", "cancelled"}
Live == {"awaiting_approval", "queued", "running"}
Lives == {"none"} \cup Live \cup Over

TypeOK == life \in [Jobs -> Lives] /\ tries \in [Jobs -> 0..MaxAttempts]

Init == life = [j \in Jobs |-> "none"] /\ tries = [j \in Jobs |-> 0]

Becomes(j, s) == life' = [life EXCEPT ![j] = s]

Submit(j) ==
    /\ life[j] = "none"
    /\ \E s \in {"awaiting_approval", "queued"} : Becomes(j, s)
    /\ UNCHANGED tries

Approve(j) == life[j] = "awaiting_approval" /\ Becomes(j, "queued") /\ UNCHANGED tries

Start(j) ==
    /\ life[j] = "queued" /\ tries[j] < MaxAttempts
    /\ Becomes(j, "running")
    /\ tries' = [tries EXCEPT ![j] = @ + 1]

\* Only a lost try is repeated, and only while tries are left.
Retry(j) == life[j] = "running" /\ tries[j] < MaxAttempts /\ Becomes(j, "queued") /\ UNCHANGED tries

Finish(j) ==
    /\ life[j] = "running"
    /\ \E s \in {"succeeded", "failed"} : Becomes(j, s)
    /\ UNCHANGED tries

Cancel(j) == life[j] \in Live /\ Becomes(j, "cancelled") /\ UNCHANGED tries

Next == \E j \in Jobs : \/ Submit(j) \/ Approve(j) \/ Start(j)
                        \/ Retry(j) \/ Finish(j) \/ Cancel(j)

Spec == Init /\ [][Next]_<<life, tries>>
=============================================================================
