------------------------------- MODULE Canary -------------------------------
(***************************************************************************)
(* Canary releases of one routed docker service: the pipeline moves a      *)
(* growing share of the traffic to its candidate (engine/canary.ts), the   *)
(* split lives in an in-memory registry (engine/canaryState.ts) that every *)
(* routing write of the panel renders, and the recovery of primary         *)
(* transitions (engine/primaryRecovery.ts) takes over a deployment whose   *)
(* lease lapsed while its pipeline may still run.  The worker runs one     *)
(* pipeline of a service at a time (DeployWorker), and the next deployment *)
(* waits until the transition is settled.  Runtimes: 0 is what serves      *)
(* first, d the candidate of deployment d.  Weights, measurements and      *)
(* probes are the choice to pass or to fail; the containers of a release   *)
(* stop in one step (DeployTransition takes that step apart).              *)
(***************************************************************************)
EXTENDS Naturals

CONSTANTS
    N,            \* deployments 1..N, in this order
    Steps,        \* traffic steps of a canary
    MaxFaults,    \* routing writes and recovery attempts that fail
    MaxSick,      \* health checks of a serving release that fail
    MaxLapses,    \* leases that lapse under a running pipeline
    MaxCancels,
    MaxCrashes    \* panel restarts

ASSUME CanaryAssumption ==
    /\ {N, Steps} \subseteq Nat \ {0}
    /\ {MaxFaults, MaxSick, MaxLapses, MaxCancels, MaxCrashes} \subseteq Nat

Runtime == 0..N
None == [dep |-> 0, stable |-> 0, step |-> 0, promote |-> FALSE]
Budget == {"fault", "sick", "lapse", "cancel", "crash"}
Limit == [b \in Budget |-> CASE b = "fault" -> MaxFaults [] b = "sick" -> MaxSick
                             [] b = "lapse" -> MaxLapses [] b = "cancel" -> MaxCancels
                             [] OTHER -> MaxCrashes]

VARIABLES
    dep,        \* the newest deployment, 0 before the first
    prev,       \* what served when it began
    status,     \* its row: in progress, cancelled, or settled
    pc,         \* where its pipeline is
    tries,      \* routing writes of the current attempt that failed
    active,     \* the registry: the canary in progress, step 0 before the first split
    row,        \* services.runtimeId
    loaded,     \* the routes Traefik has: [stable, canary], canary 0 for no split
    up,         \* runtimes with running containers
    journal,    \* the transition: who holds its lease
    intends,    \* its desired runtime is the candidate
    touched,    \* its routingTouched
    confirmed,  \* the lease's holder has confirmed the routes of the current row
    interrupted,\* a restart of the panel left the transition behind
    rec,        \* where the recovery is
    seen,       \* the deployment's status the recovery works with
    asked,      \* deployments an operator asked to promote
    passed,     \* steps the canary passed
    spent

pipeline == <<dep, prev, pc, tries>>
lease == <<journal, intends, touched, confirmed, interrupted>>
recovery == <<rec, seen>>
ghosts == <<asked, passed>>
vars == <<pipeline, status, active, row, loaded, up, lease, recovery, ghosts, spent>>

Stages == {"idle", "begin", "step", "before", "write", "watch", "catch", "rollback", "held",
           "final", "unwind", "flip", "revert", "retire", "switch", "drain"}

TypeOK ==
    /\ dep \in 0..N /\ prev \in Runtime /\ row \in Runtime /\ up \subseteq Runtime
    /\ status \in {"active", "cancelled", "done"}
    /\ pc \in Stages /\ tries \in 0..1
    /\ active \in [dep : 0..N, stable : Runtime, step : 0..Steps, promote : BOOLEAN]
    /\ loaded \in [stable : Runtime, canary : Runtime]
    /\ journal \in {"none", "pipe", "free", "rec"}
    /\ {intends, touched, confirmed, interrupted} \subseteq BOOLEAN
    /\ rec \in {"idle", "claimed", "select", "confirm", "retire"}
    /\ (rec # "idle") = (journal = "rec")
    /\ seen \in {"active", "cancelled", "done"}
    /\ asked \subseteq 1..N /\ passed \in 0..Steps
    /\ spent \in [Budget -> Nat] /\ \A b \in Budget : spent[b] <= Limit[b]

Init ==
    /\ dep = 0 /\ prev = 0 /\ status = "done" /\ pc = "idle" /\ tries = 0
    /\ active = None /\ row = 0 /\ up = {0} /\ loaded = [stable |-> 0, canary |-> 0]
    /\ journal = "none" /\ intends = FALSE /\ touched = FALSE /\ confirmed = FALSE
    /\ interrupted = FALSE /\ rec = "idle" /\ seen = "done"
    /\ asked = {} /\ passed = 0 /\ spent = [b \in Budget |-> 0]

Spend(b) == spent[b] < Limit[b] /\ spent' = [spent EXCEPT ![b] = @ + 1]
Owned == active.dep = dep
Leased == journal = "pipe"

\* The proxy render: the split is for the runtime the canary was measured against.
Render == [stable |-> row,
           canary |-> IF active.step > 0 /\ active.stable = row THEN active.dep ELSE 0]

\* A routing write that is confirmed; one that fails may have been loaded all the same.
WriteOk == loaded' = Render /\ UNCHANGED spent
WriteFails == loaded' \in {loaded, Render} /\ Spend("fault")

\* The pipeline ends; a transition it could not complete is released to the
\* recovery, and its row settles unless the lease was lost.
Leave ==
    /\ pc' = "idle" /\ journal' = IF Leased THEN "free" ELSE journal
    /\ status' = IF Leased /\ status = "active" THEN "done" ELSE status
    /\ UNCHANGED <<dep, prev, tries, intends, touched, confirmed, interrupted>>
Goto(stage) == /\ pc' = stage /\ UNCHANGED <<dep, prev, tries, status, lease>>
GotoWith(stage, sure) ==
    /\ pc' = stage /\ tries' = 0 /\ confirmed' = sure
    /\ UNCHANGED <<dep, prev, status, journal, intends, touched, interrupted>>
\* One container generation is gone and the transition complete.
Complete(r) ==
    /\ up' = up \ {r} /\ pc' = "idle" /\ journal' = "none"
    /\ status' = IF status = "active" THEN "done" ELSE status
    /\ UNCHANGED <<dep, prev, tries, intends, touched, confirmed, interrupted>>

-----------------------------------------------------------------------------
(* The pipeline: the traffic steps                                         *)

\* No transition is pending and no pipeline runs: the candidate is up and the
\* transition is journalled.  (A row whose pipeline lost its lease was settled
\* by the worker's sweep before.)
Deploy ==
    /\ pc = "idle" /\ journal = "none" /\ dep < N
    /\ dep' = dep + 1 /\ prev' = row /\ up' = up \cup {dep + 1} /\ pc' = "begin" /\ tries' = 0
    /\ status' = "active" /\ journal' = "pipe" /\ passed' = 0
    /\ intends' = FALSE /\ touched' = FALSE /\ confirmed' = FALSE /\ interrupted' = FALSE
    /\ UNCHANGED <<active, row, loaded, recovery, asked, spent>>

\* beginCanary, refused while a canary owns the routing; a deployment that is
\* already cancelled has touched no route and retires its candidate.
Begin ==
    /\ pc = "begin"
    /\ IF ~Leased \/ active # None THEN Leave /\ UNCHANGED active
       ELSE IF status = "cancelled" THEN Goto("retire") /\ UNCHANGED active
       ELSE /\ active' = [dep |-> dep, stable |-> prev, step |-> 0, promote |-> FALSE]
            /\ Goto("step")
    /\ UNCHANGED <<row, loaded, up, recovery, ghosts, spent>>

\* The checkpoint around every part of a step: lease, cancel, ownership.
Checked == Leased /\ status # "cancelled" /\ Owned

\* setCanaryStep: the next share, for every routing write from now on.
SetStep ==
    /\ pc = "step"
    /\ IF Checked THEN active' = [active EXCEPT !.step = @ + 1] /\ Goto("before")
       ELSE Goto("catch") /\ UNCHANGED active
    /\ UNCHANGED <<row, loaded, up, recovery, ghosts, spent>>

\* beforeCanaryRouting: the journal says that the routing is touched, for the
\* previous release, and what was confirmed before counts no more.
Before ==
    /\ pc = "before"
    /\ IF Leased
       THEN /\ pc' = "write" /\ touched' = TRUE /\ intends' = FALSE /\ confirmed' = FALSE
            /\ UNCHANGED <<dep, prev, tries, status, journal, interrupted>>
       ELSE Goto("catch")
    /\ UNCHANGED <<active, row, loaded, up, recovery, ghosts, spent>>

WriteStep ==
    /\ pc = "write"
    /\ \/ WriteOk /\ IF Checked THEN GotoWith("watch", TRUE) ELSE Goto("catch")
       \/ WriteFails /\ Goto("catch")
    /\ UNCHANGED <<active, row, up, recovery, ghosts>>

\* Fault: a promotion of an earlier deployment still counts.
WatchAny ==
    /\ pc = "watch"
    /\ \/ /\ Checked /\ passed' = active.step
          /\ Goto(IF active.step = Steps THEN "held" ELSE "step")
       \/ Checked /\ asked # {} /\ Goto("held") /\ UNCHANGED passed
       \/ Goto("catch") /\ UNCHANGED passed
    /\ UNCHANGED <<active, row, loaded, up, recovery, asked, spent>>

\* The step is watched: it passes, a promotion ends the canary, or it fails.
Watch ==
    /\ pc = "watch"
    /\ \/ /\ Checked /\ passed' = active.step
          /\ Goto(IF active.step = Steps THEN "held" ELSE "step")
       \/ Checked /\ active.promote /\ Goto("held") /\ UNCHANGED passed
       \/ Goto("catch") /\ UNCHANGED passed
    /\ UNCHANGED <<active, row, loaded, up, recovery, asked, spent>>

\* The catch of runCanary: only the own canary is ended.
Catch ==
    /\ pc = "catch"
    /\ IF Owned THEN active' = None /\ GotoWith("rollback", confirmed)
       ELSE Leave /\ UNCHANGED active
    /\ UNCHANGED <<row, loaded, up, recovery, ghosts, spent>>

\* Fault: the candidate is retired once the rollback was tried.
RollbackTried ==
    /\ pc = "rollback" /\ Leased
    /\ WriteOk \/ WriteFails
    /\ GotoWith("retire", TRUE)
    /\ UNCHANGED <<active, row, up, recovery, ghosts>>

\* The split is written away, twice if need be; unconfirmed, both releases stay.
Rollback ==
    /\ pc = "rollback"
    /\ \/ (active # None \/ ~Leased) /\ Leave /\ UNCHANGED <<loaded, spent>>
       \/ active = None /\ Leased /\ WriteOk /\ GotoWith("retire", TRUE)
       \/ /\ active = None /\ Leased /\ WriteFails
          /\ IF tries = 1 THEN Leave
             ELSE /\ tries' = 1 /\ confirmed' = FALSE
                  /\ UNCHANGED <<dep, prev, pc, status, journal, intends, touched, interrupted>>
    /\ UNCHANGED <<active, row, up, recovery, ghosts>>

-----------------------------------------------------------------------------
(* The pipeline: the switch of all traffic                                 *)

\* The candidate is verified once more with the split in place: the journal
\* says it shall serve, or the split is taken back.
Held ==
    /\ pc = "held"
    /\ \/ ~Leased /\ Leave /\ UNCHANGED active
       \/ /\ Leased /\ pc' = "final" /\ touched' = TRUE /\ intends' = TRUE /\ confirmed' = FALSE
          /\ UNCHANGED <<dep, prev, tries, status, journal, interrupted, active>>
       \/ /\ Leased /\ IF Owned THEN active' = None /\ GotoWith("revert", confirmed)
                       ELSE Leave /\ UNCHANGED active
    /\ UNCHANGED <<row, loaded, up, recovery, ghosts, spent>>

\* The canary is over: the row is the candidate's, or a late cancel unwinds it.
Final ==
    /\ pc = "final"
    /\ IF ~Owned \/ ~Leased THEN Leave /\ UNCHANGED row
       ELSE IF status = "cancelled" THEN GotoWith("unwind", FALSE) /\ UNCHANGED row
       ELSE GotoWith("flip", FALSE) /\ row' = dep
    /\ active' = IF Owned THEN None ELSE active
    /\ UNCHANGED <<loaded, up, recovery, ghosts, spent>>

\* The late cancel writes the routes without its lease, which therefore
\* refuses to stop the candidate: the recovery does.
Unwind ==
    /\ pc = "unwind"
    /\ WriteOk \/ WriteFails
    /\ Leave
    /\ UNCHANGED <<active, row, up, recovery, ghosts>>

\* The switch, tried twice; then the row goes back to the previous release,
\* and the candidate stays when nobody knows what is loaded.
Flip ==
    /\ pc = "flip"
    /\ \/ ~Leased /\ Leave /\ UNCHANGED <<loaded, row, spent>>
       \/ Leased /\ WriteOk /\ GotoWith("switch", TRUE) /\ UNCHANGED row
       \/ /\ Leased /\ tries = 0 /\ WriteFails /\ tries' = 1
          /\ UNCHANGED <<dep, prev, pc, status, lease, row>>
       \/ /\ Leased /\ tries = 1 /\ WriteFails /\ row' = prev
          /\ GotoWith("revert", FALSE) \/ Leave
    /\ UNCHANGED <<active, up, recovery, ghosts>>

\* One routing write back to the previous release before the candidate goes.
Revert ==
    /\ pc = "revert"
    /\ \/ ~Leased /\ Leave /\ UNCHANGED <<loaded, spent>>
       \/ Leased /\ WriteOk /\ GotoWith("retire", TRUE)
       \/ Leased /\ WriteFails /\ Leave
    /\ UNCHANGED <<active, row, up, recovery, ghosts>>

\* lease.retire of the candidate: not the selected release, and no route that
\* was touched is unconfirmed.
Retire ==
    /\ pc = "retire"
    /\ IF Leased /\ active = None /\ row # dep /\ (touched => confirmed)
       THEN Complete(dep) ELSE Leave /\ UNCHANGED up
    /\ UNCHANGED <<active, row, loaded, recovery, ghosts, spent>>

\* Fault: a cancel during the switch is overwritten.
SwitchAnyway ==
    /\ pc = "switch"
    /\ IF ~Leased THEN Leave
       ELSE /\ pc' = "drain" /\ status' = "done" /\ UNCHANGED <<dep, prev, tries, lease>>
    /\ UNCHANGED <<active, row, loaded, up, recovery, ghosts, spent>>

\* The deployment is live, or a cancel during the switch takes it back; with an
\* unhealthy previous release the candidate is left in place.
Switch ==
    /\ pc = "switch"
    /\ \/ ~Leased /\ Leave /\ UNCHANGED <<row, spent>>
       \/ /\ Leased /\ status # "cancelled" /\ pc' = "drain" /\ status' = "done"
          /\ UNCHANGED <<dep, prev, tries, lease, row, spent>>
       \/ /\ Leased /\ status = "cancelled" /\ row' = prev /\ GotoWith("revert", FALSE)
          /\ UNCHANGED spent
       \/ Leased /\ status = "cancelled" /\ Spend("sick") /\ Leave /\ UNCHANGED row
    /\ UNCHANGED <<active, loaded, up, recovery, ghosts>>

\* lease.retire of the previous release.
Drain ==
    /\ pc = "drain"
    /\ IF Leased /\ row # prev /\ (touched => confirmed)
       THEN Complete(prev) ELSE Leave /\ UNCHANGED up
    /\ UNCHANGED <<active, row, loaded, recovery, ghosts, spent>>

-----------------------------------------------------------------------------
(* The recovery of primary transitions                                     *)

\* A transition without a lease is claimed.
RecoverClaim ==
    /\ journal = "free" /\ journal' = "rec" /\ rec' = "claimed" /\ confirmed' = FALSE
    /\ UNCHANGED <<pipeline, status, active, row, loaded, up, intends, touched, interrupted, seen,
                   ghosts, spent>>

\* Fault: the canary of the lost pipeline keeps its entry.
EndNothing ==
    /\ rec = "claimed" /\ rec' = "select" /\ seen' = status
    /\ UNCHANGED <<pipeline, status, active, row, loaded, up, lease, ghosts, spent>>

\* The attempt ends and the transition waits for the next one.
RecoverGivesUp ==
    /\ rec' = "idle" /\ journal' = "free"
    /\ UNCHANGED <<seen, intends, touched, confirmed, interrupted>>

\* What is left is looked at, which may fail, and the canary ended.
RecoverEnd ==
    /\ rec = "claimed"
    /\ \/ rec' = "select" /\ seen' = status /\ active' = None /\ UNCHANGED <<lease, spent>>
       \/ Spend("fault") /\ RecoverGivesUp /\ UNCHANGED active
    /\ UNCHANGED <<pipeline, status, row, loaded, up, ghosts>>

\* Which release shall serve: the row's own; the candidate of an interrupted
\* switch; the previous one when it was cancelled.
Selected ==
    IF seen = "cancelled" THEN prev
    ELSE IF interrupted /\ seen = "active" /\ intends THEN dep
    ELSE row

\* An unhealthy release is replaced by the previous one after an
\* interrupted switch, by the row's own after a cancel, or ends the attempt.
RecoverSelect ==
    /\ rec = "select"
    /\ \/ /\ status = seen /\ row' = Selected /\ rec' = "confirm"
          /\ UNCHANGED <<lease, seen, spent>>
       \/ /\ status = seen /\ Spend("sick") /\ rec' = "confirm" /\ UNCHANGED <<lease, seen>>
          /\ \/ seen = "cancelled" /\ UNCHANGED row
             \/ interrupted /\ seen = "active" /\ Selected = dep /\ row' = prev
       \/ status # seen /\ RecoverGivesUp /\ UNCHANGED <<row, spent>>
       \/ Spend("sick") /\ RecoverGivesUp /\ UNCHANGED row
    /\ UNCHANGED <<pipeline, status, active, loaded, up, ghosts>>

\* The routes of the row are confirmed; an interrupted deployment is settled.
RecoverConfirm ==
    /\ rec = "confirm"
    /\ \/ /\ status = seen /\ WriteOk /\ rec' = "retire" /\ confirmed' = TRUE
          /\ status' = IF interrupted /\ seen = "active" THEN "done" ELSE status
          /\ seen' = status' /\ UNCHANGED <<journal, intends, touched, interrupted>>
       \/ status # seen /\ WriteOk /\ RecoverGivesUp /\ UNCHANGED status
       \/ WriteFails /\ RecoverGivesUp /\ UNCHANGED status
    /\ UNCHANGED <<pipeline, active, row, up, ghosts>>

\* After the drain the other release is stopped and the journal removed.
RecoverRetire ==
    /\ rec = "retire"
    /\ IF status # seen THEN RecoverGivesUp /\ UNCHANGED up
       ELSE /\ up' = up \ ({prev, dep} \ {row}) /\ rec' = "idle" /\ journal' = "none"
            /\ UNCHANGED <<seen, intends, touched, confirmed, interrupted>>
    /\ UNCHANGED <<pipeline, status, active, row, loaded, ghosts, spent>>

-----------------------------------------------------------------------------
(* Everybody else                                                          *)

\* A domain edit, another service's deployment, the start of the panel: the
\* routes of all services are written.
OtherWrite ==
    /\ loaded # Render /\ loaded' = Render
    /\ UNCHANGED <<pipeline, status, active, row, up, lease, recovery, ghosts, spent>>

\* POST .../canary/promote, for the deployment whose canary is in progress.
Promote(d) ==
    /\ active.dep = d /\ ~active.promote
    /\ active' = [active EXCEPT !.promote = TRUE] /\ asked' = asked \cup {d}
    /\ UNCHANGED <<pipeline, status, row, loaded, up, lease, recovery, passed, spent>>

\* POST .../cancel, while the row is in progress.
Cancel ==
    /\ status = "active" /\ Spend("cancel") /\ status' = "cancelled"
    /\ UNCHANGED <<pipeline, active, row, loaded, up, lease, recovery, ghosts>>

\* The pipeline cannot renew its lease in time.
Lapse ==
    /\ Leased /\ Spend("lapse") /\ journal' = "free"
    /\ UNCHANGED <<pipeline, status, active, row, loaded, up, intends, touched, confirmed, interrupted,
                   recovery, ghosts>>

\* The panel dies: registry, pipeline and recovery are gone; the boot marks the
\* transition interrupted, and its lease runs out.
Crash ==
    /\ Spend("crash") /\ active' = None /\ pc' = "idle" /\ rec' = "idle"
    /\ journal' = IF journal = "none" THEN "none" ELSE "free"
    /\ interrupted' = (journal # "none" /\ (interrupted \/ status = "active"))
    /\ UNCHANGED <<dep, prev, tries, status, row, loaded, up, intends, touched, confirmed, seen, ghosts>>

Pipeline ==
    \/ Begin \/ SetStep \/ Before \/ WriteStep \/ Watch \/ Catch \/ Rollback
    \/ Held \/ Final \/ Unwind \/ Flip \/ Revert \/ Retire \/ Switch \/ Drain
Recovery == RecoverClaim \/ RecoverEnd \/ RecoverSelect \/ RecoverConfirm \/ RecoverRetire

Next ==
    \/ Deploy \/ Pipeline \/ Recovery \/ OtherWrite
    \/ \E d \in 1..N : Promote(d)
    \/ Cancel \/ Lapse \/ Crash

Spec == Init /\ [][Next]_vars

\* Every wait of a pipeline has an end, and the recovery runs every minute.
Fairness == WF_vars(Pipeline) /\ WF_vars(Recovery)
FairSpec == Spec /\ Fairness

-----------------------------------------------------------------------------
(* Properties                                                              *)

\* "Route everything back before the pipeline stops the new container"
\* (canary.ts:215): no release that the loaded routes send traffic to is
\* stopped, whoever wrote the routes last and whoever stops it.
RoutedIsUp == {loaded.stable, loaded.canary} \ {0} \subseteq up /\ (loaded.stable = 0 => 0 \in up)

\* All traffic goes to a candidate only after every step passed, or after an
\* operator asked to promote this very deployment (canary.ts:173-203).
SwitchIsEarned == row = dep /\ dep > 0 => passed = Steps \/ dep \in asked

\* A split always ends, and its transition too, whatever failed on the way:
\* no split is left in the registry or in the routes (endCanary by everyone who
\* may have to), and the next deployment can begin.
CanarySettles ==
    (journal # "none") ~>
        (journal = "none" /\ active = None /\ loaded = [stable |-> row, canary |-> 0])

\* "stops a canary: all traffic goes back to the previous release"
\* (docs/AI_MCP_CLI.md:300): a cancel that was accepted ends with the previous
\* release serving everything, if its health checks pass and the pipeline keeps
\* its lease.
CancelReturns ==
    [](spent["sick"] = 0 /\ spent["lapse"] = 0) =>
    ((status = "cancelled" /\ journal # "none") ~>
        (journal = "none" /\ loaded = [stable |-> prev, canary |-> 0]))
=============================================================================
