-------------------------- MODULE DeployTransition --------------------------
(***************************************************************************)
(* One deployment after another of a routed docker service on the panel    *)
(* host: what engine/pipeline.ts does to the service row, the containers   *)
(* and the proxy from the claim to the retirement of the previous          *)
(* release, the journal of engine/primaryRecovery.ts that outlives it, the *)
(* recovery that finishes what it left, the stop, start and cancel routes, *)
(* and the restart of the process.                                         *)
(*                                                                         *)
(* A container is named by the deployment that created it; None is no      *)
(* runtime.  A step ends where the code waits for docker, the proxy or a   *)
(* timer, and at four points where it only waits for the database (before  *)
(* Finalize, Persist, Revert and Promote), at which other actors enter     *)
(* only if DriverSuspends.                                                 *)
(* Statements between these points, such as the UPDATEs that Claim, Revert *)
(* and Promote make in a row, are one step.                                *)
(***************************************************************************)
EXTENDS Integers, FiniteSets

CONSTANTS
    Deployments,     \* ids, in the order in which they are claimed
    PortModes,       \* whether the service publishes a host port: {TRUE}, {FALSE} or both
    DriverSuspends,  \* a database statement suspends its caller
    MaxCancels,      \* uses of the cancel route
    MaxRequests,     \* uses of the stop and start routes
    MaxCrashes,      \* restarts of the process
    MaxFaults,       \* failed steps, probes, removals, acknowledgements, leases
    MaxWriteFailures \* routing files that could not be written

None == 0

ASSUME DeploymentsAssumption ==
    Deployments \subseteq Nat \ {None} /\ IsFiniteSet(Deployments)
ASSUME BoundsAssumption ==
    /\ {MaxCancels, MaxRequests, MaxCrashes, MaxFaults, MaxWriteFailures} \subseteq Nat
    /\ PortModes \subseteq BOOLEAN /\ DriverSuspends \in BOOLEAN

VARIABLES
    hostPorts,\* the service publishes a host port: no two generations at once
    row,      \* [Deployments -> RowStates]: deployments.status
    svc,      \* the service row: [status, runtime]
    box,      \* [Deployments -> BoxStates]: the containers
    proxy,    \* the routing file, and what Traefik has loaded: [file, loaded]
    journal,  \* the service's primary_transitions row
    run,      \* the pipeline
    rec,      \* the recovery cycle
    req,      \* the stop or start request under way
    budget    \* steps left of each bounded kind

vars == <<hostPorts, row, svc, box, proxy, journal, run, rec, req, budget>>

Runtimes == Deployments \cup {None}
Active == {"building", "deploying"}
RowStates == Active \cup {"waiting", "running", "superseded", "failed", "cancelled"}
ServiceStates == {"idle", "deploying", "running", "error", "stopped"}
BoxStates == {"absent", "up", "exited"}
Services == [status : ServiceStates, runtime : Runtimes]

\* What a lease believes the proxy has loaded: the service row it confirmed.
NoBelief == [status |-> "unconfirmed", runtime |-> None]
Beliefs == Services \cup {NoBelief}

NoJournal == [dep |-> None, prev |-> None, phase |-> "ready", touched |-> FALSE,
              desired |-> None, interrupted |-> FALSE, owner |-> "nobody"]
Journals == [dep : Runtimes, prev : Runtimes, phase : {"ready", "routing", "retiring"},
             touched : BOOLEAN, desired : Runtimes, interrupted : BOOLEAN,
             owner : {"nobody", "run", "recovery"}]

RunStages == {"idle", "building", "handed", "started", "opening", "verifying", "ready",
              "finalized", "flip", "ack", "routed", "restoring", "retire", "removing",
              "reverting", "unwind", "discarding", "reviving", "settling", "lateCancel", "lateSettle", "exiting"}
Flips == {"first", "second", "revert", "restore"}
IdleRun == [at |-> "idle", dep |-> None, prev |-> None, cand |-> None, leased |-> FALSE,
            retain |-> FALSE, aborted |-> FALSE, cancelled |-> FALSE, flip |-> "first", uncertain |-> FALSE,
            victim |-> None, then |-> "exiting", seen |-> NoBelief, belief |-> NoBelief]
Pipelines == [at : RunStages, dep : Runtimes, prev : Runtimes, cand : Runtimes,
              leased : BOOLEAN, retain : BOOLEAN, aborted : BOOLEAN, cancelled : BOOLEAN, flip : Flips,
              uncertain : BOOLEAN, victim : Runtimes, then : {"exiting", "lateCancel"},
              seen : Beliefs, belief : Beliefs]

RecStages == {"idle", "probing", "flip", "ack", "draining", "removing", "completing"}
IdleRec == [at |-> "idle", job |-> "waiting", seen |-> NoBelief, belief |-> NoBelief]
Recoveries == [at : RecStages, job : RowStates, seen : Beliefs, belief : Beliefs]

NoRequest == [kind |-> "none", target |-> None, old |-> "idle"]
Requests == [kind : {"none", "stop", "start"}, target : Runtimes, old : ServiceStates]

Kinds == {"cancel", "request", "crash", "fault", "write"}

TypeOK ==
    /\ hostPorts \in PortModes
    /\ row \in [Deployments -> RowStates]
    /\ svc \in Services
    /\ box \in [Deployments -> BoxStates]
    /\ proxy \in [file : Runtimes, loaded : Runtimes]
    /\ journal \in Journals
    /\ run \in Pipelines
    /\ rec \in Recoveries
    /\ req \in Requests
    /\ budget \in [Kinds -> Nat]

Init ==
    /\ hostPorts \in PortModes
    /\ row = [d \in Deployments |-> "waiting"]
    /\ svc = [status |-> "idle", runtime |-> None]
    /\ box = [d \in Deployments |-> "absent"]
    /\ proxy = [file |-> None, loaded |-> None]
    /\ journal = NoJournal
    /\ run = IdleRun
    /\ rec = IdleRec
    /\ req = NoRequest
    /\ budget = [cancel |-> MaxCancels, request |-> MaxRequests, crash |-> MaxCrashes,
                 fault |-> MaxFaults, write |-> MaxWriteFailures]

-----------------------------------------------------------------------------
(* Helpers                                                                 *)

Spend(kind) == budget[kind] > 0 /\ budget' = [budget EXCEPT ![kind] = @ - 1]
Up(c) == c # None /\ box[c] = "up"
SetBox(c, s) == box' = [box EXCEPT ![c] = s]
Goto(s) == run' = [run EXCEPT !.at = s]

\* Another container holds the ports this one would need.
PortTaken(c) == hostPorts /\ \E d \in Deployments \ {c} : box[d] = "up"

\* Other actors do not run between two statements of the pipeline.
Undisturbed == DriverSuspends \/ run.at \notin {"ready", "finalized", "reverting", "routed"}

\* lease.current(): the lease is held, and the service runs one of the two
\* generations of the transition.
Held(who) == journal.owner = who /\ svc.runtime \in {journal.prev, journal.dep}

\* runtimeFence(): true as long as no lease was opened.
Fenced == ~run.leased \/ Held("run")

\* The pipeline's row, written only while it is still in progress.
SettleRow(outcome) ==
    row' = IF row[run.dep] \in Active THEN [row EXCEPT ![run.dep] = outcome] ELSE row

\* The service row, written only while the user has not stopped it.
UnlessStopped(s) == IF svc.status = "stopped" THEN svc ELSE s

\* A release becomes the running one, and supersedes the one before.
Succeeded(d) ==
    [e \in Deployments |-> IF e = d THEN "running"
                           ELSE IF row[e] = "running" THEN "superseded" ELSE row[e]]

\* Fault: a retirement does not ask which routing was confirmed.
RetireUnconfirmed(c, belief) ==
    /\ c \in {journal.prev, journal.dep} /\ c # svc.runtime
    /\ journal.phase = "retiring" => journal.desired = svc.runtime

\* What lease.retire(c) checks, given the lease's belief about the proxy.
MayRetire(c, belief) ==
    /\ c \in {journal.prev, journal.dep} /\ c # svc.runtime
    /\ journal.phase = "retiring" => journal.desired = svc.runtime
    /\ journal.touched => belief = svc

\* completeIfSafe: the lease saw the service's own routing loaded, and the
\* other generation is gone.
MayComplete(belief) ==
    /\ journal.touched => belief = svc
    /\ \A c \in {journal.prev, journal.dep} \ {None, svc.runtime} : box[c] = "absent"

Retiring == [journal EXCEPT !.phase = "retiring", !.desired = svc.runtime]

-----------------------------------------------------------------------------
(* The pipeline up to the journal                                          *)

\* The worker claims the next deployment of a service with nothing pending.
Claim(d) ==
    /\ run.at = "idle" /\ journal = NoJournal
    /\ row[d] = "waiting" /\ \A e \in Deployments : e < d => row[e] \notin Active \cup {"waiting"}
    /\ row' = [row EXCEPT ![d] = "building"]
    /\ svc' = [svc EXCEPT !.status = "deploying"]
    /\ run' = [IdleRun EXCEPT !.at = "building", !.dep = d, !.prev = svc.runtime]
    /\ UNCHANGED <<box, proxy, journal, rec, req, budget>>

\* A host-port service: the previous generation is stopped, not removed.
HandPorts ==
    /\ run.at = "building" /\ hostPorts /\ run.prev # None /\ ~run.aborted
    /\ box' = IF Up(run.prev) THEN [box EXCEPT ![run.prev] = "exited"] ELSE box
    /\ Goto("handed")
    /\ UNCHANGED <<row, svc, proxy, journal, rec, req, budget>>

\* buildAndRun returns: the candidate runs beside the previous generation.
StartCandidate ==
    /\ run.at = IF hostPorts /\ run.prev # None THEN "handed" ELSE "building"
    /\ ~PortTaken(run.dep)
    /\ SetBox(run.dep, "up")
    /\ run' = [run EXCEPT !.at = "started", !.cand = run.dep]
    /\ UNCHANGED <<row, svc, proxy, journal, rec, req, budget>>

\* A step of the build fails, a checkpoint sees the cancel, or the port the
\* candidate needs is taken: there is no candidate yet.
BuildFails ==
    /\ run.at \in {"building", "handed"}
    /\ \/ row[run.dep] = "cancelled" /\ UNCHANGED budget
       \/ run.at = "handed" /\ PortTaken(run.dep) /\ UNCHANGED budget
       \/ Spend("fault")
    /\ Goto("unwind")
    /\ UNCHANGED <<row, svc, box, proxy, journal, rec, req>>

\* A probe of the candidate fails, or a checkpoint after it sees the cancel.
ProbeFails ==
    /\ run.at \in {"started", "verifying"}
    /\ \/ row[run.dep] = "cancelled" /\ UNCHANGED budget
       \/ Spend("fault")
    /\ Goto("unwind")
    /\ UNCHANGED <<row, svc, box, proxy, journal, rec, req>>

\* The candidate is healthy and not cancelled: the transition is journaled.
OpenJournal ==
    /\ run.at = "started" /\ row[run.dep] # "cancelled" /\ Up(run.cand)
    /\ journal' = [NoJournal EXCEPT !.dep = run.dep, !.prev = run.prev,
                                    !.desired = run.prev, !.owner = "run"]
    /\ Goto("opening")
    /\ UNCHANGED <<row, svc, box, proxy, rec, req, budget>>

\* captureIdentities of a new transition.
CaptureIdentities ==
    /\ run.at = "opening" /\ Held("run")
    /\ run' = [run EXCEPT !.at = "verifying", !.leased = TRUE]
    /\ UNCHANGED <<row, svc, box, proxy, journal, rec, req, budget>>

\* The identities are unknown: nothing may be removed, and the journal stays.
CaptureFails ==
    /\ run.at = "opening"
    /\ IF Held("run") THEN Spend("fault") ELSE UNCHANGED budget
    /\ journal' = IF journal.owner = "run" THEN [journal EXCEPT !.owner = "nobody"] ELSE journal
    /\ run' = [run EXCEPT !.at = "unwind", !.retain = TRUE]
    /\ UNCHANGED <<row, svc, box, proxy, rec, req>>

\* The last probe and the last checkpoint before the success writes.
Verify ==
    /\ run.at = "verifying" /\ Held("run")
    /\ row[run.dep] # "cancelled" /\ Up(run.cand)
    /\ Goto("ready")
    /\ UNCHANGED <<row, svc, box, proxy, journal, rec, req, budget>>

-----------------------------------------------------------------------------
(* The routing transition                                                  *)

\* The intent is journaled, then the row moves on unless it was cancelled.
Finalize ==
    /\ run.at = "ready" /\ Held("run")
    /\ journal' = [journal EXCEPT !.phase = "routing", !.touched = TRUE, !.desired = run.dep]
    /\ IF row[run.dep] = "building"
       THEN row' = [row EXCEPT ![run.dep] = "deploying"] /\ Goto("finalized")
       ELSE /\ run' = [run EXCEPT !.at = "retire", !.victim = run.dep, !.then = "lateCancel"]
            /\ UNCHANGED row
    /\ UNCHANGED <<svc, box, proxy, rec, req, budget>>

\* The service row names the candidate, unless the service was stopped: then
\* the candidate is to be retired.
Persist ==
    /\ run.at = "finalized" /\ Held("run")
    /\ svc' = UnlessStopped([status |-> "running", runtime |-> run.dep])
    /\ run' = IF svc.status = "stopped" THEN [run EXCEPT !.at = "retire", !.victim = run.dep]
              ELSE [run EXCEPT !.at = "flip"]
    /\ UNCHANGED <<row, box, proxy, journal, rec, req, budget>>

\* confirm: the routing file is rendered from the service row and written.
FlipWrite ==
    /\ run.at = "flip" /\ Held("run") /\ rec.at # "ack"
    /\ proxy' = [proxy EXCEPT !.file = svc.runtime]
    /\ run' = [run EXCEPT !.at = "ack", !.seen = svc]
    /\ UNCHANGED <<row, svc, box, journal, rec, req, budget>>

\* A failed flip is retried once, then reverted; a failed rollback ends the run.
FlipFailed(unconfirmed) ==
    run' = [run EXCEPT !.at = CASE run.flip = "first" -> "flip"
                                [] run.flip = "second" -> "reverting"
                                [] OTHER -> "exiting",
                       !.flip = IF run.flip = "first" THEN "second" ELSE run.flip,
                       !.uncertain = run.uncertain \/ unconfirmed,
                       !.seen = NoBelief]

FlipWriteFails ==
    /\ run.at = "flip" /\ Held("run") /\ Spend("write")
    /\ FlipFailed(FALSE)
    /\ UNCHANGED <<row, svc, box, proxy, journal, rec, req>>

\* Fault: a written routing file counts as a loaded one.
FlipUnacknowledged ==
    /\ run.at = "ack" /\ Held("run")
    /\ IF svc # run.seen
       THEN FlipFailed(FALSE)
       ELSE run' = [run EXCEPT !.at = IF run.flip \in {"first", "second"} THEN "routed" ELSE "retire",
                               !.victim = IF run.flip \in {"first", "second"} THEN @ ELSE run.dep,
                               !.seen = NoBelief, !.belief = svc]
    /\ UNCHANGED <<row, svc, box, proxy, journal, rec, req, budget>>

\* Traefik shows the routes; they count if the service is still the same.
FlipAck ==
    /\ run.at = "ack" /\ Held("run") /\ proxy.loaded = proxy.file
    /\ IF svc # run.seen
       THEN FlipFailed(FALSE)
       ELSE run' = [run EXCEPT !.at = IF run.flip \in {"first", "second"} THEN "routed" ELSE "retire",
                               !.victim = IF run.flip \in {"first", "second"} THEN @ ELSE run.dep,
                               !.seen = NoBelief, !.belief = svc]
    /\ UNCHANGED <<row, svc, box, proxy, journal, rec, req, budget>>

\* No acknowledgement in 15 s: either generation may be serving.
FlipTimeout ==
    /\ run.at = "ack" /\ Held("run") /\ Spend("fault")
    /\ FlipFailed(TRUE)
    /\ UNCHANGED <<row, svc, box, proxy, journal, rec, req>>

\* Both attempts failed: the deployment fails, and the service goes back to
\* the previous release unless it changed hands.  The candidate is retired
\* once its routing cannot be loaded; a first one that may serve is kept.
Revert ==
    LET owned == svc = [status |-> "running", runtime |-> run.dep]
        first == run.prev = None
    IN /\ run.at = "reverting" /\ Held("run")
       /\ SettleRow("failed")
       /\ svc' = IF ~owned \/ (first /\ run.uncertain) THEN svc
                 ELSE [status |-> IF first THEN "error" ELSE "running", runtime |-> run.prev]
       /\ run' = [run EXCEPT !.at = IF ~owned \/ (first /\ run.uncertain) THEN "exiting"
                                    ELSE IF run.uncertain THEN "flip" ELSE "retire",
                             !.victim = run.dep, !.flip = "revert"]
       /\ UNCHANGED <<box, proxy, journal, rec, req, budget>>

\* Success is committed only over a row and a service still in transition.
Promote ==
    LET won == row[run.dep] = "deploying" /\ svc = [status |-> "running", runtime |-> run.dep]
    IN /\ run.at = "routed" /\ Held("run")
       /\ IF won THEN row' = Succeeded(run.dep) ELSE SettleRow("cancelled")
       /\ run' = [run EXCEPT !.at = IF ~won THEN "restoring"
                                    ELSE IF run.prev = None THEN "exiting" ELSE "retire",
                             !.victim = IF won THEN run.prev ELSE @]
       /\ UNCHANGED <<svc, box, proxy, journal, rec, req, budget>>

\* Cancelled during the transition: a healthy previous release comes back.
Restore ==
    LET owned == svc = [status |-> "running", runtime |-> run.dep]
    IN /\ run.at = "restoring" /\ Held("run")
       /\ \/ /\ Up(run.prev) /\ owned
             /\ svc' = [status |-> "running", runtime |-> run.prev]
             /\ run' = [run EXCEPT !.at = "flip", !.flip = "restore"]
             /\ UNCHANGED budget
          \/ /\ ~Up(run.prev) \/ ~owned
             /\ Goto("exiting") /\ UNCHANGED <<svc, budget>>
          \/ /\ Up(run.prev) /\ Spend("fault")
             /\ Goto("exiting") /\ UNCHANGED svc
       /\ UNCHANGED <<row, box, proxy, journal, rec, req>>

\* lease.retire: checked, journaled as committed, then docker removes it.  A
\* refusal, a lost lease or a failed removal is only logged.
Retire ==
    /\ run.at = "retire"
    /\ IF Held("run") /\ MayRetire(run.victim, run.belief)
       THEN journal' = Retiring /\ Goto("removing")
       ELSE Goto(run.then) /\ UNCHANGED journal
    /\ UNCHANGED <<row, svc, box, proxy, rec, req, budget>>

Remove ==
    /\ run.at = "removing"
    /\ \/ SetBox(run.victim, "absent") /\ UNCHANGED budget
       \/ Held("run") /\ Spend("fault") /\ UNCHANGED box
       \/ ~Held("run") /\ UNCHANGED <<box, budget>>
    /\ Goto(run.then)
    /\ UNCHANGED <<row, svc, proxy, journal, rec, req>>

-----------------------------------------------------------------------------
(* The failure path and the end of a run                                   *)

\* The candidate is stopped, through the lease if there is one.
Unwind ==
    LET spared == run.cand = None \/ run.retain
        refused == run.leased /\ ~MayRetire(run.cand, run.belief)
    IN /\ run.at = "unwind" /\ Fenced
       /\ run' = [run EXCEPT !.at = IF spared \/ refused THEN "reviving" ELSE "discarding",
                             !.cancelled = row[run.dep] = "cancelled"]
       /\ journal' = IF run.leased /\ ~spared /\ ~refused THEN Retiring ELSE journal
       /\ UNCHANGED <<row, svc, box, proxy, rec, req, budget>>

Discard ==
    /\ run.at = "discarding"
    /\ \/ SetBox(run.cand, "absent") /\ UNCHANGED budget
       \/ Fenced /\ Spend("fault") /\ UNCHANGED box
       \/ ~Fenced /\ UNCHANGED <<box, budget>>
    /\ Goto("reviving")
    /\ UNCHANGED <<row, svc, proxy, journal, rec, req>>

\* startStoppedGeneration(c): an exited container is started again, if its
\* ports are free.
Revived(c, b) ==
    IF c # None /\ b[c] = "exited" /\ ~(hostPorts /\ \E d \in Deployments : b[d] = "up")
    THEN [b EXCEPT ![c] = "up"] ELSE b

\* The previous generation is started again, whatever the service row says.
Revive ==
    /\ run.at = "reviving"
    /\ box' = IF run.retain THEN box ELSE Revived(run.prev, box)
    /\ Goto("settling")
    /\ UNCHANGED <<row, svc, proxy, journal, rec, req, budget>>

\* The outcome is written by what the probe of the previous generation says.
SettleFailure ==
    /\ run.at = "settling"
    /\ \E restored \in BOOLEAN :
        /\ restored => Up(run.prev)
        /\ IF Up(run.prev) /\ ~restored THEN Spend("fault") ELSE UNCHANGED budget
        /\ svc' = IF ~Fenced THEN svc
                  ELSE UnlessStopped(
                    IF restored THEN [svc EXCEPT !.status = "running"]
                    ELSE IF run.cancelled THEN [svc EXCEPT !.status = "idle"]
                    ELSE [status |-> "error", runtime |-> run.prev])
    /\ IF Fenced THEN SettleRow("failed") ELSE UNCHANGED row
    /\ Goto("exiting")
    /\ UNCHANGED <<box, proxy, journal, rec, req>>

\* Cancelled just before the finalize: with the candidate retired or kept,
\* the previous generation is started again.
LateCancel ==
    /\ run.at = "lateCancel"
    /\ box' = Revived(run.prev, box)
    /\ Goto("lateSettle")
    /\ UNCHANGED <<row, svc, proxy, journal, rec, req, budget>>

LateSettle ==
    /\ run.at = "lateSettle"
    /\ svc' = IF ~Fenced THEN svc
              ELSE UnlessStopped(IF run.prev = None THEN [svc EXCEPT !.status = "idle"]
                                 ELSE [status |-> "running", runtime |-> run.prev])
    /\ Goto("exiting")
    /\ UNCHANGED <<row, box, proxy, journal, rec, req, budget>>

\* runDeployment's finally: the journal goes if nothing obsolete is left,
\* else it is handed to the recovery.
Exit ==
    /\ run.at = "exiting"
    /\ journal' = IF ~run.leased \/ journal.owner # "run" THEN journal
                  ELSE IF Held("run") /\ MayComplete(run.belief) THEN NoJournal
                  ELSE [journal EXCEPT !.owner = "nobody"]
    /\ run' = IdleRun
    /\ UNCHANGED <<row, svc, box, proxy, rec, req, budget>>

\* A check finds the lease gone: the pipeline leaves everything as it is.
LoseLease ==
    /\ run.leased /\ ~Held("run")
    /\ run.at \in {"verifying", "ready", "finalized", "flip", "ack", "reverting", "routed",
                   "restoring", "unwind"}
    /\ run' = IdleRun
    /\ UNCHANGED <<row, svc, box, proxy, journal, rec, req, budget>>

-----------------------------------------------------------------------------
(* The recovery of a transition whose lease is over                        *)

Interrupted == journal.interrupted /\ rec.job \in Active
Obsolete == {journal.prev, journal.dep} \ {None, svc.runtime}
StillCurrent == svc = rec.seen /\ row[journal.dep] = rec.job

RecClaim ==
    /\ rec.at = "idle" /\ Undisturbed
    /\ journal # NoJournal /\ journal.owner = "nobody"
    /\ journal' = [journal EXCEPT !.owner = "recovery"]
    /\ rec' = [IdleRec EXCEPT !.at = "probing", !.job = row[journal.dep], !.seen = svc]
    /\ UNCHANGED <<row, svc, box, proxy, run, req, budget>>

\* Fault: the selection ignores a retirement that was already committed.
SelectedAfresh(healthy) ==
    LET d == journal.dep
        p == journal.prev
        current == IF rec.seen.runtime = d THEN d ELSE p
        intended == IF Interrupted /\ (journal.desired = d \/ (current = None /\ p = None))
                    THEN d ELSE current
        wanted == IF rec.job = "cancelled" /\ p \in healthy THEN p ELSE intended
    IN IF wanted \in healthy THEN wanted
       ELSE IF Interrupted /\ wanted = d /\ p \in healthy THEN p
       ELSE None

\* Fault: a cancelled deployment goes back to the previous generation even
\* when that one is down.
SelectedPrevious(healthy) ==
    LET d == journal.dep
        p == journal.prev
        current == IF rec.seen.runtime = d THEN d ELSE p
        intended == IF Interrupted /\ (journal.desired = d \/ (current = None /\ p = None))
                    THEN d ELSE current
        wanted == IF rec.job = "cancelled" /\ p # None THEN p ELSE intended
    IN IF journal.phase = "retiring"
       THEN IF rec.seen.runtime = journal.desired /\ current \in healthy THEN current ELSE None
       ELSE IF wanted \in healthy THEN wanted
       ELSE IF Interrupted /\ wanted = d /\ p \in healthy THEN p
       ELSE None

\* The generation to serve, given those found healthy; None to hold.
Selected(healthy) ==
    LET d == journal.dep
        p == journal.prev
        current == IF rec.seen.runtime = d THEN d ELSE p
        intended == IF Interrupted /\ (journal.desired = d \/ (current = None /\ p = None))
                    THEN d ELSE current
        wanted == IF rec.job = "cancelled" /\ p \in healthy THEN p ELSE intended
    IN IF journal.phase = "retiring"
       THEN IF rec.seen.runtime = journal.desired /\ current \in healthy THEN current ELSE None
       ELSE IF wanted \in healthy THEN wanted
       ELSE IF Interrupted /\ wanted = d /\ p \in healthy THEN p
       ELSE None

\* The healthy generation is selected; a stopped service keeps its own.
RecSelect ==
    /\ rec.at = "probing" /\ Held("recovery") /\ Undisturbed
    /\ LET up == {c \in {journal.prev, journal.dep} : Up(c)}
           stopped == rec.seen.status = "stopped"
       IN \E healthy \in SUBSET up :
            /\ IF healthy # up THEN Spend("fault") ELSE UNCHANGED budget
            /\ IF StillCurrent /\ (stopped \/ Selected(healthy) # None)
                  /\ (journal.phase = "retiring" => svc.runtime = journal.desired)
               THEN /\ svc' = IF stopped THEN svc
                              ELSE [status |-> "running", runtime |-> Selected(healthy)]
                    /\ rec' = [rec EXCEPT !.at = "flip", !.seen = svc']
                    /\ UNCHANGED journal
               ELSE /\ journal' = [journal EXCEPT !.owner = "nobody"]
                    /\ rec' = IdleRec
                    /\ UNCHANGED svc
    /\ UNCHANGED <<row, box, proxy, run, req>>

\* confirm, by the recovery.
RecFlip ==
    /\ rec.at = "flip" /\ Held("recovery") /\ Undisturbed /\ run.at # "ack"
    /\ proxy' = [proxy EXCEPT !.file = svc.runtime]
    /\ rec' = [rec EXCEPT !.at = "ack"]
    /\ UNCHANGED <<row, svc, box, journal, run, req, budget>>

\* The routes are loaded: an interrupted deployment is settled by them.
RecAck ==
    LET d == journal.dep
        won == svc.runtime = d /\ svc.status # "stopped"
    IN /\ rec.at = "ack" /\ Held("recovery") /\ Undisturbed
       /\ proxy.loaded = proxy.file /\ StillCurrent
       /\ row' = IF ~Interrupted THEN row
                 ELSE IF won THEN Succeeded(d)
                 ELSE [row EXCEPT ![d] = IF svc.status = "stopped" THEN "cancelled" ELSE "failed"]
       /\ rec' = [rec EXCEPT !.at = "draining", !.belief = svc, !.job = row'[d]]
       /\ UNCHANGED <<svc, box, proxy, journal, run, req, budget>>

RecDrain ==
    /\ rec.at = "draining" /\ Held("recovery") /\ Undisturbed /\ StillCurrent
    /\ journal' = Retiring
    /\ rec' = [rec EXCEPT !.at = "removing"]
    /\ UNCHANGED <<row, svc, box, proxy, run, req, budget>>

\* Fault: the previous generation is taken to be the obsolete one.
RecRemovePrevious ==
    /\ rec.at = "removing" /\ Undisturbed
    /\ journal.owner = "recovery" => StillCurrent
    /\ box' = [c \in Deployments |-> IF c = journal.prev THEN "absent" ELSE box[c]]
    /\ rec' = [rec EXCEPT !.at = "completing"]
    /\ UNCHANGED <<row, svc, proxy, journal, run, req, budget>>

\* Every generation but the serving one is retired.
RecRemove ==
    /\ rec.at = "removing" /\ Undisturbed
    /\ journal.owner = "recovery" => StillCurrent
    /\ box' = [c \in Deployments |-> IF c \in Obsolete THEN "absent" ELSE box[c]]
    /\ rec' = [rec EXCEPT !.at = "completing"]
    /\ UNCHANGED <<row, svc, proxy, journal, run, req, budget>>

RecComplete ==
    /\ rec.at = "completing" /\ Held("recovery") /\ Undisturbed
    /\ StillCurrent /\ MayComplete(rec.belief)
    /\ journal' = NoJournal
    /\ rec' = IdleRec
    /\ UNCHANGED <<row, svc, box, proxy, run, req, budget>>

\* A failure, or a service or deployment that changed meanwhile, ends the
\* attempt; the generations are retained for the next one.
RecHold ==
    /\ rec.at # "idle" /\ Undisturbed
    /\ IF Held("recovery") /\ StillCurrent THEN Spend("fault") ELSE UNCHANGED budget
    /\ journal' = IF journal.owner = "recovery" THEN [journal EXCEPT !.owner = "nobody"] ELSE journal
    /\ rec' = IdleRec
    /\ UNCHANGED <<row, svc, box, proxy, run, req>>

\* No heartbeat for 90 s: the lease is over, its owner does not know yet.
LeaseExpires ==
    /\ journal.owner # "nobody" /\ Undisturbed /\ Spend("fault")
    /\ journal' = [journal EXCEPT !.owner = "nobody"]
    /\ UNCHANGED <<row, svc, box, proxy, run, rec, req>>

-----------------------------------------------------------------------------
(* Routes, the proxy and the process                                       *)

\* abortDeployment(d): the run in d's scope has its step killed.
Aborted(d) == [run EXCEPT !.aborted = @ \/ run.dep = d]

\* The cancel route: the row is flipped, and a step that builds is killed.
Cancel(d) ==
    /\ row[d] \in Active /\ Undisturbed /\ Spend("cancel")
    /\ row' = [row EXCEPT ![d] = "cancelled"]
    /\ run' = IF row[d] = "building" THEN Aborted(d) ELSE run
    /\ UNCHANGED <<svc, box, proxy, journal, rec, req>>

\* The stop route: `stopped` first, deployments in progress cancelled, then
\* the runtime it read is stopped.
Stop ==
    /\ req = NoRequest /\ svc.runtime # None /\ Undisturbed /\ Spend("request")
    /\ svc' = [svc EXCEPT !.status = "stopped"]
    /\ row' = [d \in Deployments |-> IF row[d] \in Active THEN "cancelled" ELSE row[d]]
    /\ req' = [kind |-> "stop", target |-> svc.runtime, old |-> svc.status]
    /\ UNCHANGED <<box, proxy, journal, run, rec>>

StopDone ==
    /\ req.kind = "stop" /\ Undisturbed
    /\ \/ /\ box' = IF Up(req.target) THEN [box EXCEPT ![req.target] = "exited"] ELSE box
          /\ UNCHANGED <<svc, budget>>
       \/ /\ Spend("fault")
          /\ svc' = IF svc.status = "stopped" THEN [svc EXCEPT !.status = req.old] ELSE svc
          /\ UNCHANGED box
    /\ req' = NoRequest
    /\ UNCHANGED <<row, proxy, journal, run, rec>>

Start ==
    /\ req = NoRequest /\ svc.runtime # None /\ Undisturbed /\ Spend("request")
    /\ req' = [kind |-> "start", target |-> svc.runtime, old |-> svc.status]
    /\ UNCHANGED <<row, svc, box, proxy, journal, run, rec>>

StartDone ==
    /\ req.kind = "start" /\ Undisturbed
    /\ IF box[req.target] = "absent"
       THEN svc' = [svc EXCEPT !.status = "error"] /\ UNCHANGED box
       ELSE IF PortTaken(req.target) THEN UNCHANGED <<svc, box>>
       ELSE svc' = [svc EXCEPT !.status = "running"] /\ SetBox(req.target, "up")
    /\ req' = NoRequest
    /\ UNCHANGED <<row, proxy, journal, run, rec, budget>>

\* Any other routing write (a domain edit, another service) renders the row.
Render ==
    /\ "ack" \notin {run.at, rec.at} /\ Undisturbed /\ proxy.file # svc.runtime
    /\ proxy' = [proxy EXCEPT !.file = svc.runtime]
    /\ UNCHANGED <<row, svc, box, journal, run, rec, req, budget>>

\* Traefik loads the file.
Load ==
    /\ proxy.loaded # proxy.file
    /\ proxy' = [proxy EXCEPT !.loaded = proxy.file]
    /\ UNCHANGED <<row, svc, box, journal, run, rec, req, budget>>

\* removeInterruptedCandidates: unless the service's own runtime is gone, in
\* which case a candidate may be all that serves.
Cleared(lost) ==
    LET kept == svc.runtime = None \/ box[svc.runtime] # "absent"
    IN [c \in Deployments |-> IF c \in lost /\ c # svc.runtime /\ kept THEN "absent" ELSE box[c]]

\* Fault: the boot does not start the stopped generation again.
RestartWithoutRevive ==
    LET lost == {d \in Deployments : row[d] \in Active /\ journal.dep # d}
    IN /\ Spend("crash")
       /\ run' = IdleRun /\ rec' = IdleRec /\ req' = NoRequest
       /\ journal' = [journal EXCEPT !.owner = "nobody",
                        !.interrupted = @ \/ (journal.dep # None /\ row[journal.dep] \in Active)]
       /\ row' = [d \in Deployments |-> IF d \in lost THEN "failed" ELSE row[d]]
       /\ box' = Cleared(lost)
       /\ svc' = IF lost # {} /\ svc.status = "deploying"
                 THEN [svc EXCEPT !.status = IF svc.runtime = None THEN "error" ELSE "running"]
                 ELSE svc
       /\ UNCHANGED proxy

\* The process dies and boots: a journaled deployment is marked interrupted;
\* any other one in progress fails, its candidate is removed and the
\* service's own runtime is started again.
Restart ==
    LET lost == {d \in Deployments : row[d] \in Active /\ journal.dep # d}
    IN /\ Spend("crash")
       /\ run' = IdleRun /\ rec' = IdleRec /\ req' = NoRequest
       /\ journal' = [journal EXCEPT !.owner = "nobody",
                        !.interrupted = @ \/ (journal.dep # None /\ row[journal.dep] \in Active)]
       /\ row' = [d \in Deployments |-> IF d \in lost THEN "failed" ELSE row[d]]
       /\ box' = IF lost = {} THEN box ELSE Revived(svc.runtime, Cleared(lost))
       /\ svc' = IF lost # {} /\ svc.status = "deploying"
                 THEN [svc EXCEPT !.status = IF svc.runtime = None THEN "error" ELSE "running"]
                 ELSE svc
       /\ UNCHANGED proxy

RunStep ==
    /\ \/ HandPorts \/ BuildFails \/ StartCandidate \/ ProbeFails \/ OpenJournal \/ CaptureIdentities
       \/ CaptureFails \/ Verify \/ Finalize \/ Persist \/ FlipWrite \/ FlipWriteFails
       \/ FlipAck \/ FlipTimeout \/ Revert \/ Promote \/ Restore \/ Retire \/ Remove
       \/ Unwind \/ Discard \/ Revive \/ SettleFailure \/ LateCancel \/ LateSettle
       \/ Exit \/ LoseLease
    /\ UNCHANGED hostPorts

RecStep ==
    /\ \/ RecClaim \/ RecSelect \/ RecFlip \/ RecAck \/ RecDrain \/ RecRemove
       \/ RecComplete \/ RecHold
    /\ UNCHANGED hostPorts

RequestEnds == (StopDone \/ StartDone) /\ UNCHANGED hostPorts
Loads == Load /\ UNCHANGED hostPorts

Next ==
    \/ RunStep \/ RecStep \/ RequestEnds \/ Loads
    \/ /\ \/ \E d \in Deployments : Claim(d) \/ Cancel(d)
          \/ LeaseExpires \/ Stop \/ Start \/ Render \/ Restart
       /\ UNCHANGED hostPorts

\* Every docker and proxy operation has a timeout, the recovery runs every
\* minute, and Traefik watches its file.
Fairness ==
    WF_vars(RunStep) /\ WF_vars(RecStep) /\ WF_vars(Loads) /\ WF_vars(RequestEnds)

Spec == Init /\ [][Next]_vars /\ Fairness

-----------------------------------------------------------------------------
(* Properties                                                              *)

AtRest == run.at = "idle" /\ rec.at = "idle" /\ req = NoRequest /\ journal = NoJournal
Unspent(kind) == budget[kind] = CASE kind = "cancel" -> MaxCancels [] kind = "request" -> MaxRequests
                              [] kind = "crash" -> MaxCrashes [] kind = "fault" -> MaxFaults
                              [] OTHER -> MaxWriteFailures

\* Blue-green: a container Traefik routes to is never removed, whichever
\* actor removes, and whatever it believed about the proxy.
RoutedIsKept ==
    [][\A c \in Deployments : box[c] # "absent" /\ box'[c] = "absent" => proxy.loaded # c]_vars

\* The service row never names a container that was removed.
ServingExists == svc.runtime # None => box[svc.runtime] # "absent"

\* A deployment is recorded as running only with its container up, named by
\* the service row and loaded by the proxy.
SuccessIsReal ==
    [][\A d \in Deployments :
          row[d] # "running" /\ row'[d] = "running"
            => proxy.loaded = d /\ svc.runtime = d /\ box[d] = "up"]_vars

\* Once a retirement is journaled, the service stays on the generation it
\* was committed to until the transition is over.
CommitIsFinal ==
    [][journal.phase = "retiring" /\ journal'.dep = journal.dep
          => svc'.runtime = journal.desired]_vars

\* No generation is forgotten: with nothing under way, the only container
\* left is the one the service row names.  A docker command or a panel that
\* failed on the way may leave one behind.
NothingLeftOver ==
    AtRest /\ Unspent("fault") /\ Unspent("crash")
        => \A c \in Deployments : box[c] # "absent" => c = svc.runtime

\* With nothing under way the proxy's file routes to the service's runtime.
RoutingFollows == AtRest => proxy.file = svc.runtime

\* With nothing under way, a service shown as running runs: a deployment
\* that stopped the previous generation for its ports and then failed, was
\* cancelled or was cut off by a restart has brought it back, unless a
\* container that a failed removal or a restart left behind holds the ports
\* (NothingLeftOver: without either, none does).  What two failed
\* acknowledgements, a failed routing write or a user's start or stop on the
\* way leave down is the runtime patrol's (ServiceRuntime).
RunningIsUp ==
    AtRest /\ svc.status = "running" /\ Unspent("write") /\ Unspent("request")
        /\ budget["fault"] + 1 >= MaxFaults
        => Up(svc.runtime) \/ PortTaken(svc.runtime)

\* What a deployment, its recovery and the user's requests leave behind once
\* they are over, whichever of them had the last word: the routes name the
\* service's runtime, it runs if the row says so, and no other container
\* is left.
RestIsClean == RoutingFollows /\ RunningIsUp /\ NothingLeftOver

\* A transition never stays open for ever while the generation the service
\* row names is up, or while the service is stopped: whatever the pipeline,
\* a crash or a lost lease left, the recovery routes, retires and completes.
TransitionsSettle ==
    []<>(journal = NoJournal \/ (~Up(svc.runtime) /\ svc.status # "stopped"))

\* A service the user stopped runs no container once everything has settled.
StoppedStaysDown ==
    AtRest /\ svc.status = "stopped" => \A c \in Deployments : box[c] # "up"

=============================================================================
