--------------------------- MODULE ServiceRuntime ---------------------------
(***************************************************************************)
(* Who starts and stops the container of a docker service on the panel     *)
(* host: the runtime patrol (plugins/runtimeState.ts), the stop, start and *)
(* restart routes (modules/services.ts), scale to zero and its wake        *)
(* endpoint (lib/sleep.ts, modules/wake.ts), the restart limit             *)
(* (lib/restartLimit.ts) and a deployment.  They share the service row and *)
(* no lock; every docker command and every routing write is an await at    *)
(* which the others run, a chain of database statements is one step.       *)
(* A runtime is a generation number; its replicas go up and down with it.  *)
(* A deployment only appears as the steps the others can see, and no stop  *)
(* meets one: DeployTransition has both in detail.                         *)
(***************************************************************************)
EXTENDS Naturals, FiniteSets

CONSTANTS
    Request,    \* requests to the routes, each made once
    Kinds,      \* what they ask for: "stop", "start" (restart is the same)
    MaxGen,     \* generations: MaxGen - 1 deployments
    MaxSleeps,  \* idle windows that run out
    MaxTrips,   \* restart loops the limit sees
    MaxDeaths,  \* containers that die and stay down
    MaxFaults,  \* docker commands and routing writes that fail
    MaxCrashes, \* panel restarts
    MaxEvents   \* all of these together

ASSUME RuntimeAssumption ==
    /\ IsFiniteSet(Request)
    /\ Kinds \subseteq {"stop", "start"}
    /\ MaxGen \in Nat \ {0}
    /\ {MaxSleeps, MaxTrips, MaxDeaths, MaxFaults, MaxCrashes, MaxEvents} \subseteq Nat

Gens == 1..MaxGen
Budget == {"sleep", "trip", "death", "fault", "crash", "event"}
Limit == [b \in Budget |->
    CASE b = "sleep" -> MaxSleeps [] b = "trip" -> MaxTrips [] b = "death" -> MaxDeaths
      [] b = "fault" -> MaxFaults [] b = "crash" -> MaxCrashes [] OTHER -> MaxEvents]

VARIABLES
    row,      \* the service row: [status, gen, asleep]
    box,      \* per generation: "none", "up", "down" or "gone"
    route,    \* where the loaded routes send the domains: "app" or "wake"
    deploy,   \* "none", "building", "retire"
    job,      \* per request: [kind, at, gen, was, asleep]
    patrol,   \* the pass on this service: [at, gen]
    sleeper,  \* [at, gen]
    waker,    \* the shared wake: [at, gen]
    limiter,  \* [at, gen]
    excused,  \* a stop met one of the exceptions StopSticks names
    spent

vars == <<row, box, route, deploy, job, patrol, sleeper, waker, limiter, excused, spent>>

Actor(stages) == [at : {"idle"} \cup stages, gen : Gens]
Statuses == {"running", "stopped", "deploying", "error"}

TypeOK ==
    /\ row \in [status : Statuses, gen : Gens, asleep : BOOLEAN]
    /\ box \in [Gens -> {"none", "up", "down", "gone"}]
    /\ \A g \in Gens : (box[g] = "none") => g > row.gen
    /\ route \in {"app", "wake"}
    /\ deploy \in {"none", "building", "retire"}
    /\ job \in [Request -> [kind : Kinds, at : {"new", "docker", "restore", "routes", "write", "done"},
                            gen : Gens, was : Statuses, asleep : BOOLEAN]]
    /\ patrol \in Actor({"inspect", "check", "start", "judge"})
    /\ sleeper \in Actor({"mark", "config", "stop"})
    /\ waker \in Actor({"docker", "probe", "undo", "clear", "config", "answer"})
    /\ limiter \in Actor({"sample", "docker"})
    /\ excused \in BOOLEAN
    /\ spent \in [Budget -> Nat] /\ \A b \in Budget : spent[b] <= Limit[b]

Idle == [at |-> "idle", gen |-> 1]

Init ==
    /\ row = [status |-> "running", gen |-> 1, asleep |-> FALSE]
    /\ box = [g \in Gens |-> IF g = 1 THEN "up" ELSE "none"]
    /\ route = "app" /\ deploy = "none"
    /\ job \in {[r \in Request |-> [kind |-> k[r], at |-> "new", gen |-> 1,
                                    was |-> "running", asleep |-> FALSE]] :
                  k \in [Request -> Kinds]}
    /\ patrol = Idle /\ sleeper = Idle /\ waker = Idle /\ limiter = Idle
    /\ excused = FALSE /\ spent = [b \in Budget |-> 0]

Spend(b) ==
    /\ spent[b] < Limit[b] /\ spent["event"] < MaxEvents
    /\ spent' = [spent EXCEPT ![b] = @ + 1, !["event"] = @ + 1]
Free == UNCHANGED spent
To(at, g) == [at |-> at, gen |-> g]

\* docker start and docker stop of a generation that exists.
Started(g) == [box EXCEPT ![g] = "up"]
Stopped(g) == IF box[g] = "up" THEN [box EXCEPT ![g] = "down"] ELSE box
Present(g) == box[g] \in {"up", "down"}

\* writeDynamicConfig renders the routes from the row.
WriteConfig == route' = IF row.asleep THEN "wake" ELSE "app"

Patrols == <<patrol, excused>>
Requests == <<job>>
Sleeping == <<sleeper, waker>>
World == <<route, deploy>>

-----------------------------------------------------------------------------
(* The runtime patrol: reconcilePass                                       *)

\* The pass lists the running services; a sleeping one is left alone.
PatrolList ==
    /\ patrol.at = "idle"
    /\ row.status = "running" /\ ~row.asleep
    /\ patrol' = To("inspect", row.gen) /\ Free
    /\ UNCHANGED <<row, box, World, job, Sleeping, limiter, excused>>

\* docker inspect; a daemon that does not answer ends the visit, any other
\* error of the command reads as a container that is gone.
PatrolInspect ==
    /\ patrol.at = "inspect"
    /\ \/ /\ patrol' = CASE box[patrol.gen] = "up" -> Idle
                         [] box[patrol.gen] = "down" -> To("check", patrol.gen)
                         [] OTHER -> To("judge", patrol.gen)
          /\ Free
       \/ patrol' \in {Idle, To("judge", patrol.gen)} /\ Spend("fault")
    /\ UNCHANGED <<row, box, World, job, Sleeping, limiter, excused>>

\* The row setStatus and a start may act on.
StillRunning(g) == row.status = "running" /\ row.gen = g

\* Fault: the row of the listing is trusted.
PatrolTrusts ==
    /\ patrol.at = "check"
    /\ patrol' = To("start", patrol.gen)
    /\ Free /\ UNCHANGED <<row, box, World, job, Sleeping, limiter, excused>>

PatrolCheck ==
    /\ patrol.at = "check"
    /\ patrol' = IF StillRunning(patrol.gen) THEN To("start", patrol.gen) ELSE Idle
    /\ Free /\ UNCHANGED <<row, box, World, job, Sleeping, limiter, excused>>

\* docker start; a container that does not come up is judged.
PatrolStart ==
    /\ patrol.at = "start"
    /\ \/ /\ Present(patrol.gen)
          /\ box' = Started(patrol.gen) /\ patrol' = Idle /\ Free
       \/ /\ patrol' = To("judge", patrol.gen) /\ UNCHANGED box
          /\ IF Present(patrol.gen) THEN Spend("death") ELSE Free
       \/ patrol' = Idle /\ Spend("fault") /\ UNCHANGED box
    /\ UNCHANGED <<row, World, job, Sleeping, limiter, excused>>

\* Fault: a service that cannot be revived is left as it is.
PatrolShrugs ==
    /\ patrol.at = "judge"
    /\ patrol' = Idle /\ Free
    /\ UNCHANGED <<row, box, World, job, Sleeping, limiter, excused>>

\* setStatus: `error`, if the row is still what the pass listed.
PatrolJudge ==
    /\ patrol.at = "judge"
    /\ row' = IF StillRunning(patrol.gen) THEN [row EXCEPT !.status = "error"] ELSE row
    /\ patrol' = Idle /\ Free
    /\ UNCHANGED <<box, World, job, Sleeping, limiter, excused>>

-----------------------------------------------------------------------------
(* The routes: stop, and start or restart                                  *)

Step(r, at) == job' = [job EXCEPT ![r].at = at]
Read(r, at) == job' = [job EXCEPT ![r] = [@ EXCEPT !.at = at, !.gen = row.gen,
                                                   !.was = row.status, !.asleep = row.asleep]]

\* `stopped` is written before the container is stopped, and ends a sleep (a
\* stop during a deployment belongs to DeployTransition).
StopBegin(r) ==
    /\ job[r].kind = "stop" /\ job[r].at = "new" /\ deploy = "none"
    /\ Read(r, "docker")
    /\ row' = [row EXCEPT !.status = "stopped", !.asleep = FALSE]
    /\ Free /\ UNCHANGED <<box, World, Patrols, Sleeping, limiter>>

\* The patrol or a wake is between its look at the row and its start.
Window(g) == patrol = To("start", g) \/ waker = To("docker", g)

StopDocker(r) ==
    /\ job[r].kind = "stop" /\ job[r].at = "docker"
    /\ \/ /\ box' = Stopped(job[r].gen) /\ Step(r, "routes") /\ Free
          /\ excused' = (excused \/ Window(job[r].gen))
       \/ Step(r, "restore") /\ Spend("fault") /\ UNCHANGED <<box, excused>>
    /\ UNCHANGED <<row, World, patrol, Sleeping, limiter>>

\* A failed stop puts the status back, unless the row moved on.
StopRestore(r) ==
    /\ job[r].at = "restore"
    /\ row' = IF row.status = "stopped" THEN [row EXCEPT !.status = job[r].was] ELSE row
    /\ Step(r, "done")
    /\ Free /\ UNCHANGED <<box, World, Patrols, Sleeping, limiter>>

\* The routes of a service that slept when the request came are written again.
StopRoutes(r) ==
    /\ job[r].at = "routes"
    /\ IF job[r].asleep
       THEN \/ WriteConfig /\ Free
            \/ UNCHANGED route /\ Spend("fault")
       ELSE UNCHANGED route /\ Free
    /\ Step(r, "done")
    /\ UNCHANGED <<row, box, deploy, Patrols, Sleeping, limiter>>

\* A sleeping service is woken instead, by the wake that is under way if there is one.
StartBegin(r) ==
    /\ job[r].kind = "start" /\ job[r].at = "new"
    /\ IF row.asleep
       THEN /\ Step(r, "done")
            /\ waker' = IF waker.at = "idle" THEN To("docker", row.gen) ELSE waker
       ELSE Read(r, "docker") /\ UNCHANGED waker
    /\ Free /\ UNCHANGED <<row, box, World, Patrols, sleeper, limiter>>

\* docker start; a container that is gone is recorded.
StartDocker(r) ==
    /\ job[r].kind = "start" /\ job[r].at = "docker"
    /\ \/ /\ Present(job[r].gen) /\ box' = Started(job[r].gen)
          /\ Step(r, "write") /\ Free /\ UNCHANGED row
       \/ /\ ~Present(job[r].gen) /\ row' = [row EXCEPT !.status = "error"]
          /\ Step(r, "done") /\ Free /\ UNCHANGED box
       \/ Step(r, "done") /\ Spend("fault") /\ UNCHANGED <<row, box>>
    /\ UNCHANGED <<World, Patrols, Sleeping, limiter>>

StartWrite(r) ==
    /\ job[r].at = "write"
    /\ row' = [row EXCEPT !.status = "running"]
    /\ Step(r, "done")
    /\ Free /\ UNCHANGED <<box, World, Patrols, Sleeping, limiter>>

-----------------------------------------------------------------------------
(* The restart limit: enforceRestartLimits                                 *)

\* A running service without a deployment under way is sampled.
LimitSample ==
    /\ limiter.at = "idle" /\ Spend("trip")
    /\ row.status = "running" /\ deploy = "none"
    /\ limiter' = To("sample", row.gen)
    /\ UNCHANGED <<row, box, World, job, Patrols, Sleeping>>

\* The limit is reached: `stopped` first, as the stop route, for the service
\* whatever it runs by now.
LimitTrip ==
    /\ limiter.at = "sample"
    /\ row' = [row EXCEPT !.status = "stopped", !.asleep = FALSE]
    /\ limiter' = To("docker", limiter.gen)
    /\ excused' = (excused \/ row.gen # limiter.gen)
    /\ Free /\ UNCHANGED <<box, World, job, patrol, Sleeping>>

\* A docker stop that fails is not noticed.
LimitDocker ==
    /\ limiter.at = "docker" /\ limiter' = Idle
    /\ \/ /\ box' = Stopped(limiter.gen) /\ Free
          /\ excused' = (excused \/ Window(limiter.gen))
       \/ Spend("fault") /\ excused' = TRUE /\ UNCHANGED box
    /\ UNCHANGED <<row, World, job, patrol, Sleeping>>

-----------------------------------------------------------------------------
(* Scale to zero: putToSleep                                               *)

\* The idle window of a running service is over; the wake endpoint is probed.
SleepBegin ==
    /\ sleeper.at = "idle" /\ Spend("sleep")
    /\ row.status = "running" /\ ~row.asleep /\ deploy # "building"
    /\ sleeper' = To("mark", row.gen)
    /\ UNCHANGED <<row, box, World, job, Patrols, waker, limiter>>

\* The conditional mark: a deployment or a stop since then wins.
SleepMark ==
    /\ sleeper.at = "mark"
    /\ IF StillRunning(sleeper.gen) /\ ~row.asleep /\ deploy # "retire"
       THEN row' = [row EXCEPT !.asleep = TRUE] /\ sleeper' = To("config", sleeper.gen)
       ELSE sleeper' = Idle /\ UNCHANGED row
    /\ Free /\ UNCHANGED <<box, World, job, Patrols, waker, limiter>>

\* The domains go to the wake endpoint, or the service stays awake.
SleepConfig ==
    /\ sleeper.at = "config"
    /\ \/ /\ WriteConfig /\ sleeper' = To("stop", sleeper.gen)
          /\ Free /\ UNCHANGED row
       \/ /\ row' = [row EXCEPT !.asleep = FALSE] /\ sleeper' = Idle
          /\ Spend("fault") /\ UNCHANGED route
    /\ UNCHANGED <<box, deploy, job, Patrols, waker, limiter>>

\* A failed stop is logged only: the service sleeps with its container up.
SleepStop ==
    /\ sleeper.at = "stop" /\ sleeper' = Idle
    /\ \/ box' = Stopped(sleeper.gen) /\ Free
       \/ UNCHANGED box /\ Spend("fault")
    /\ UNCHANGED <<row, World, job, Patrols, waker, limiter>>

-----------------------------------------------------------------------------
(* The wake endpoint: wakeService                                          *)

\* A visitor's request at the wake endpoint; one wake is shared.
WakeBegin ==
    /\ waker.at = "idle" /\ route = "wake" /\ row.asleep
    /\ waker' = To("docker", row.gen)
    /\ Free /\ UNCHANGED <<row, box, World, job, Patrols, sleeper, limiter>>

WakeDocker ==
    /\ waker.at = "docker"
    /\ \/ /\ Present(waker.gen) /\ box' = Started(waker.gen)
          /\ waker' = To("probe", waker.gen) /\ Free
       \/ /\ waker' = Idle /\ UNCHANGED box
          /\ IF Present(waker.gen) THEN Spend("fault") ELSE Free
    /\ UNCHANGED <<row, World, job, Patrols, sleeper, limiter>>

\* The healthcheck: a container that is up may fail it, one that is down does.
WakeProbe ==
    /\ waker.at = "probe"
    /\ \/ /\ box[waker.gen] = "up" /\ waker' = To("clear", waker.gen) /\ Free
       \/ /\ waker' = To("undo", waker.gen)
          /\ IF box[waker.gen] = "up" THEN Spend("fault") ELSE Free
    /\ UNCHANGED <<row, box, World, job, Patrols, sleeper, limiter>>

\* Stopped again, and asleep as before; a stop that fails is not noticed.
WakeUndo ==
    /\ waker.at = "undo" /\ waker' = Idle
    /\ \/ box' = Stopped(waker.gen) /\ Free
       \/ UNCHANGED box /\ Spend("fault")
    /\ UNCHANGED <<row, World, job, Patrols, sleeper, limiter>>

\* Fault: the sleep is over, the routes stay.
WakeClearOnly ==
    /\ waker.at = "clear"
    /\ row' = [row EXCEPT !.asleep = FALSE] /\ waker' = To("answer", waker.gen)
    /\ Free /\ UNCHANGED <<box, World, job, Patrols, sleeper, limiter>>

WakeClear ==
    /\ waker.at = "clear"
    /\ IF row.asleep
       THEN row' = [row EXCEPT !.asleep = FALSE] /\ waker' = To("config", waker.gen)
       ELSE waker' = To("answer", waker.gen) /\ UNCHANGED row
    /\ Free /\ UNCHANGED <<box, World, job, Patrols, sleeper, limiter>>

\* The domains go back to the service; a failed write ends the wake.
WakeConfig ==
    /\ waker.at = "config"
    /\ \/ WriteConfig /\ waker' = To("answer", waker.gen) /\ Free
       \/ UNCHANGED route /\ waker' = Idle /\ Spend("fault")
    /\ UNCHANGED <<row, box, deploy, job, Patrols, sleeper, limiter>>

\* The visitor is sent on to the service.
WakeAnswer ==
    /\ waker.at = "answer" /\ waker' = Idle
    /\ Free /\ UNCHANGED <<row, box, World, job, Patrols, sleeper, limiter>>

-----------------------------------------------------------------------------
(* A deployment as the others see it, the outside world, a panel restart   *)

DeployBegin ==
    /\ deploy = "none" /\ row.gen < MaxGen
    /\ deploy' = "building"
    /\ row' = [row EXCEPT !.status = "deploying"]
    /\ Free /\ UNCHANGED <<box, route, job, Patrols, Sleeping, limiter>>

\* The new release is up; it is the service's runtime, awake and routed.
DeployPromote ==
    /\ deploy = "building"
    /\ IF row.status = "stopped"
       THEN deploy' = "none" /\ UNCHANGED <<row, box, route>>
       ELSE /\ deploy' = "retire"
            /\ row' = [status |-> "running", gen |-> row.gen + 1, asleep |-> FALSE]
            /\ box' = Started(row.gen + 1) /\ route' = "app"
    /\ Free /\ UNCHANGED <<job, Patrols, Sleeping, limiter>>

DeployRetire ==
    /\ deploy = "retire" /\ deploy' = "none"
    /\ box' = [box EXCEPT ![row.gen - 1] = "gone"]
    /\ Free /\ UNCHANGED <<row, route, job, Patrols, Sleeping, limiter>>

\* The container dies and stays down, or somebody removes it.
Die ==
    /\ Spend("death") /\ box[row.gen] = "up"
    /\ \E s \in {"down", "gone"} : box' = [box EXCEPT ![row.gen] = s]
    /\ UNCHANGED <<row, World, job, Patrols, Sleeping, limiter>>

\* The panel restarts between deployments and writes its routes.
Restart ==
    /\ Spend("crash") /\ deploy = "none"
    /\ job' = [r \in Request |-> IF job[r].at = "new" THEN job[r] ELSE [job[r] EXCEPT !.at = "done"]]
    /\ patrol' = Idle /\ sleeper' = Idle /\ waker' = Idle /\ limiter' = Idle
    /\ WriteConfig
    /\ UNCHANGED <<row, box, deploy, excused>>

Patrol == PatrolList \/ PatrolInspect \/ PatrolCheck \/ PatrolStart \/ PatrolJudge
Route(r) == StopDocker(r) \/ StopRestore(r) \/ StopRoutes(r) \/ StartDocker(r) \/ StartWrite(r)
Limiter == LimitTrip \/ LimitDocker
Sleeper == SleepMark \/ SleepConfig \/ SleepStop
Waker == WakeDocker \/ WakeProbe \/ WakeUndo \/ WakeClear \/ WakeConfig \/ WakeAnswer
Deploy == DeployPromote \/ DeployRetire

Next ==
    \/ Patrol \/ Limiter \/ Sleeper \/ Waker \/ Deploy
    \/ \E r \in Request : StopBegin(r) \/ StartBegin(r) \/ Route(r)
    \/ LimitSample \/ SleepBegin \/ WakeBegin \/ DeployBegin \/ Die \/ Restart

Spec == Init /\ [][Next]_vars

\* The patrol's timer fires every minute and its pass goes on; visitors come to
\* the domains of a sleeping service; whatever else began goes on.
Underway == Limiter \/ Sleeper \/ Deploy \/ \E r \in Request : Route(r)

FairSpec == Spec /\ WF_vars(Patrol) /\ WF_vars(WakeBegin \/ Waker) /\ WF_vars(Underway)

-----------------------------------------------------------------------------
(* Properties                                                              *)

Quiet ==
    /\ {patrol.at, sleeper.at, waker.at, limiter.at} = {"idle"} /\ deploy = "none"
    /\ \A r \in Request : job[r].at \in {"new", "done"}

\* A stopped service stays stopped (F888, services.ts:1624-1629; F889/F940,
\* runtimeState.ts:229-239): once nothing is under way its containers are down.
\* The exceptions are a panel restart between a status and its docker command;
\* a stop whose docker command ran after the patrol or a wake had last looked at
\* the row and before its start (runtimeState.ts:235, sleep.ts:128); and of the
\* restart limit, a deployment it met (restartLimit.ts:143) and a docker stop
\* that failed, whose error it drops (restartLimit.ts:144-145).
StopSticks ==
    Quiet /\ row.status = "stopped" /\ ~excused /\ spent["crash"] = 0
        => \A g \in Gens : box[g] # "up"

\* A running service that is awake and down comes back, or is reported: the
\* patrol revives it, or says `error`.
ComesBack ==
    []<>(row.status # "running" \/ row.asleep \/ box[row.gen] = "up")

\* "the next request tries again" (sleep.ts:118-119): domains that reach the
\* wake endpoint of a running service reach the service in the end, unless
\* somebody removed its container.  A wake that cannot write the routes leaves
\* them (sleep.ts:139-149), and so does a restart limit that ends a sleep
\* (restartLimit.ts:143): neither happens here.
VisitorsGetThrough ==
    [](spent["fault"] = 0 /\ spent["trip"] = 0) =>
        ((route = "wake" /\ row.status = "running")
            ~> (route = "app" \/ row.status # "running" \/ box[row.gen] = "gone"))
=============================================================================
