# A TLA+ verification of NineDeploy's deployment core

NineDeploy is a self-hosted deployment panel. One Node.js process keeps its
state in a SQLite file, drives docker on its own host and on nodes through
agents, and writes the configuration of a Traefik proxy. This project models
what decides whether a deployment is *correct*: the gates that hold a queued
deployment and the CI jobs they wait for, the worker that claims it, the slots
that bound builds, the blue-green or canary transition from one running
generation of a service to the next, with the journal that finishes it when the
process dies in the middle, the ordered commands to a node's agent, and
everybody who starts and stops a service's containers afterwards.

Paths below are relative to `apps/server/src/`.

## 1. Inventory

| part | state | operations | hard because |
|---|---|---|---|
| deploy worker, `plugins/worker.ts` | `deployments` rows; in memory `inFlight`, `inFlightServices`, `generation`, timers, claim chain | poll, select, gate, claim, launch, stale sweep, boot recovery, stop/start | several loops over one table, selection and claim are two statements, crash at any point, stop and start while ticks are suspended |
| deploy queue and gates, `lib/deployQueue.ts`, `lib/ciGate.ts`, `lib/ciDeployGate.ts`, `lib/protectedLanes.ts`, `lib/deployFreeze.ts` | row status, `ciGate` receipt, freezes | enqueue, hold, settle, drop stale rows, freeze, lift | a held row is released while a newer deployment starts |
| deploy routes, `modules/deploys.ts`, `lib/deployAbort.ts` | row status, abort scopes | cancel | races every write of the pipeline |
| build slots, `engine/buildSlots.ts` | `active` counter and queue per build host | acquire, release, pump | the capacity is a database read: it is stale when used |
| pipeline, `engine/pipeline.ts` | deployment row, service row, containers, routing file | claim, build, probe, finalize, persist, flip, promote, retire, revert, unwind | five kinds of state change in separate steps, each may fail, be cancelled or be cut off |
| primary recovery, `engine/primaryRecovery.ts` | `primary_transitions` row (journal), leases, what a lease saw loaded | open, confirm, retire, complete, reconcile | acts on a transition whose pipeline may still be running |
| interrupted runtimes, `engine/interruptedRuntime.ts` | containers | remove candidate, start stopped generation | runs at boot on what a dead process left |
| routing acknowledgement, `lib/proxyRoutingAck.ts`, `engine/proxy.ts` | routing file, Traefik's loaded configuration | write, acknowledge, time out | loading is asynchronous: a written file is not a served one |
| service routes, `modules/services.ts` | service row, containers | stop, start | run beside a deployment of the same service |
| CI jobs and runners, `lib/ci.ts`, `lib/ciSource.ts`, `ciRunner.ts` | `ci_jobs`, `ci_job_attempts`, runners; the runner's own work | submit, approve, claim, heartbeat, source, report, cancel, revoke, sweep of lost attempts | panel and runner crash separately, a lost attempt's runner may still be working, handlers are chains of single statements |
| CI logs, `lib/ci.ts`, `ciRunner.ts` | `logSeq`, the log file, the runner's buffer | ship, append, answer, give up | a repeated chunk meets its first handler; counting and storing are two steps |
| canary, `engine/canary.ts`, `engine/canaryState.ts`, `engine/primaryCanaryTraffic.ts` | in-memory registry, service row, journal, loaded routes | step, watch, promote, roll back, switch, cancel, recover | every routing write of the panel renders the split; the recovery may own the transition while the pipeline still runs |
| runtime patrol, sleep and wake, restart limit, `plugins/runtimeState.ts`, `lib/sleep.ts`, `modules/wake.ts`, `lib/restartLimit.ts` | service row, `asleepAt`, containers, routes | inspect, revive, judge; sleep, wake; sample, trip | five actors share one row and no lock, and each acts on a row it read before an await |
| node ownership and agent journal, `lib/nodeLifecycle*.ts`, `lib/nodeRuntimeMutation*.ts`, `lib/nodeDeployment*.ts` | epochs, intents, preparations; per service a journal on the node | stop, start, restart, prepare, recover; claim, effect, receipt | requests outlive their senders, arrive late or twice; either side may die |
| cross-process lock, `lib/crossProcessLock.ts` | a lock file with a token and an age | acquire, heartbeat, take over, release | a protocol of system calls between processes that may die or be suspended between any two |
| swarm, autoscaler, fan-out, databases and backups, doctor, kernel, clients | | | not modelled, see section 8 |

The parts interact through the database. Triggers insert `queued` rows; the
worker claims them and calls the pipeline, which takes a build slot, starts the
candidate, opens a journal, writes the service row, renders the routing file
from it and waits for Traefik. The cancel and stop routes only write rows (and
stop one container): the pipeline finds out at a checkpoint or in the guard of
its next write. After a crash the worker's boot recovery sorts the rows, and
the primary recovery, a timer, finishes the journaled ones.

What makes each part correct:

- *worker*: no two pipelines of a service at once; at most the configured
  builds per server; nothing that ended is run again; everything that was asked
  for ends; `stop()` really stops.
- *build slots*: exact accounting, no more builds than the capacity ever was,
  no lost wakeup, first come first served.
- *transition*: the container that serves is never removed; the service row
  never names a removed one; success is recorded only for what is loaded and
  up; a committed retirement is final; nothing is left over, and no transition
  stays open.
- *gates*: newer code is never followed by older; a review is of the commit that
  is built; one deployment waits, and not for ever.
- *CI*: a job has one result, of one attempt at a time, and lives the life its
  callers rely on; its log is in order and complete.
- *canary*: what gets traffic runs; all traffic moves only when it was earned;
  a canary always ends, and a cancel gives the traffic back.
- *runtime*: a stopped service stays down, a running one comes back, visitors of
  a sleeping one get through.
- *node commands*: the newest accepted command wins, whatever arrives late.
- *lock*: one holder, and never none for ever.

## 2. Modules

| module | models | composed with |
|---|---|---|
| `BuildSlots` | `engine/buildSlots.ts`, one build host | |
| `BuildSlotsProofs` | theorems about `BuildSlots` | extends it |
| `DeployWorker` | `plugins/worker.ts`; queue, CI gate, freezes, cancel route as far as the table sees them; a pipeline as the writes to its row | abstracts `DeployTransition` to rows and journal states |
| `DeployTransition` | pipeline from claim to retirement, journal, recovery, stop/start/cancel routes, proxy, restart, for one routed docker service | |
| `DeployGates` | `nextClaimable` with the GitHub gate, the runner gate, approvals and freezes, their schedulers, and the build's last guards, for one service | instantiates `CiJobLife` as its jobs; refines the gate that `DeployWorker` abstracts |
| `CiJobLife` | what a CI job promises to the rest of the panel | |
| `CiRunner` | `lib/ci.ts`, `lib/ciSource.ts`, `ciRunner.ts`, statement by statement | implements `CiJobLife` (`ImplementsJobLife`) |
| `CiLog` | shipping and storing of an attempt's log | |
| `CrossProcessLock` | `lib/crossProcessLock.ts`, system call by system call | |
| `ServiceRuntime` | patrol, stop and start routes, sleep, wake, restart limit, one service on the panel host | sees a deployment as the steps `DeployTransition` takes apart |
| `Canary` | canary steps, registry, switch, cancel, recovery | refines the flip of `DeployTransition` for canary releases, one step per container generation |
| `NodeLifecycle` | commands, preparations and recovery of the panel; journal and docker of a node's agent | the other side of the rows that `DeployWorker` holds for a node |
| `DeployWorkerProofs`, `DeployTransitionProofs`, `CiRunnerProofs`, `CiLogProofs`, `CrossProcessLockProofs`, `CanaryProofs`, `NodeLifecycleProofs` | theorems about the module each is named after, section 6 | extend it |
| `MC...` | instances for TLC | |

Definitions marked `Fault:` are wrong variants of the definition that follows
them. They are not part of any specification; substituted for it they show that
each property can fail.

### Steps and the database driver

A step is what runs between two suspension points. For docker, the proxy and
timers that is every `await`. For the database it depends on the driver: the
panel always opens a `file:` URL (`config.ts:24`), and the embedded libsql
driver executes a statement before its promise is returned, so a chain of
awaits on statements alone runs as microtasks, and no request, timer or other
chain comes between. The constant `DriverSuspends` chooses: `FALSE` is the
shipped driver, `TRUE` lets other actors in between statements, as a remote
database would: in `DeployWorker`, `CiRunner` and `CiLog` before every statement
that is an action of its own, in `DeployTransition` at four points only (before
`Finalize`, `Persist`, `Revert` and `Promote`). The UPDATEs that `Claim`, `Revert` and `Promote` make in a row stay one
step there with either value, which is what the shipped driver does; what a remote
database would let in between them is not modelled. Properties that hold under
`TRUE` are checked under `TRUE` (seats, stop/start, and `DeployTransition` up to
that), and the safety of
`CiRunner` under both (its constant `Drivers` is the set of drivers, one of which
an initial state chooses); `CiLog` and `DeployGates` are checked under `FALSE`. In
`DeployWorker` the others are checked under `FALSE`, because with a suspending
driver a cancel could land between claim and launch, and the sweep's UPDATE,
which has no status guard, could overwrite a row that ended since it was
selected. Neither can happen with the shipped driver.

### BuildSlots

`active`, `queue` are the two maps of the closure at one key; `pc`, `seen` are
each `acquire`'s position and local capacity, `pump`, `pumpSeen` those of the
pump its release started. `Acquire`, `ReadCapacity`, `Enter` are `acquire` cut
at its read; `Release` decrements and starts a pump, which is `PumpRead` and
`PumpGrant`. `Configure` is the administrator changing `build_concurrency`;
capacities include 0, a value above 8 and a read that throws. `ceiling` is a
history variable.

### DeployWorker

`status`, `started`, `aged`, `receipt`, `journal`, `frozen` are the tables. A
tick goes through `Fire`, `CountSeats`, `SelectQueued`, `Consider`, `Gate`,
`Claim`, `Launch` (one per statement of `nextClaimable` and `tick`);
`claimChain` is `withClaimLock`. A run goes through `RunRead`, `RunClaim`,
`RunJournal`, `RunFinalize`, `RunPromote`, or `RunAbort`/`RunLoseLease`, and
`RunExit`. `SweepSelect`/`SweepWrite` are the stale sweep, `Boot`,
`RecoverRow`, `RecoverRowFails`, `BootDone` the start of the process, `Stop`,
`StopDrain`, `StopDone`, `StopGraceOver`, `Start` the two worker methods.
`RecoverSettle` and `RecoverDone` are what the primary recovery does to a row.
Left out: rows with the legacy provisioning marker, node stop handoffs; the
approval gate, the runner gate and the expiry of receipts are in `DeployGates`.

### DeployTransition

`row`, `svc` (status and runtime), `journal` are table rows; `box` the
containers, one per generation, named by the deployment that created it;
`proxy.file` the runtime the routing file names and `proxy.loaded` the one
Traefik routes to; `run`, `rec`, `req` the pipeline, a recovery cycle and a
stop or start request under way. A lease's `belief` is `loaded` with
`loadedFingerprint`: the service row it saw acknowledged. `Retire` is
`lease.retire`, reached from the success path (victim: previous), from the
revert, the restore and the late cancel (victim: candidate); `run.then` says
where the caller goes on. `Restart` is the death of the process and the boot
recovery in one step. `hostPorts` is chosen at the start from `PortModes`. Left
out: replicas and spares, compose, PM2, swarm and node branches, a service
without port or active domain (it has no journal), the restart route, and more
than one request at a time. The canary is in `Canary`, the runtime patrol in
`ServiceRuntime`.

### DeployGates

`row` has the status, the commit, the commit that was reviewed and the GitHub
receipt of each deployment; `life`, `tries`, `tested` are its latest CI job, `on`
the gates that are on. `pass` is one run of `nextClaimable`: `PassStart` reads
the rows, whether any freeze is in force and whether the partition has a seat;
then each row is skipped, held by the first gate that applies
(`HoldForRunnerCi`, `HoldForGithubCi`, `HoldForApproval`), or claimed;
`DropForHeld` and `DropForStarted` are `dropStaleApprovals`. `SettleRunnerGate`
and `StopOrphan` are `settleRunnerCiGates`, `PollLease`, `PollPin`, `PollVerdict`
and `PollGivesUp` the GitHub check with its network waits, `Build` the last
guards of the pipeline. The branch moves at any time (`HeadMoves`), operators
switch gates, freezes expire by the clock, receipts age.

### CiJobLife, CiRunner, CiLog

`CiJobLife` has six steps: submit, approve, start, retry, finish, cancel.
`CiRunner` implements them with the statements of `lib/ci.ts`: `ops` are handlers
under way, each at the statement it is about to run, so that claims, heartbeats,
reports, cancels and the sweep interleave; `work` is the runner's side (checkout,
run, report, with lost answers and its own crash); `attempt` the rows of
attempts. The mapping is `life <- job[j].status`, `tries <- job[j].attempts`.
`CiLog` is one attempt's log: the runner has one chunk outstanding, retries it
over connections that break, and stops after `MaxTries`; a handler on the panel
reads the count, checks the number, updates the count conditionally, appends and
answers, and several handlers of the same chunk may run. The append may fail after
the count is committed (`StoreFails`): the answer is an error, the runner tries the
chunk again, and its count makes that a repeated one.

### CrossProcessLock

`path` is the file at the lock's name, `own` the file a process made, `aside` the
one it moved away. `Open`, `Stat`, `Wait` are the loop of an acquisition,
`Rename`, `Judge`, `Link`, `Drop` the takeover of a stale file, `Release` and
`Unlink` the two system calls that give a lock back. A heartbeat keeps a holder's
file fresh unless the process is suspended (`stalls`, counted by an `Age` of its
file); a file of a dead process goes stale. `MovedAside` says that a takeover has
the file of a live holder; `window` records that such a file lost the path
meanwhile, to another one (`Replaces`) or to the death of the process that moved
it: what the code calls the residual window.

### ServiceRuntime

`row` has status, generation and `asleep`; `box` docker's state per generation,
`route` whether the domains go to the service or to the wake endpoint. `patrol`,
`sleeper`, `waker`, `limiter` and `job` are the actors, each at the await it is
in and with the generation it read; every action is what runs between two awaits
on docker, the network or the routing write. A docker command that fails is an
error for a start or a stop request, is reported by the patrol, and is swallowed by
the sleeper, the wake's undo and the restart limit. `excused` records that a stop
met one of the exceptions of `StopSticks` (section 4).

### Canary

`active` is the registry entry, `row` the service's runtime, `loaded` the routes
with their split, `journal` who holds the transition's lease. The pipeline goes
through `Begin`, `SetStep`, `Before`, `WriteStep`, `Watch`, back or to `Held`,
`Final`, `Flip`, `Switch`, `Drain`, with `Catch`/`Rollback`, `Unwind`, `Revert`
and `Retire` as failure paths; the recovery through `RecoverClaim`,
`RecoverEnd`, `RecoverSelect`, `RecoverConfirm`, `RecoverRetire`. `OtherWrite` is
any other routing write of the panel, which renders the split too.

### NodeLifecycle

`epoch`, `kind`, `phase` are the newest mutation and how far it is, `owed` and
`targets` the runtimes a command captured, `prep` the preparation of a
candidate. Requests carry `4 * epoch + phase` as revision. `ops` are requests in
the network or in the agent; `head` is the agent's journal, `cont` what docker
runs. `Claim` and `Effect` are the two transactions of the agent, `Docker` and
`Commit` happen inside the second. `Accepts` is what the agent asks of the containers
before it touches one (a stop and a start want all of them there, the removal after
a stop refuses one that runs), `Goal` what it confirms afterwards. `Fails` is any
failure of a call, with a part of its docker commands done, `Orphan` an agent that
dies while the docker command it is at lives on, to land (`OrphanLands`) on whatever
it finds by then. `Confirm` is readiness and routing: the selected runtime must be up
in the readiness phases, and again before routing in a run that did not see it
(`ready`). A request's number is free again once the request is answered, so that a
command held for good has finitely many states.

## 3. Runs

| run | question | bounds |
|---|---|---|
| `build_slots` | accounting, oversubscription, lost wakeup, queue contents; is every build served, in order | 4 builds, capacities 0, 2, 9 and unreadable |
| `deploy_worker` | overlap of pipelines, rows in progress, running releases, ended and running rows; does every deployment end | 2 deployments of a service on a node, 1 cancel, 1 crash, 1 freeze, 1 fault; the first gated by CI, both may turn stale, the second is journaled |
| `deploy_worker_stop` | seats per partition, quiet after stop, number of loops | 3 services on one host, 2 loops, 1 stop/start, every statement a suspension |
| `deploy_transition` | serving container, routing, success, commit, leftovers; do transitions settle | 2 releases with and without host ports; 1 cancel, 1 stop/start, 1 crash, 1 fault, 2 failed routing writes; other actors also enter at the four points between statements (section 2) |
| `deploy_transition_stop` | *violation*, section 4 | one stop |
| `ci_runner` | one result, one running attempt, nobody forgotten, the abstract life | 1 job of 2 attempts, 1 runner; 1 crash of the runner and of the panel, 1 revocation, 1 cancel; both drivers |
| `ci_log` | order, completeness, progress | 3 chunks, room for 2, 2 tries each, 1 panel restart, 1 failed append |
| `deploy_gates` | shipping order, waiting rows, reviews, failed and orphaned jobs, waits that end | 2 deployments, 2 commits, a lane with the runner gate, the GitHub gate or a freeze; 1 switch, expiry, restart or aged receipt |
| `cross_process_lock` | exclusion, kept files, progress | 3 processes, 2 crashes or failed writes, 1 suspended holder |
| `service_runtime` | stopped stays down, running comes back, visitors get through | 1 stop or start, 1 deployment, up to 3 of: a sleep, a trip, a death, a fault, a restart |
| `canary` | routed is up, the switch is earned, no split left; canaries settle, cancels return | 2 deployments of 2 steps, 2 failed writes, 1 unhealthy release, 1 lapsed lease, 1 cancel, 1 restart |
| `node_lifecycle` | completed commands hold, candidates are recorded; commands end, candidates go | 2 mutations of any kind, 1 failure, 1 agent death with a live docker command |

Why the bounds are enough. Two deployments of one service give a previous and a
candidate generation, and a second transition on what the first one left; the
three services of `deploy_worker_stop` compete for two seats. Two loops give
every race between selection and claim, three processes every
takeover of a lock with a third contender beside it, two attempts every meeting of a lost one and its retry, two mutations every late
request against a newer command. A fault is one event of a named kind, so one
fault with one crash or two failed writes cover a failure of the failure path.
Environment events of one module share a budget (`MaxEvents`) where all of them
at once would only multiply the states: what matters is which two or three
meet. Deadlock is checked for `DeployWorker`, whose loops poll for ever, and for
`CrossProcessLock`; the other configurations say `CHECK_DEADLOCK FALSE`,
because there the system may rest: every deployment, job or command ended, and
every budget is spent.

What is listed as a property of a run is one promise of the code; where a promise
has parts that are named on their own, the property is their conjunction:
`OneRowOfAKind` (`OneActiveRow`, `OneRunningRelease`), `NothingRevived`
(`EndedStaysEnded`, `RunningRowKept`), `StopIsClean` (`QuietAfterStop`,
`LoopsBounded`), `RestIsClean` (`RoutingFollows`, `RunningIsUp`,
`NothingLeftOver`), `OnlyNewestWaits` (`ShipsInOrder`, `OneWaiting`),
`VerdictsBind` (`ReviewCoversCommit`, `FailedJobIsFinal`), `MutationsEnd`
(`CommandEnds`, `CandidateGoes`). Every module has a type invariant `TypeOK`. It
holds on the instance of each run, but only that of `BuildSlots` is among the
properties: the others say nothing about the code that the properties beside them
do not need anyway. Eight of them are proved (section 6).

Conditions on properties. A property that the code only keeps up to some event
says so itself, as a condition on what was spent of that event's budget; the run
allows the event, so that the other properties meet it. Lifting a condition makes
the run show the window.

- `NothingLeftOver`: no docker fault and no crash. A failed removal outside a
  transition is swallowed (`builder.stop(...).catch`), and a crash between a
  cancel and the removal leaves a row that the boot recovery does not look at;
  such containers are what the Doctor reports.
- `RunningIsUp`: no failed routing write, no request and at most one fault. A
  host-port deployment reverted after two failed writes or two failed
  acknowledgements leaves the previous container exited with the row `running`;
  the runtime patrol brings it back (`ComesBack`). And a container that a failed
  removal or a restart left behind may hold the ports that the service's runtime
  needs; without a fault or a crash `NothingLeftOver` says there is none.
- `TransitionsSettle` asks nothing while the runtime of the service row is not
  up and the service is not stopped: the recovery then holds the generations
  for review, by design.
- `RunningIsTended`: no panel restart. `StopSticks`: no panel restart, none of the
  windows of section 4, and no docker stop of the restart limit that failed.
- `AckedIsStored` has no condition: it bounds the chunks lost by the panel restarts
  and the failed appends.
- `ShipsInOrder`: no freeze expired. `OneWaiting`: no gate switched, no freeze
  expired, no restart. `FailedJobIsFinal`: no gate switched, no restart.
- `Exclusive`: no holder was suspended for longer than `staleMs`, and the residual
  window was not hit.
- `VisitorsGetThrough`: no routing write fails and no restart limit trips.
- `CancelReturns`: no health check fails and no lease lapses.
- `CommandHolds`, `CandidateIsRecorded`: no docker command outlives its agent.
  `MutationsEnd` covers such commands too: it excepts a command only while the docker
  command of a dead agent contradicts it (`Contradicted`), in the three ways of
  section 4.

## 4. Findings

- `deploy_transition_stop` / `StoppedStaysDown`. A stop during a build writes
  `stopped`, cancels the row and stops the running container. The pipeline's
  next checkpoint sees the cancel, and its failure path revives the previous
  runtime without reading the service row (`engine/pipeline.ts:1857-1859`):
  the service shows `stopped` and its container runs. The stop route
  (`modules/services.ts:1633-1634`) and `docs/DEPLOYMENTS.md:156` say it must
  not be reinstated.

Known windows. The models reach these too; a condition above keeps each of them
out of a property.

| where | what | condition |
|---|---|---|
| `engine/pipeline.ts:2130-2135` | both routing writes of a first deployment fail: `retire` refuses, because routing was touched and nothing confirmed, so the candidate keeps running, the recovery holds on every cycle and the journal blocks later deployments | `TransitionsSettle` asks nothing without an up runtime |
| `engine/pipeline.ts:2096-2119` | both attempts to route a host-port deployment fail: the row is given back to the previous generation, which was stopped for its ports, the candidate is retired, and nothing starts the previous one again: the service shows `running` and is down until the patrol comes by | `RunningIsUp` |
| `engine/pipeline.ts:1993-1996` | a removal that fails is swallowed, and a restart after a cancel leaves a candidate no recovery looks at: it holds its host ports, so that the previous generation cannot be started, and the service shows `running` | `RunningIsUp`, `NothingLeftOver` |
| `lib/ci.ts:277-289` | the panel dies between the statements that start a job, insert its attempt and link it (or in `loseAttempt`): the job is `running` without an attempt, and no sweep finds it, against `docs/CI_RUNNERS.md:170` | `RunningIsTended` |
| `lib/ciSource.ts:49` | a checkout that outlives its attempt overwrites the commit a retry pinned and tested, against `docs/CI_RUNNERS.md:133` | not stated |
| `lib/ci.ts:355-365` | the panel dies between counting and storing a chunk, or the append throws (disk full): the retry is answered as repeated, and the chunk is lost | `AckedIsStored` allows one for each |
| `lib/deployFreeze.ts:150` | the clock is read for every row of a pass: a freeze that ends between two rows of a service lets the newer one pass | `ShipsInOrder` |
| `lib/protectedLanes.ts:195` | only older rows are dropped: a gate switched on holds an older row after a newer one, and two wait | `OneWaiting` |
| `lib/ciDeployGate.ts:92` | a row with a GitHub receipt that is held for a runner job is settled by the GitHub poll, although its job failed | `FailedJobIsFinal` |
| `lib/crossProcessLock.ts:142` | a takeover decided on an old file moves the live lock of a newer holder aside; before it is put back a third contender creates the path, as the comment at line 134 says, or the process that moved it dies: two hold the lock | `Exclusive` (`window`) |
| `lib/crossProcessLock.ts:97` | a release suspended between reading its token and the unlink removes the file of a later holder | `Exclusive` |
| `lib/sleep.ts:128` | a wake starts the container of a row it read before a stop | `StopSticks` (`excused`) |
| `lib/restartLimit.ts:143` | `stopped` is written by service id after a sample: a deployment promoted meanwhile is marked stopped and runs on; a sleep it ends leaves the routes at the wake endpoint | `StopSticks` (`excused`), `VisitorsGetThrough` |
| `lib/restartLimit.ts:144-145` | a docker stop of the restart limit that fails is swallowed: the row says `stopped`, the container runs, and nobody looks at it again | `StopSticks` (`excused`) |
| `lib/sleep.ts:106-108`, `136` | a docker stop that fails is swallowed: the service is asleep, or back at the wake endpoint, and its container runs until the next sleep or stop | not stated |
| `plugins/runtimeState.ts:240-248` | the patrol's last look does not ask whether the service fell asleep, and starts it | not stated |
| `lib/sleep.ts:103-111` | the sleeper's docker stop lands after a wake that began meanwhile and answered | not stated |
| `lib/sleep.ts:139-149` | a routing write that fails at the end of a wake leaves the domains at the wake endpoint of an awake service | `VisitorsGetThrough` |
| `lib/spawnValidated.ts:111` | a docker command in a process group of its own outlives the agent and lands after a newer, completed command | `CommandHolds`, `CandidateIsRecorded` |
| `lib/nodeLifecycle.ts:234`, `286-289` | the docker start of a dead agent lands on a candidate after the stop's receipt: the repeated stop gets its receipt, the removal refuses a running container, and the stop is held for as long as that runs | `MutationsEnd` (`Contradicted`) |
| `lib/nodeLifecycle.ts:326` | the removal of a dead agent lands on a container that a newer stop has captured: the stop cannot inspect it and is held | `MutationsEnd` (`Contradicted`) |
| `lib/nodeLifecycleController.ts:213-223` | the docker stop of a dead agent lands after a start's receipt: the start is not applied again, and readiness fails for as long as the container is down | `MutationsEnd` (`Contradicted`) |

## 5. Fairness

- `BuildSlots`: reads complete, continuations run, and a build ends, since each
  of its steps has a timeout and the release is in a `finally`.
- `DeployWorker`: timers fire, statements complete, pipeline steps have
  timeouts, the process is restarted by its supervisor, freezes end, the CI
  deadline settles a waiting row, and the recovery of a journal finds a healthy
  generation in the end. Strong fairness is needed because an actor is disabled
  while a chain of statements of another one runs, again and again, but never
  for good: a poll every two seconds leaves gaps.
- `DeployTransition`: docker and proxy operations have timeouts, the recovery
  runs every minute, Traefik watches its file, and a request under way ends.
- `DeployGates`: the worker's pass goes on, the schedulers run every two seconds
  also between two passes, and GitHub's verdict comes in: if nothing else, the
  gate's deadline. Strong, because a pass locks the others out again and again.
  No runner has to take a job.
- `CiLog`: requests are answered or break, handlers go on.
- `CrossProcessLock`: processes go on and keep asking; a stale file turns stale.
- `ServiceRuntime`: the patrol's timer fires and its pass goes on, visitors come
  to the domains of a sleeping service, and whatever else began goes on.
- `Canary`: every wait of a pipeline has an end, and the recovery runs every
  minute.
- `NodeLifecycle`: the dispatcher and the recovery look again every second, a
  request the agent has got is served, and docker commands end.

Where several actors only ever take finitely many steps, one fairness condition
covers their union: it is weaker than one for each, and enough, because none of
them can keep the union busy for ever. No fairness is given to cancels, stops,
switches, crashes or faults.

## 6. Proofs

Every theorem holds for all values of the constants that satisfy the named
assumptions of its module: bounds are natural numbers, sets of rows, builds and
processes are finite, capacities may be anything. A bound such as `MaxCrashes` is
any number, so the theorems cover any number of crashes, faults or retries. Each
inductive invariant was checked by TLC before it was proved. Two hypotheses occur:
`~DriverSuspends` is the shipped driver (section 2), and `Aging = {}` says that no
row gets older than `STALE_BUILDING_MS`, so that the sweep finds none.

| module | theorem | hypothesis |
|---|---|---|
| `BuildSlotsProofs` | `TypeCorrect`, `NoLostWakeupHolds`, `NeverOversubscribedHolds`, `SlotsAccountedHolds`, `NoOvertakingHolds` | |
| `DeployWorkerProofs` | `TypeCorrect`, `StopIsCleanHolds` | |
| | `OnePipelineHolds` | `~DriverSuspends` |
| | `OneRowOfAKindHolds`, `NothingRevivedHolds`, `SeatsRespectedHolds` | `~DriverSuspends \/ Aging = {}` |
| `DeployTransitionProofs` | `TypeCorrect`, `ServingExistsHolds`, `CommitIsFinalHolds`, `RoutedIsKeptHolds`, `SuccessIsRealHolds`, `RestIsCleanHolds` | |
| `CiRunnerProofs` | `TypeCorrect`, `OneResultHolds`, `RefinesJobLife`, `RunningIsTendedHolds` | |
| `CiLogProofs` | `TypeCorrect` | |
| | `InOrderHolds`, `AckedIsStoredHolds` | `~DriverSuspends` |
| `CrossProcessLockProofs` | `TypeCorrect`, `ExclusiveHolds` | |
| `CanaryProofs` | `TypeCorrect`, `RoutedIsUpHolds`, `SwitchIsEarnedHolds` | |
| `NodeLifecycleProofs` | `TypeCorrect`, `CommandHoldsAlways`, `CandidateIsRecordedHolds` | |

The conditions that a property carries itself (section 3) are part of what is
proved; `RunningIsTended` has the driver among them.

**BuildSlots.** `TypeOK` is inductive: the capacities held across an await stay in
`1..MaxCapacity` (`ClampRange`), and the queue stays a sequence of builds when a
pump takes several from its head (`GrantsFacts`). `NoLostWakeup` is inductive with
it: a build enters the queue only behind others or with a slot held, a release of
the last slot starts a pump, and a pump that ends with builds queued has granted
one. `NeverOversubscribed` is not: a capacity that was read and not yet used must
be at most `ceiling` too (`ReadsBelowCeiling`). `SlotsAccounted` needs that only a
build with a slot has released it (`ReleasedHolds`), and that the head of a queue
without repetitions has as many builds as its length (`HeadCardinality`);
`NoOvertaking` is then a fact about each step: a build takes a free slot only while
the queue is empty, and a pump grants from the head.

**DeployWorker.** `Base` (types; nothing runs in a process that is down; ticks past
their selection have a row; a tick reads and claims only as the owner of the claim
lock) holds with any driver. `RowsInv` has what the table needs: at most one chain
of statements at a time (`Alone`), what the sweep selected is still in progress
(`Swept`), the sets in flight name every pipeline and no tick holds a row of a
service they name (`Tracked`), a claimed row is not queued (`Begun`). The
properties are not inductive without it: selection and claim are two statements,
and a pipeline may outlive its row. `SeatsRespected` adds that a count taken under
the lock never falls below the seats taken since (`SeatsCounted`): rows may end
behind it, none can begin. `StopIsClean` rests on `StopInv` (what is launching, then
what runs, is among what the stop waits for) and `LoopsInv` (no loop is of a later
generation). The steps that can begin, end or requeue a row are classified once
(`Begins`, `Ends`, `Succeeds`, `IsRequeued`), so each invariant is proved against
these few cases.

**DeployTransition.** `Inv` is the argument of blue-green deployment, for any
driver and any number of deployments, crashes, faults, cancels and requests. A
transition is journaled between two generations and has one owner, the pipeline
or the recovery (`Journaled`, `Phased`); the service row names the generation that
its owner's stage says, and the one committed to once it is retiring (`Named`);
both containers exist until one is committed to retirement (`BothKept`); what is
about to be removed is neither named nor loaded, and no other actor will name it
(`Removing`); what a lease believes of the proxy is so while the lease lasts
(`Believed`); outside a transition, and once the recovery has confirmed them, the
routes are the row's (`Routed`). None of the properties is inductive without these:
a removal runs several awaits after the checks that allow it, and the recovery may
have taken the lease in between, after which the pipeline's next write must miss.
`ServingExists` is a part of `Inv`; `CommitIsFinal`, `RoutedIsKept` and
`SuccessIsReal` are facts about one step from it. Each of the actions is first
summed up in a lemma (`...Does`), and the steps are classified by what they do to
containers, rows, service row and journal (`BoxSteps`, `RowSteps`, `SvcSteps`,
`JournalSteps`), so that each part of the invariant is proved against few cases.
`RestIsClean` needs a second layer, `Quietly`, under the conditions the property
carries: as long as nothing failed and nothing died, every container is one of the
generations the row, the pipeline or the journal knows (`Tracked`); and as long as
nobody asked and at most one fault occurred, the row says `deploying` wherever the
previous generation may be down (`Deploys`), and what is routed is up (`Ups`,
`Ends`, `Rests`). Both layers were checked with TLC on the run's instance and with
two crashes and three faults. The proof showed that the condition of `RunningIsUp`
on faults, which holds on that instance, is needed in general (the two windows of
`engine/pipeline.ts` in section 4).

**CiRunner.** `RunnerInv`: an attempt that runs or has a result is its job's last
(`ResultIsLast`), so is the one a job names, a claim under way is for the last
attempt of a job that names none yet and is the only one of it (`ClaimIsLast`,
`OneClaim`), and the second statement of a handler finds what its first one wrote
(`LostFirst`, `ClosedFirst`). It makes `OneResult` follow, and it makes every
conditional update that succeeds a step that `CiJobLife` allows, which is the
refinement: for each statement, a step of the abstract job or a stutter.
`RunningIsTended` needs `TendInv` in addition, which says what tends a job at each
point of a handler.

**CiLog.** `LogInv`: one handler is past its check at a time (`OneBusy`), it knows
that its chunk follows the count (`BusyKnows`), and nothing is stored before it is
counted. What is counted and neither stored nor in that handler's hands (`Gap`) was
cut off by a panel restart or a failed append: each makes the gap larger by one
chunk at most (`GapGrows`), nothing else does (`GapKept`), so it has at most
`crashes + faults` chunks (`GapIsPaidFor`), and what an answer acknowledges is
counted (`AnsweredIsCounted`).

**CrossProcessLock.** `LockInv`: while nobody is suspended and the window was not
hit, a live lock is fresh, there is one, and it is at the path, or the path is free
and a takeover has it and has not decided to drop it. This is why the mover's
second look at the file is needed: `Stat` judged another file.

**Canary.** `RouteInv`: both releases of an open transition are kept, the registry
has the canary of that transition or nothing, and whoever may stop a release has
written it out of the routes (`NotYetRouted`, `WrittenAway`, `Switched`,
`Recovered`), each under the lease, which the recovery may have taken. `Earning`
carries the verdict from the last step to the switch.

**NodeLifecycle.** `NodeInv` is the argument of the epochs. On the panel, each phase
asks for one kind of request (`Suits`, `Waiting`), an answer that is not used yet
still holds (`Answered`), and a phase has the head of the journal that it needs
behind it (`Behind`). On the agent, requests of the newest mutation fit its kind and
phase (`Fits`), what works in docker is the head or a removal under it (`Docked`), a
receipt says what docker runs (`Receipts`), and a request that prepares a candidate
without a row is behind the head (`Shaped`). So once a request of the newest
mutation heads the journal, nothing older reaches docker. The invariant was checked
with TLC on the run's instance, with two failures in place of one, and on three
mutations with a failure and no orphaned command.

Only model-checked: the safety of `DeployGates` (`OnlyNewestWaits`, `VerdictsBind`)
and of `ServiceRuntime` (`StopSticks`), and the violated `StoppedStaysDown`, which
is a counterexample and needs no proof.
Every property that says something happens in the end
(`WaitersAreServed`, `EveryDeployEnds`, `TransitionsSettle`, `ShippingEnds`,
`OrphanStopped`, `CiWaitEnds`, `NeverWedged`, `ComesBack`, `VisitorsGetThrough`, `CanarySettles`,
`CancelReturns`, `MutationsEnd`) stays with TLC: liveness under fairness is outside
what the prover handles.

## 7. Plan

Done, in this order: `BuildSlots`, `DeployWorker`, `DeployTransition`, `CiRunner`
with its refinement of `CiJobLife`, `CiLog`, `DeployGates`, `CrossProcessLock`,
`ServiceRuntime`, `Canary`, `NodeLifecycle`; the proofs of section 6. Next:

1. Proofs about `DeployGates`, whose invariant says what a pass that is under way
   has read of rows and jobs that moved on, and about `ServiceRuntime`, where it
   says which generation each actor read and what `excused` excepts.
2. An abstract specification of a release (one serving generation, handed over
   atomically), implemented by `DeployTransition` and by `Canary`.
3. The swarm journal, which has the shape of the primary one; fan-out
   participants, sleep and autoscaling on nodes as further mutations of
   `NodeLifecycle`.

## 8. Not modelled

- Swarm deployments and recovery, fan-out to nodes, autoscaler, sleep on nodes:
  planned, above. Generations have one container here, so replica counts do not
  appear.
- Keyed operation guards and the log bus: promise chains and streams of a few
  lines that no deployment decision reads.
- Databases, backups and point-in-time recovery, authentication, webhooks and
  schedulers, plugin kernel, doctor and housekeeping, panel import and self
  update: independent of the deployment core, or seen only as callers of it.
- Image building, routing content, the database schema, translations, and the
  web, CLI, SDK and MCP clients: I/O, rendering and declarations. They are most
  of the repository's lines, and nothing in them is a state machine.
