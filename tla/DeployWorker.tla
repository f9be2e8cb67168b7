---------------------------- MODULE DeployWorker ----------------------------
(***************************************************************************)
(* The deploy worker of apps/server/src/plugins/worker.ts: polling loops   *)
(* that claim `queued` rows of the deployments table and launch their      *)
(* pipelines, the stale sweep, the recovery of interrupted rows at boot,   *)
(* and stop/start.  The pipeline (engine/pipeline.ts) appears as the       *)
(* sequence of writes it makes to its own row; the cancel route and the    *)
(* recovery timer are the other writers.                                   *)
(*                                                                         *)
(* A step ends at an await.  Whether another actor can run there depends   *)
(* on the database driver: with DriverSuspends every await is a            *)
(* suspension point; without it, a chain of awaits on statements alone     *)
(* (a whole tick, a whole sweep) runs undisturbed, as with the embedded    *)
(* file driver, which executes a statement before it returns.              *)
(***************************************************************************)
EXTENDS Integers, Sequences, FiniteSets

CONSTANTS
    Rows,            \* deployment ids: 1..n, in the order of creation
    ServiceOf,       \* [Rows -> services]
    PartitionOf,     \* [services -> servers]
    Local,           \* the panel host's partition (serverId null)
    Concurrency,     \* config.deployConcurrency
    Gated,           \* rows whose service requires CI before a build
    Aging,           \* rows that may grow older than STALE_BUILDING_MS
    Journaled,       \* rows whose pipeline opens a primary transition
    DriverSuspends,  \* see above
    MaxCancels, MaxCrashes, MaxStops, MaxFreezes, MaxFaults

Services == {ServiceOf[d] : d \in Rows}
Partitions == {PartitionOf[s] : s \in Services}
Ticks == 1..(Concurrency * (MaxStops + 1))
Runs == 1..Cardinality(Rows)

ASSUME RowsAssumption == Rows \subseteq Nat /\ IsFiniteSet(Rows)
ASSUME BoundsAssumption ==
    /\ Concurrency \in Nat \ {0}
    /\ {MaxCancels, MaxCrashes, MaxStops, MaxFreezes, MaxFaults} \subseteq Nat
    /\ DriverSuspends \in BOOLEAN
ASSUME PlacementAssumption ==
    /\ ServiceOf \in [Rows -> Services]
    /\ PartitionOf \in [Services -> Partitions]
    /\ Gated \cup Aging \cup Journaled \subseteq Rows

VARIABLES
    \* the deployments and primary_transitions tables
    status,          \* [Rows -> Statuses]
    started,         \* [Rows -> BOOLEAN]: started_at is set
    aged,            \* [Rows -> BOOLEAN]: started_at ?? created_at is over 45 min old
    receipt,         \* [Rows -> BOOLEAN]: the row passed its CI gate
    journal,         \* [Rows -> JournalStates]
    frozen,          \* services under a deploy freeze
    \* the worker's closure
    mode,            \* where the process is, see Modes
    generation,
    tick,            \* [Ticks -> [stage, gen, row]]
    claimChain,      \* ticks in withClaimLock, the holder first
    seats,           \* nextClaimable's perPartition
    candidates,      \* nextClaimable's queued rows not examined yet
    run,             \* [Runs -> [phase, row]]
    inFlight, inFlightServices,
    sweep,           \* the rows a sweep selected ({} between sweeps)
    settledAtBoot, interruptedRemote,
    toRecover,       \* rows recoverInterrupted still has to visit
    awaited,         \* what stop() waits for: [ticks, runs]
    budget           \* steps left of each bounded kind

tables == <<status, started, aged, receipt, journal, frozen>>
memory == <<inFlight, inFlightServices, settledAtBoot, interruptedRemote>>
loops == <<tick, claimChain, seats, candidates>>
control == <<mode, generation, toRecover, awaited>>
vars == <<tables, memory, loops, control, run, sweep, budget>>

Statuses == {"none", "queued", "awaiting_ci", "building", "deploying",
             "running", "superseded", "failed", "cancelled"}

Active == {"building", "deploying"}
Cancellable == {"queued", "awaiting_ci"} \cup Active
\* stop() waits for launches (stopping), then for runs (draining), and
\* returns when both are done (stopped) or its grace is over (expired).
Modes == {"down", "booting", "up", "stopping", "draining", "stopped", "expired"}
Serving == Modes \ {"down", "booting"}
JournalStates == {"none", "leased", "released", "interrupted"}
TickStages == {"off", "armed", "waiting", "selecting", "scanning", "gating",
               "claiming", "launching"}
RunPhases == {"free", "reading", "admitted", "working", "finalizing", "unwinding"}

IdleTick == [stage |-> "off", gen |-> 0, row |-> 0]
FreeRun == [phase |-> "free", row |-> 0]
NoWait == [ticks |-> {}, runs |-> {}]

TypeOK ==
    /\ status \in [Rows -> Statuses]
    /\ started \in [Rows -> BOOLEAN]
    /\ aged \in [Rows -> BOOLEAN]
    /\ receipt \in [Rows -> BOOLEAN]
    /\ journal \in [Rows -> JournalStates]
    /\ frozen \subseteq Services
    /\ mode \in Modes
    /\ generation \in Nat
    /\ tick \in [Ticks -> [stage : TickStages, gen : Nat, row : Rows \cup {0}]]
    /\ claimChain \in Seq(Ticks)
    /\ seats \in [Partitions -> Nat]
    /\ candidates \subseteq Rows
    /\ run \in [Runs -> [phase : RunPhases, row : Rows \cup {0}]]
    /\ inFlight \subseteq Rows
    /\ inFlightServices \subseteq Services
    /\ sweep \subseteq Rows
    /\ settledAtBoot \subseteq Rows
    /\ interruptedRemote \subseteq Rows
    /\ toRecover \subseteq Rows
    /\ awaited \in [ticks : SUBSET Ticks, runs : SUBSET Runs]
    /\ budget \in [{"cancel", "crash", "stop", "freeze", "fault"} -> Nat]

Init ==
    /\ status = [d \in Rows |-> "none"]
    /\ started = [d \in Rows |-> FALSE]
    /\ aged = [d \in Rows |-> FALSE]
    /\ receipt = [d \in Rows |-> FALSE]
    /\ journal = [d \in Rows |-> "none"]
    /\ frozen = {}
    /\ mode = "down"
    /\ generation = 0
    /\ tick = [t \in Ticks |-> IdleTick]
    /\ claimChain = <<>>
    /\ seats = [p \in Partitions |-> 0]
    /\ candidates = {}
    /\ run = [r \in Runs |-> FreeRun]
    /\ inFlight = {} /\ inFlightServices = {}
    /\ sweep = {}
    /\ settledAtBoot = {} /\ interruptedRemote = {}
    /\ toRecover = {}
    /\ awaited = NoWait
    /\ budget = [cancel |-> MaxCancels, crash |-> MaxCrashes, stop |-> MaxStops,
                 freeze |-> MaxFreezes, fault |-> MaxFaults]

-----------------------------------------------------------------------------
(* Helpers                                                                 *)

Of(s) == {d \in Rows : ServiceOf[d] = s}
PartOf(d) == PartitionOf[ServiceOf[d]]
Siblings(d) == Of(ServiceOf[d]) \ {d}
HasJournal(s) == \E d \in Of(s) : journal[d] # "none"
Oldest(S) == CHOOSE d \in S : \A e \in S : d <= e
Spend(kind) == budget[kind] > 0 /\ budget' = [budget EXCEPT ![kind] = @ - 1]

\* Fault: a stopped worker still counts as live.
LiveWhenStopped(g) == mode # "down" /\ g = generation

\* `running`, and the tick belongs to the current start().
Live(g) == mode = "up" /\ g = generation

\* Rows that hold a seat: active, and not left to the transition recovery.
Seated == {d \in Rows : status[d] \in Active /\ journal[d] # "interrupted"}

\* A newer deployment of the service has started.
NewerStarted(d) ==
    \E e \in Siblings(d) :
        /\ e > d
        /\ started[e] \/ status[e] \in Active \cup {"running", "superseded"}

\* dropStaleApprovals: older rows still waiting, or holding a CI receipt.
Stale(d) ==
    {e \in Siblings(d) : e < d /\ \/ status[e] = "awaiting_ci"
                                  \/ status[e] = "queued" /\ receipt[e]}

Midway(t) == tick[t].stage \notin {"off", "armed"}

\* No chain of statements is under way (other than that of the actors in T).
Undisturbed(T) ==
    DriverSuspends \/ (sweep = {} /\ \A t \in Ticks \ T : ~Midway(t))

Stage(t, s) == tick' = [tick EXCEPT ![t].stage = s]
Phase(r, p) == run' = [run EXCEPT ![r].phase = p]
SetStatus(d, s) == status' = [status EXCEPT ![d] = s]

-----------------------------------------------------------------------------
(* The environment: triggers, the cancel route, CI, freezes, time          *)

\* A trigger inserts a queued row.
Enqueue(d) ==
    /\ mode \in Serving /\ Undisturbed({})
    /\ status[d] = "none" /\ \A e \in Rows : e < d => status[e] # "none"
    /\ SetStatus(d, "queued")
    /\ UNCHANGED <<started, aged, receipt, journal, frozen, memory, loops, control, run, sweep, budget>>

\* The cancel route flips any row still in progress.
Cancel(d) ==
    /\ mode \in Serving /\ Undisturbed({})
    /\ status[d] \in Cancellable
    /\ Spend("cancel")
    /\ SetStatus(d, "cancelled")
    /\ UNCHANGED <<started, aged, receipt, journal, frozen, memory, loops, control, run, sweep>>

\* The CI monitor settles a row that waits for its checks.
SettleCi(d) ==
    /\ mode = "up" /\ Undisturbed({})
    /\ status[d] = "awaiting_ci"
    /\ \E outcome \in {"queued", "failed"} :
          SetStatus(d, IF NewerStarted(d) THEN "cancelled" ELSE outcome)
    /\ receipt' = [receipt EXCEPT ![d] = status'[d] = "queued"]
    /\ UNCHANGED <<started, aged, journal, frozen, memory, loops, control, run, sweep, budget>>

Freeze(s) ==
    /\ s \notin frozen /\ Undisturbed({}) /\ Spend("freeze")
    /\ frozen' = frozen \cup {s}
    /\ UNCHANGED <<status, started, aged, receipt, journal, memory, loops, control, run, sweep>>

Unfreeze(s) ==
    /\ s \in frozen /\ Undisturbed({})
    /\ frozen' = frozen \ {s}
    /\ UNCHANGED <<status, started, aged, receipt, journal, memory, loops, control, run, sweep, budget>>

\* 45 minutes pass since the row was created, or since its pipeline started.
\* A launch is two short reads: a row does not turn stale inside it.
Age(d) ==
    /\ d \in Aging /\ ~aged[d] /\ status[d] \in {"queued"} \cup Active
    /\ Undisturbed({}) /\ \A t \in Ticks : tick[t].row # d
    /\ aged' = [aged EXCEPT ![d] = TRUE]
    /\ UNCHANGED <<status, started, receipt, journal, frozen, memory, loops, control, run, sweep, budget>>

-----------------------------------------------------------------------------
(* A claim loop                                                            *)

\* tick's finally: launched(), and the next poll if this loop is still live.
EndTick(t) ==
    /\ tick' = [tick EXCEPT ![t] =
                  IF Live(tick[t].gen)
                  THEN [stage |-> "armed", gen |-> generation, row |-> 0]
                  ELSE IdleTick]
    /\ awaited' = [awaited EXCEPT !.ticks = @ \ {t}]

Holds(t) == claimChain # <<>> /\ Head(claimChain) = t

\* The poll timer fires and the tick joins the claim lock.
Fire(t) ==
    /\ tick[t].stage = "armed" /\ Undisturbed({t})
    /\ IF Live(tick[t].gen)
       THEN Stage(t, "waiting") /\ claimChain' = Append(claimChain, t)
       ELSE tick' = [tick EXCEPT ![t] = IdleTick] /\ UNCHANGED claimChain
    /\ UNCHANGED <<tables, memory, seats, candidates, control, run, sweep, budget>>

\* Fault: the selection does not wait for the claim lock.
CountSeatsUnlocked(t) ==
    /\ tick[t].stage = "waiting"
    /\ seats' = [p \in Partitions |-> Cardinality({d \in Seated : PartOf(d) = p})]
    /\ Stage(t, "selecting")
    /\ UNCHANGED <<tables, memory, claimChain, candidates, control, run, sweep, budget>>

\* nextClaimable counts the builds of each partition.
CountSeats(t) ==
    /\ tick[t].stage = "waiting" /\ Holds(t)
    /\ seats' = [p \in Partitions |-> Cardinality({d \in Seated : PartOf(d) = p})]
    /\ Stage(t, "selecting")
    /\ UNCHANGED <<tables, memory, claimChain, candidates, control, run, sweep, budget>>

\* nextClaimable selects the queued rows of services with nothing in progress.
SelectQueued(t) ==
    /\ tick[t].stage = "selecting"
    /\ candidates' = {d \in Rows : /\ status[d] = "queued"
                                  /\ Of(ServiceOf[d]) \cap Seated = {}
                                  /\ ~HasJournal(ServiceOf[d])}
    /\ Stage(t, "scanning")
    /\ UNCHANGED <<tables, memory, claimChain, seats, control, run, sweep, budget>>

\* Fault: a service whose pipeline still runs here is not passed over.
ConsiderAll(t) ==
    /\ tick[t].stage = "scanning"
    /\ IF candidates = {}
       THEN /\ EndTick(t)
            /\ claimChain' = Tail(claimChain)
            /\ UNCHANGED candidates
       ELSE /\ tick' = [tick EXCEPT ![t].stage = "gating", ![t].row = Oldest(candidates)]
            /\ UNCHANGED <<candidates, claimChain, awaited>>
    /\ UNCHANGED <<tables, memory, seats, mode, generation, toRecover, run, sweep, budget>>

\* The next candidate, oldest first; a service whose pipeline still runs
\* here is passed over, whatever its rows say (r272).
Consider(t) ==
    /\ tick[t].stage = "scanning"
    /\ IF candidates = {}
       THEN /\ EndTick(t)
            /\ claimChain' = Tail(claimChain)
            /\ UNCHANGED candidates
       ELSE LET d == Oldest(candidates)
            IN /\ IF ServiceOf[d] \in inFlightServices
                  THEN candidates' = candidates \ {d} /\ UNCHANGED tick
                  ELSE /\ tick' = [tick EXCEPT ![t].stage = "gating", ![t].row = d]
                       /\ UNCHANGED candidates
               /\ UNCHANGED <<claimChain, awaited>>
    /\ UNCHANGED <<tables, memory, seats, mode, generation, toRecover, run, sweep, budget>>

\* holdForCiIfNeeded: a receipt is void once a newer deployment started, and
\* a row without one has to wait for its checks.
Replaced(d) == d \in Gated /\ receipt[d] /\ NewerStarted(d)
MustHold(d) == d \in Gated /\ ~receipt[d]

\* Freeze, CI hold and seat of the candidate.  A held row waits outside the
\* queue and replaces the older rows that wait there.
Gate(t) ==
    LET d == tick[t].row
        skipped == /\ tick' = [tick EXCEPT ![t].stage = "scanning", ![t].row = 0]
                   /\ candidates' = candidates \ {d}
                   /\ UNCHANGED <<claimChain, awaited>>
    IN /\ tick[t].stage = "gating"
       /\ \/ /\ ServiceOf[d] \in frozen \/ status[d] # "queued"
             /\ skipped
             /\ UNCHANGED status
          \/ /\ ServiceOf[d] \notin frozen /\ status[d] = "queued"
             /\ Replaced(d)
             /\ SetStatus(d, "cancelled")
             /\ skipped
          \/ /\ ServiceOf[d] \notin frozen /\ status[d] = "queued"
             /\ MustHold(d)
             /\ status' = [e \in Rows |-> IF e = d THEN "awaiting_ci"
                                          ELSE IF e \in Stale(d) THEN "cancelled"
                                          ELSE status[e]]
             /\ skipped
          \/ /\ ServiceOf[d] \notin frozen /\ status[d] = "queued"
             /\ ~Replaced(d) /\ ~MustHold(d)
             /\ seats[PartOf(d)] >= Concurrency
             /\ skipped
             /\ UNCHANGED status
          \/ /\ ServiceOf[d] \notin frozen /\ status[d] = "queued"
             /\ ~Replaced(d) /\ ~MustHold(d)
             /\ seats[PartOf(d)] < Concurrency
             /\ candidates' = {}
             /\ IF Live(tick[t].gen)
                THEN Stage(t, "claiming") /\ UNCHANGED <<claimChain, awaited>>
                ELSE EndTick(t) /\ claimChain' = Tail(claimChain)
             /\ UNCHANGED status
       /\ UNCHANGED <<started, aged, receipt, journal, frozen, memory, seats,
                      mode, generation, toRecover, run, sweep, budget>>

\* The guarded UPDATE queued -> building; the claim lock is released.
Claim(t) ==
    LET d == tick[t].row
    IN /\ tick[t].stage = "claiming"
       /\ IF /\ status[d] = "queued"
             /\ ~HasJournal(ServiceOf[d])
             /\ \A e \in Of(ServiceOf[d]) : status[e] \notin Active
             /\ receipt[d] => ~NewerStarted(d)
          THEN /\ status' = [e \in Rows |-> IF e = d THEN "building"
                                            ELSE IF e \in Stale(d) THEN "cancelled"
                                            ELSE status[e]]
               /\ Stage(t, "launching")
               /\ UNCHANGED awaited
          ELSE EndTick(t) /\ UNCHANGED status
       /\ claimChain' = Tail(claimChain)
       /\ UNCHANGED <<started, aged, receipt, journal, frozen, memory, seats, candidates,
                      mode, generation, toRecover, run, sweep, budget>>

\* runDeployment is called and tracked; the loop does not wait for it (r238).
Launch(t) ==
    LET d == tick[t].row
    IN /\ tick[t].stage = "launching"
       /\ \E r \in Runs :
             /\ run[r].phase = "free" /\ \A q \in Runs : q < r => run[q].phase # "free"
             /\ run' = [run EXCEPT ![r] = [phase |-> "reading", row |-> d]]
       /\ inFlight' = inFlight \cup {d}
       /\ inFlightServices' = inFlightServices \cup {ServiceOf[d]}
       /\ EndTick(t)
       /\ UNCHANGED <<tables, settledAtBoot, interruptedRemote, claimChain, seats, candidates,
                      mode, generation, toRecover, sweep, budget>>

-----------------------------------------------------------------------------
(* A pipeline, as the writes it makes to its row                           *)

\* The run's first read: a row cancelled since the claim is left alone.
RunRead(r) ==
    /\ run[r].phase = "reading" /\ Undisturbed({})
    /\ Phase(r, IF status[run[r].row] \in {"queued", "building"} THEN "admitted" ELSE "unwinding")
    /\ UNCHANGED <<tables, memory, loops, control, sweep, budget>>

\* The pipeline marks the row building and starts its clock, unless the row
\* was cancelled or the service still has a transition to recover.
RunClaim(r) ==
    LET d == run[r].row
        claimable == status[d] \in {"queued", "building"} /\ ~HasJournal(ServiceOf[d])
    IN /\ run[r].phase = "admitted" /\ Undisturbed({})
       /\ IF claimable
          THEN /\ SetStatus(d, "building")
               /\ started' = [started EXCEPT ![d] = TRUE]
               /\ aged' = [aged EXCEPT ![d] = FALSE]
               /\ Phase(r, "working")
          ELSE Phase(r, "unwinding") /\ UNCHANGED <<status, started, aged>>
       /\ UNCHANGED <<receipt, journal, frozen, memory, loops, control, sweep, budget>>

\* ensurePrimaryRecovery opens the transition journal with its lease.
RunJournal(r) ==
    LET d == run[r].row
    IN /\ run[r].phase = "working" /\ Undisturbed({})
       /\ d \in Journaled /\ ~HasJournal(ServiceOf[d])
       /\ journal' = [journal EXCEPT ![d] = "leased"]
       /\ UNCHANGED <<status, started, aged, receipt, frozen, memory, loops, control, run, sweep, budget>>

\* The routing transition begins, or finds the row cancelled.
RunFinalize(r) ==
    LET d == run[r].row
    IN /\ run[r].phase = "working" /\ Undisturbed({})
       /\ IF status[d] = "building"
          THEN SetStatus(d, "deploying") /\ Phase(r, "finalizing")
          ELSE Phase(r, "unwinding") /\ UNCHANGED status
       /\ UNCHANGED <<started, aged, receipt, journal, frozen, memory, loops, control, sweep, budget>>

\* Fault: success overwrites whatever the row says.
RunPromoteBlind(r) ==
    LET d == run[r].row
    IN /\ run[r].phase = "finalizing" /\ Undisturbed({})
       /\ status' = [e \in Rows |-> IF e = d THEN "running"
                                    ELSE IF e \in Siblings(d) /\ status[e] = "running"
                                         THEN "superseded"
                                    ELSE status[e]]
       /\ Phase(r, "unwinding")
       /\ UNCHANGED <<started, aged, receipt, journal, frozen, memory, loops, control, sweep, budget>>

\* Fault: the previous release is not superseded.
RunPromoteOnly(r) ==
    LET d == run[r].row
    IN /\ run[r].phase = "finalizing" /\ Undisturbed({})
       /\ status' = IF status[d] = "deploying" THEN [status EXCEPT ![d] = "running"] ELSE status
       /\ Phase(r, "unwinding")
       /\ UNCHANGED <<started, aged, receipt, journal, frozen, memory, loops, control, sweep, budget>>

\* Success is committed only over `deploying`; the previous release is superseded.
RunPromote(r) ==
    LET d == run[r].row
    IN /\ run[r].phase = "finalizing" /\ Undisturbed({})
       /\ status' = IF status[d] = "deploying"
                    THEN [e \in Rows |-> IF e = d THEN "running"
                                        ELSE IF e \in Siblings(d) /\ status[e] = "running"
                                             THEN "superseded"
                                        ELSE status[e]]
                    ELSE status
       /\ Phase(r, "unwinding")
       /\ UNCHANGED <<started, aged, receipt, journal, frozen, memory, loops, control, sweep, budget>>

\* A step failed, a checkpoint saw the cancel, or routing was not confirmed.
RunAbort(r) ==
    LET d == run[r].row
    IN /\ run[r].phase \in {"admitted", "working", "finalizing"} /\ Undisturbed({})
       /\ status' = IF status[d] \in {"queued"} \cup Active
                    THEN [status EXCEPT ![d] = "failed"] ELSE status
       /\ Phase(r, "unwinding")
       /\ UNCHANGED <<started, aged, receipt, journal, frozen, memory, loops, control, sweep, budget>>

\* A heartbeat of the lease failed: the pipeline leaves its row as it is.
RunLoseLease(r) ==
    LET d == run[r].row
    IN /\ run[r].phase \in {"working", "finalizing"} /\ Undisturbed({})
       /\ journal[d] = "leased" /\ Spend("fault")
       /\ journal' = [journal EXCEPT ![d] = "released"]
       /\ Phase(r, "unwinding")
       /\ UNCHANGED <<status, started, aged, receipt, frozen, memory, loops, control, sweep>>

\* The run settles: its journal is completed or left for the recovery, and
\* the worker forgets it.
RunExit(r) ==
    LET d == run[r].row
    IN /\ run[r].phase = "unwinding" /\ Undisturbed({})
       /\ run' = [run EXCEPT ![r] = FreeRun]
       /\ inFlight' = inFlight \ {d}
       /\ inFlightServices' = inFlightServices \ {ServiceOf[d]}
       /\ IF journal[d] = "leased"
          THEN \E left \in {"none", "released"} : journal' = [journal EXCEPT ![d] = left]
          ELSE UNCHANGED journal
       /\ awaited' = [awaited EXCEPT !.runs = @ \ {r}]
       /\ UNCHANGED <<status, started, aged, receipt, frozen, settledAtBoot, interruptedRemote,
                      loops, mode, generation, toRecover, sweep, budget>>

-----------------------------------------------------------------------------
(* The stale sweep                                                         *)

\* Rows the sweep must leave alone: running here, journaled, or owned by
\* the boot recovery.
Protected(d) ==
    \/ d \in inFlight
    \/ journal[d] # "none"
    \/ d \in settledAtBoot \cup interruptedRemote

Requeue(S) ==
    /\ status' = [d \in Rows |-> IF d \in S THEN "queued" ELSE status[d]]
    /\ started' = [d \in Rows |-> d \notin S /\ started[d]]

SweepSelect ==
    /\ mode = "up" /\ sweep = {} /\ Undisturbed({})
    /\ LET old == {d \in Rows : status[d] \in Active /\ aged[d]}
       IN old # {} /\ sweep' = old
    /\ UNCHANGED <<tables, memory, loops, control, run, budget>>

\* The rows selected earlier are filtered by what holds now and requeued.
SweepWrite ==
    /\ sweep # {}
    /\ Requeue({d \in sweep : ~Protected(d)})
    /\ sweep' = {}
    /\ UNCHANGED <<aged, receipt, journal, frozen, memory, loops, control, run, budget>>

\* A node's interrupted row, once its grace is over.
SettleRemote(d) ==
    /\ mode = "up" /\ d \in interruptedRemote /\ Undisturbed({})
    /\ interruptedRemote' = interruptedRemote \ {d}
    /\ settledAtBoot' = settledAtBoot \cup {d}
    /\ status' = IF status[d] \in Active THEN [status EXCEPT ![d] = "failed"] ELSE status
    /\ UNCHANGED <<started, aged, receipt, journal, frozen, inFlight, inFlightServices,
                   loops, control, run, sweep, budget>>

-----------------------------------------------------------------------------
(* Process death, boot, stop and start                                     *)

\* The process dies: everything but the tables is lost.
Crash ==
    /\ mode # "down" /\ Spend("crash")
    /\ mode' = "down" /\ generation' = 0
    /\ tick' = [t \in Ticks |-> IdleTick] /\ claimChain' = <<>>
    /\ seats' = [p \in Partitions |-> 0] /\ candidates' = {}
    /\ run' = [r \in Runs |-> FreeRun]
    /\ inFlight' = {} /\ inFlightServices' = {}
    /\ settledAtBoot' = {} /\ interruptedRemote' = {}
    /\ sweep' = {} /\ toRecover' = {} /\ awaited' = NoWait
    /\ journal' = [d \in Rows |-> IF journal[d] = "leased" THEN "released" ELSE journal[d]]
    /\ UNCHANGED <<status, started, aged, receipt, frozen>>

\* recoverInterrupted selects the rows a previous process left in progress.
Boot ==
    /\ mode = "down" /\ mode' = "booting"
    /\ toRecover' = {d \in Rows : status[d] \in Active}
    /\ UNCHANGED <<tables, memory, loops, generation, awaited, run, sweep, budget>>

\* A journaled row is left to the transition recovery, a node's row gets a
\* grace, a local row fails at once.
RecoverRow ==
    /\ mode = "booting" /\ toRecover # {}
    /\ LET d == Oldest(toRecover)
           journaled == journal[d] # "none"
           remote == ~journaled /\ PartOf(d) # Local
       IN /\ toRecover' = toRecover \ {d}
          /\ journal' = IF journaled THEN [journal EXCEPT ![d] = "interrupted"] ELSE journal
          /\ interruptedRemote' = IF remote THEN interruptedRemote \cup {d} ELSE interruptedRemote
          /\ settledAtBoot' = IF remote THEN settledAtBoot ELSE settledAtBoot \cup {d}
          /\ status' = IF journaled \/ remote THEN status ELSE [status EXCEPT ![d] = "failed"]
    /\ UNCHANGED <<started, aged, receipt, frozen, inFlight, inFlightServices, loops,
                   mode, generation, awaited, run, sweep, budget>>

\* Fault: the row counts as settled although its write threw.
RecoverRowFailsSettled ==
    /\ mode = "booting" /\ toRecover # {} /\ Spend("fault")
    /\ toRecover' = toRecover \ {Oldest(toRecover)}
    /\ settledAtBoot' = settledAtBoot \cup {Oldest(toRecover)}
    /\ UNCHANGED <<tables, inFlight, inFlightServices, interruptedRemote, loops,
                   mode, generation, awaited, run, sweep>>

\* A write of the recovery throws: this row, or all that follow, are passed over.
RecoverRowFails ==
    /\ mode = "booting" /\ toRecover # {} /\ Spend("fault")
    /\ \E rest \in {{}, toRecover \ {Oldest(toRecover)}} : toRecover' = rest
    /\ UNCHANGED <<tables, memory, loops, mode, generation, awaited, run, sweep>>

\* One timer per slot, on the lowest unused tick numbers.
ArmLoops(g) ==
    LET unused == {t \in Ticks : tick[t].stage = "off"}
        first == {t \in unused : Cardinality({u \in unused : u < t}) < Concurrency}
    IN tick' = [t \in Ticks |-> IF t \in first
                                THEN [stage |-> "armed", gen |-> g, row |-> 0]
                                ELSE tick[t]]

\* The boot sweep, and the loops start.
BootDone ==
    /\ mode = "booting" /\ toRecover = {}
    /\ Requeue({d \in Rows : status[d] \in Active /\ aged[d] /\ ~Protected(d)})
    /\ ArmLoops(generation)
    /\ mode' = "up"
    /\ UNCHANGED <<aged, receipt, journal, frozen, memory, claimChain, seats, candidates,
                   generation, toRecover, awaited, run, sweep, budget>>

Launching == {t \in Ticks : tick[t].stage \in {"claiming", "launching"}}
Busy == {r \in Runs : run[r].phase # "free"}

\* stop(): timers are cleared, then it waits for the launches under way.
Stop ==
    /\ mode = "up" /\ Undisturbed({}) /\ Spend("stop")
    /\ mode' = "stopping"
    /\ tick' = [t \in Ticks |-> IF tick[t].stage = "armed" THEN IdleTick ELSE tick[t]]
    /\ awaited' = [ticks |-> Launching, runs |-> {}]
    /\ UNCHANGED <<tables, memory, claimChain, seats, candidates, generation, toRecover, run, sweep>>

\* The launches are done; `currents` is taken.
StopDrain ==
    /\ mode = "stopping" /\ awaited.ticks = {} /\ Undisturbed({})
    /\ mode' = "draining"
    /\ awaited' = [awaited EXCEPT !.runs = Busy]
    /\ UNCHANGED <<tables, memory, loops, generation, toRecover, run, sweep, budget>>

StopDone ==
    /\ mode = "draining" /\ awaited.runs = {} /\ Undisturbed({})
    /\ mode' = "stopped"
    /\ UNCHANGED <<tables, memory, loops, generation, toRecover, awaited, run, sweep, budget>>

StopGraceOver ==
    /\ mode \in {"stopping", "draining"} /\ Undisturbed({})
    /\ mode' = "expired" /\ awaited' = NoWait
    /\ UNCHANGED <<tables, memory, loops, generation, toRecover, run, sweep, budget>>

\* start() after a failed import: a new generation of loops.
Start ==
    /\ mode \in {"stopped", "expired"} /\ Undisturbed({})
    /\ mode' = "up" /\ generation' = generation + 1
    /\ ArmLoops(generation + 1)
    /\ UNCHANGED <<tables, memory, claimChain, seats, candidates, toRecover, awaited, run, sweep, budget>>

-----------------------------------------------------------------------------
(* The transition recovery (engine/primaryRecovery.ts), once the lease of  *)
(* the run that opened the journal is over                                 *)

\* The interrupted row is settled by the generation found serving.
RecoverSettle(d) ==
    /\ mode \in Serving /\ Undisturbed({})
    /\ journal[d] = "interrupted" /\ status[d] \in Active
    /\ \/ status' = [e \in Rows |-> IF e = d THEN "running"
                                    ELSE IF e \in Siblings(d) /\ status[e] = "running"
                                         THEN "superseded"
                                    ELSE status[e]]
       \/ SetStatus(d, "failed")
       \/ SetStatus(d, "cancelled")
    /\ UNCHANGED <<started, aged, receipt, journal, frozen, memory, loops, control, run, sweep, budget>>

\* The obsolete generation is gone and the journal is removed.
RecoverDone(d) ==
    /\ mode \in Serving /\ Undisturbed({})
    /\ \/ journal[d] = "released"
       \/ journal[d] = "interrupted" /\ status[d] \notin Active
    /\ journal' = [journal EXCEPT ![d] = "none"]
    /\ UNCHANGED <<status, started, aged, receipt, frozen, memory, loops, control, run, sweep, budget>>

TickStep(t) ==
    \/ Fire(t) \/ CountSeats(t) \/ SelectQueued(t) \/ Consider(t)
    \/ Gate(t) \/ Claim(t) \/ Launch(t)

RunStep(r) ==
    \/ RunRead(r) \/ RunClaim(r) \/ RunJournal(r) \/ RunFinalize(r)
    \/ RunPromote(r) \/ RunAbort(r) \/ RunLoseLease(r) \/ RunExit(r)

Next ==
    \/ \E d \in Rows :
        \/ Enqueue(d) \/ Cancel(d) \/ SettleCi(d) \/ Age(d)
        \/ SettleRemote(d) \/ RecoverSettle(d) \/ RecoverDone(d)
    \/ \E s \in Services : Freeze(s) \/ Unfreeze(s)
    \/ \E t \in Ticks : TickStep(t)
    \/ \E r \in Runs : RunStep(r)
    \/ SweepSelect \/ SweepWrite
    \/ Crash \/ Boot \/ RecoverRow \/ RecoverRowFails \/ BootDone
    \/ Stop \/ StopDrain \/ StopDone \/ StopGraceOver \/ Start

\* Timers fire, statements complete, every pipeline step has a timeout, a
\* supervisor restarts the process, freezes end, and the recovery of a
\* transition eventually finds a healthy generation.  An actor that has to
\* wait for a chain of statements gets its turn between two polls, which is
\* strong fairness; a loop only ever waits for itself.
Settling ==
    \/ \E d \in Rows : SettleCi(d) \/ Age(d) \/ SettleRemote(d) \/ RecoverSettle(d) \/ RecoverDone(d)
    \/ \E s \in Services : Unfreeze(s)

Fairness ==
    /\ SF_vars(\E t \in Ticks : TickStep(t)) /\ SF_vars(\E r \in Runs : RunStep(r))
    /\ SF_vars(Settling) /\ SF_vars(SweepSelect)
    /\ WF_vars(SweepWrite \/ Boot \/ RecoverRow \/ BootDone)

Spec == Init /\ [][Next]_vars /\ Fairness

-----------------------------------------------------------------------------
(* Properties                                                              *)

\* A service is never deployed twice at once, nor a deployment run twice:
\* until a pipeline has exited, whatever its row says, no other pipeline of
\* its service is launched.
OnePipelinePerService ==
    \A q, r \in Busy : q # r => ServiceOf[run[q].row] # ServiceOf[run[r].row]

\* The table never shows two deployments of a service in progress.
OneActiveRow ==
    \A d, e \in Rows :
        /\ d # e
        /\ {status[d], status[e]} \subseteq {"building", "deploying"}
        => ServiceOf[d] # ServiceOf[e]

\* At most one release of a service is recorded as the running one.
OneRunningRelease ==
    \A d, e \in Rows :
        d # e /\ status[d] = "running" /\ status[e] = "running" => ServiceOf[d] # ServiceOf[e]

\* What the deployments table shows of a service: never two deployments in
\* progress (the claim of worker.ts against its recovery), never two running
\* releases (the promotion supersedes the one before it).
OneRowOfAKind == OneActiveRow /\ OneRunningRelease

\* A partition never has more builds than its concurrency, although the
\* seats were counted before the claim was written.
SeatsRespected ==
    \A p \in Partitions : Cardinality({d \in Seated : PartOf(d) = p}) <= Concurrency

\* A cancelled, failed or superseded deployment never starts again.
EndedStaysEnded ==
    [][\A d \in Rows :
          status[d] \in {"cancelled", "failed", "superseded"} => status'[d] = status[d]]_vars

\* A row whose pipeline is running here is never requeued under it.
RunningRowKept ==
    [][\A d \in Rows : d \in inFlight /\ status[d] \in Active => status'[d] # "queued"]_vars

\* No step sends a deployment back: neither the pipeline's own writes after a
\* cancel or a recovery ended its row, nor a recovery that runs beside the
\* pipeline.
NothingRevived == EndedStaysEnded /\ RunningRowKept

\* F829: once stop() has returned with nothing in flight, no pipeline runs
\* and none is about to be launched, until start() is called.
QuietAfterStop == mode = "stopped" => Busy = {} /\ Launching = {}

\* F828: however stop and start interleave with suspended ticks, no more
\* loops poll than the configured concurrency.
LoopsBounded ==
    Cardinality({t \in Ticks : tick[t].stage # "off" /\ tick[t].gen = generation}) <= Concurrency

\* stop() and start() of the worker leave nothing of an earlier generation at
\* work: no pipeline after a stop, no surplus loop after a start.
StopIsClean == QuietAfterStop /\ LoopsBounded

\* Every deployment that was asked for ends, across crashes, freezes, lost
\* leases and rows the boot recovery could not write.
EveryDeployEnds ==
    \A d \in Rows :
        status[d] \in Cancellable
            ~> status[d] \in {"running", "superseded", "failed", "cancelled"}

=============================================================================
