------------------------- MODULE DeployWorkerProofs -------------------------
(***************************************************************************)
(* Proofs about DeployWorker for every set of rows and services, every     *)
(* concurrency, every number of crashes, stops, cancels, freezes and       *)
(* faults: the types, one pipeline and one row in progress per service,    *)
(* the seats of a partition, what a step never does to a finished row, and *)
(* that a stopped worker is quiet.  Where a theorem needs the shipped      *)
(* driver, or rows that do not grow stale, its hypothesis says so.         *)
(***************************************************************************)
EXTENDS DeployWorker, WellFoundedInduction, FiniteSetTheorems, TLAPS

\* When the sweep can do no harm: statements run one chain at a time, as with the
\* shipped driver, or no row in progress ever grows stale.
Prompt == ~DriverSuspends \/ Aging = {}
\* A row a pipeline was started for never waits again while the pipeline runs.
BegunStatus == {"building", "deploying", "running", "superseded", "failed", "cancelled"}
\* The stages of a tick inside the claim lock, and those that concern one row.
LockStages == {"selecting", "scanning", "gating", "claiming"}
RowStages == {"gating", "claiming", "launching"}

\* Nothing runs in a process that is down or still recovering.
Asleep == mode \in {"down", "booting"} =>
              /\ \A t \in Ticks : tick[t].stage = "off"
              /\ \A r \in Runs : run[r].phase = "free"
              /\ sweep = {}
\* The boot recovery has only rows in progress before it.
Recovering == /\ toRecover # {} => mode = "booting"
              /\ \A d \in toRecover : status[d] \in Active
\* A tick past its selection, and a pipeline, are for some row.
Rowed == /\ \A t \in Ticks : tick[t].stage \in RowStages => tick[t].row \in Rows
         /\ \A r \in Busy : run[r].row \in Rows
\* A tick reads the table and claims only as the owner of the claim lock.
Locked == \A t \in Ticks : tick[t].stage \in LockStages => Holds(t)

\* With a driver that does not suspend, one chain of statements at a time: no two
\* ticks are midway, and no tick is while the sweep is between its two statements.
Alone == ~DriverSuspends =>
             /\ \A t, u \in Ticks : Midway(t) /\ Midway(u) => t = u
             /\ sweep # {} => \A t \in Ticks : ~Midway(t)
\* Where no row grows stale the sweep selects none.
Young == Aging = {} => sweep = {} /\ \A d \in Rows : ~aged[d]
\* What the sweep selected is still in progress when it writes.
Swept == Prompt => \A d \in sweep : status[d] \in Active
\* The sets in flight name every pipeline, and no tick that chose a row chose it for
\* a service they name.
Tracked == ~DriverSuspends =>
               /\ \A r \in Busy : /\ run[r].row \in inFlight
                                  /\ ServiceOf[run[r].row] \in inFlightServices
               /\ \A t \in Ticks : tick[t].stage \in RowStages =>
                                       ServiceOf[tick[t].row] \notin inFlightServices
               /\ OnePipelinePerService
\* A row that was claimed for a launch, or has a pipeline, is not queued any more.
Begun == Prompt =>
             /\ \A t \in Ticks : tick[t].stage = "launching" => status[tick[t].row] \in BegunStatus
             /\ \A r \in Busy : status[run[r].row] \in BegunStatus

-----------------------------------------------------------------------------
(* Least elements                                                          *)

\* A set of numbers has a least element (the well-foundedness of < on Nat).
LEMMA LeastIn ==
    ASSUME NEW W, W = Nat, NEW R, IsWellFoundedOn(R, W), \A x, y \in W : <<x, y>> \in R <=> x < y,
           NEW S, S \subseteq W, S # {}
    PROVE  \E m \in S : \A n \in S : m <= n
<1>1. PICK m \in S : \A n \in S : ~ (<<n, m>> \in R)
  BY ONLY IsWellFoundedOn(R, W), S \subseteq W, S # {}, WFMin
<1>2. (\A n \in S : ~(n < m)) /\ m \in Nat
  BY <1>1, Zenon
<1>3. \A n \in S : m <= n
  BY <1>2
<1> QED
  BY <1>1, <1>3, Zenon

LEMMA Least == ASSUME NEW S, S \subseteq Nat, S # {} PROVE \E m \in S : \A n \in S : m <= n
<1>1. \A x, y \in Nat : <<x, y>> \in OpToRel(<, Nat) <=> x < y
  BY Zenon DEF OpToRel
<1> QED
  BY <1>1, NatLessThanWellFounded, LeastIn, Zenon

\* The row the boot recovery takes next is one of those it has before it.
LEMMA OldestIn == ASSUME NEW S, S \subseteq Rows, S # {} PROVE Oldest(S) \in S
<1>1. S \subseteq Nat
  BY RowsAssumption
<1>2. \E d \in S : \A e \in S : d <= e
  BY <1>1, Least, Zenon
<1> QED
  BY <1>2, Zenon DEF Oldest

-----------------------------------------------------------------------------
(* Who changes what                                                        *)

\* Only these steps move a tick, a pipeline, a status.
LEMMA TickSteps ==
    ASSUME [Next]_vars
    PROVE  \/ tick' = tick
           \/ \E t \in Ticks : TickStep(t)
           \/ Crash \/ BootDone \/ Stop \/ Start
BY DEF Next, vars, RunStep, Enqueue, Cancel, SettleCi, Age, SettleRemote, RecoverSettle,
       RecoverDone, Freeze, Unfreeze, RunRead, RunClaim, RunJournal, RunFinalize,
       RunPromote, RunAbort, RunLoseLease, RunExit, SweepSelect, SweepWrite, Boot,
       RecoverRow, RecoverRowFails, StopDrain, StopDone, StopGraceOver, tables, memory,
       loops, control

LEMMA RunSteps ==
    ASSUME [Next]_vars
    PROVE  \/ run' = run
           \/ \E t \in Ticks : Launch(t)
           \/ \E r \in Runs : RunExit(r)
           \/ \E r \in Runs : /\ run[r].phase # "free" /\ Undisturbed({})
                              /\ \E p \in RunPhases \ {"free"} : Phase(r, p)
           \/ Crash
BY ZenonT(40) DEF Next, vars, TickStep, RunStep, Enqueue, Cancel, SettleCi, Age, SettleRemote,
       RecoverSettle, RecoverDone, Freeze, Unfreeze, Fire, CountSeats, SelectQueued,
       Consider, Gate, Claim, RunRead, RunClaim, RunJournal, RunFinalize, RunPromote,
       RunAbort, RunLoseLease, SweepSelect, SweepWrite, Boot, RecoverRow,
       RecoverRowFails, BootDone, Stop, StopDrain, StopDone, StopGraceOver, Start,
       tables, memory, loops, control, RunPhases

LEMMA StatusSteps ==
    ASSUME [Next]_vars
    PROVE  \/ status' = status
           \/ \E d \in Rows : \/ Enqueue(d) \/ Cancel(d) \/ SettleCi(d) \/ SettleRemote(d)
                              \/ RecoverSettle(d)
           \/ \E t \in Ticks : Gate(t) \/ Claim(t)
           \/ \E r \in Runs : RunClaim(r) \/ RunFinalize(r) \/ RunPromote(r) \/ RunAbort(r)
           \/ SweepWrite \/ RecoverRow \/ BootDone
BY DEF Next, vars, TickStep, RunStep, Age, RecoverDone, Freeze, Unfreeze, Fire,
       CountSeats, SelectQueued, Consider, Launch, RunRead, RunJournal, RunLoseLease,
       RunExit, SweepSelect, Crash, Boot, RecoverRowFails, Stop, StopDrain, StopDone,
       StopGraceOver, Start, tables, memory, loops, control

\* What may become of a deployment's row in one step.
Ends(d) ==
    \/ status[d] = "awaiting_ci" /\ status'[d] \in {"queued", "failed", "cancelled"}
    \/ status[d] = "queued" /\ status'[d] \in {"awaiting_ci", "cancelled", "failed"}
    \/ status[d] \in Active /\ status'[d] \in {"cancelled", "failed"}
    \/ status[d] = "running" /\ status'[d] = "superseded"
Begins(d) ==
    \/ status[d] = "none" /\ status'[d] = "queued"
    \/ status[d] = "building" /\ status'[d] = "deploying"
    \/ \E r \in Busy : run[r].row = d /\ status[d] = "queued" /\ status'[d] = "building"
    \/ \E t \in Ticks : /\ Claim(t) /\ tick[t].row = d
                        /\ status[d] = "queued" /\ status'[d] = "building"
Succeeds(d) ==
    /\ status[d] \in Active /\ status'[d] = "running"
    /\ \A e \in Siblings(d) : status'[e] # "running"
IsRequeued(d) ==
    /\ status'[d] = "queued" /\ ~Protected(d)
    /\ (SweepWrite /\ d \in sweep) \/ (BootDone /\ status[d] \in Active)

\* Every row does one of these in every step.
LEMMA StatusMoves ==
    ASSUME TypeOK, Rowed, Recovering, [Next]_vars
    PROVE  /\ status' \in [Rows -> Statuses]
           /\ \A d \in Rows : \/ status'[d] = status[d] \/ Ends(d) \/ Begins(d)
                              \/ Succeeds(d) \/ IsRequeued(d)
<1> DEFINE Moves == /\ status' \in [Rows -> Statuses]
                    /\ \A e \in Rows : \/ status'[e] = status[e] \/ Ends(e) \/ Begins(e)
                                       \/ Succeeds(e) \/ IsRequeued(e)
<1> USE DEF Statuses, Active, SetStatus
<1>t. status \in [Rows -> Statuses]
  BY DEF TypeOK
<1>1. ASSUME NEW d \in Rows, Enqueue(d) PROVE Moves
  BY <1>t, <1>1 DEF Enqueue, Begins
<1>2. ASSUME NEW d \in Rows, Cancel(d) PROVE Moves
  BY <1>t, <1>2 DEF Cancel, Cancellable, Ends
<1>3. ASSUME NEW d \in Rows, SettleCi(d) PROVE Moves
  BY <1>t, <1>3 DEF SettleCi, Ends
<1>4. ASSUME NEW d \in Rows, SettleRemote(d) PROVE Moves
  BY <1>t, <1>4 DEF SettleRemote, Ends
<1>5. ASSUME NEW d \in Rows, RecoverSettle(d) PROVE Moves
  BY <1>t, <1>5 DEF RecoverSettle, Siblings, Of, Ends, Succeeds
<1>6. ASSUME NEW t \in Ticks, Gate(t) PROVE Moves
  BY <1>t, <1>6 DEF Gate, Stale, Ends
<1>7. ASSUME NEW t \in Ticks, Claim(t) PROVE Moves
  BY <1>t, <1>7 DEF Claim, Stale, Ends, Begins
<1>8. ASSUME NEW r \in Runs, RunClaim(r) PROVE Moves
  BY <1>t, <1>8 DEF RunClaim, Busy, Begins
<1>9. ASSUME NEW r \in Runs, RunFinalize(r) PROVE Moves
  BY <1>t, <1>9 DEF RunFinalize, Begins
<1>10. ASSUME NEW r \in Runs, RunPromote(r) PROVE Moves
  BY <1>t, <1>10 DEF RunPromote, Siblings, Of, Ends, Succeeds
<1>11. ASSUME NEW r \in Runs, RunAbort(r) PROVE Moves
  BY <1>t, <1>11 DEF RunAbort, Ends
<1>12. SweepWrite => Moves
  BY <1>t DEF SweepWrite, Requeue, IsRequeued
<1>13. RecoverRow => Moves
  <2> SUFFICES ASSUME RecoverRow PROVE Moves
    OBVIOUS
  <2>1. toRecover # {} /\ toRecover \subseteq Rows
    BY DEF RecoverRow, TypeOK
  <2>2. Oldest(toRecover) \in toRecover
    BY <2>1, OldestIn
  <2> QED  BY <1>t, <2>1, <2>2 DEF RecoverRow, Recovering, Ends
<1>14. BootDone => Moves
  BY <1>t DEF BootDone, Requeue, IsRequeued
<1>15. status' = status => Moves
  BY <1>t
<1> HIDE DEF Moves
<1>16. Moves
  <2>1. ASSUME NEW d \in Rows, Enqueue(d) \/ Cancel(d) \/ SettleCi(d) \/ SettleRemote(d) \/ RecoverSettle(d)
        PROVE  Moves
    BY <2>1, <1>1, <1>2, <1>3, <1>4, <1>5, Zenon
  <2>2. ASSUME NEW t \in Ticks, Gate(t) \/ Claim(t) PROVE Moves
    BY <2>2, <1>6, <1>7, Zenon
  <2>3. ASSUME NEW r \in Runs, RunClaim(r) \/ RunFinalize(r) \/ RunPromote(r) \/ RunAbort(r) PROVE Moves
    BY <2>3, <1>8, <1>9, <1>10, <1>11, Zenon
  <2>4. CASE SweepWrite \/ RecoverRow \/ BootDone \/ status' = status
    BY <2>4, <1>12, <1>13, <1>14, <1>15, Zenon
  <2>5. \/ status' = status
        \/ \E d \in Rows : Enqueue(d) \/ Cancel(d) \/ SettleCi(d) \/ SettleRemote(d) \/ RecoverSettle(d)
        \/ \E t \in Ticks : Gate(t) \/ Claim(t)
        \/ \E r \in Runs : RunClaim(r) \/ RunFinalize(r) \/ RunPromote(r) \/ RunAbort(r)
        \/ SweepWrite \/ RecoverRow \/ BootDone
    BY StatusSteps, Zenon
  <2> QED  BY <2>1, <2>2, <2>3, <2>4, <2>5, Zenon
<1> QED
  BY <1>16 DEF Moves

-----------------------------------------------------------------------------
(* The types                                                               *)

\* The sets the state ranges over.
LEMMA Sets ==
    /\ \A d \in Rows : ServiceOf[d] \in Services /\ PartOf(d) \in Partitions
    /\ Ticks \subseteq Nat /\ IsFiniteSet(Ticks) /\ Runs \subseteq Nat
    /\ \A S \in SUBSET Rows : IsFiniteSet(S) /\ Cardinality(S) \in Nat
<1>1. \A d \in Rows : ServiceOf[d] \in Services /\ PartOf(d) \in Partitions
  BY DEF Services, Partitions, PartOf
<1>2. Concurrency * (MaxStops + 1) \in Nat
  <2>1. Concurrency \in Nat /\ MaxStops + 1 \in Nat
    BY BoundsAssumption
  <2> QED  BY <2>1
<1>3. Ticks \subseteq Nat /\ IsFiniteSet(Ticks)
  <2>1. Concurrency * (MaxStops + 1) \in Int
    BY <1>2
  <2>2. IsFiniteSet(1..(Concurrency * (MaxStops + 1)))
    BY <2>1, FS_Interval
  <2> QED  BY <1>2, <2>2 DEF Ticks
<1>4. Runs \subseteq Nat
  BY DEF Runs
<1>5. \A S \in SUBSET Rows : IsFiniteSet(S) /\ Cardinality(S) \in Nat
  BY RowsAssumption, FS_Subset, FS_CardinalityType
<1> QED
  BY <1>1, <1>3, <1>4, <1>5

\* The types, one group of variables after another.
LEMMA TickType ==
    ASSUME TypeOK, [Next]_vars
    PROVE  tick' \in [Ticks -> [stage : TickStages, gen : Nat, row : Rows \cup {0}]]
<1> DEFINE T == [stage : TickStages, gen : Nat, row : Rows \cup {0}]
<1>t. tick \in [Ticks -> T] /\ generation \in Nat /\ generation + 1 \in Nat
  BY DEF TypeOK
<1>i. IdleTick \in T /\ \A g \in Nat : [stage |-> "armed", gen |-> g, row |-> 0] \in T
  BY DEF IdleTick, TickStages
<1>e. ASSUME NEW t \in Ticks, EndTick(t) PROVE tick' \in [Ticks -> T]
  BY <1>e, <1>t, <1>i DEF EndTick
<1>s. ASSUME NEW t \in Ticks, NEW st \in TickStages, Stage(t, st) PROVE tick' \in [Ticks -> T]
  BY <1>s, <1>t DEF Stage
<1>r. ASSUME NEW t \in Ticks, NEW st \in TickStages, NEW d \in Rows \cup {0},
             tick' = [tick EXCEPT ![t].stage = st, ![t].row = d]
      PROVE  tick' \in [Ticks -> T]
  BY <1>r, <1>t
<1>1. ASSUME NEW t \in Ticks, TickStep(t) PROVE tick' \in [Ticks -> T]
  <2>1. CASE Fire(t)
    <3>1. CASE Stage(t, "waiting")
      BY <3>1, <1>s DEF TickStages
    <3>2. CASE tick' = [tick EXCEPT ![t] = IdleTick]
      BY <3>2, <1>t, <1>i
    <3> QED  BY <2>1, <3>1, <3>2 DEF Fire
  <2>2. CASE CountSeats(t) \/ SelectQueued(t)
    BY <2>2, <1>s DEF CountSeats, SelectQueued, TickStages
  <2>3. CASE Consider(t)
    <3>1. CASE candidates # {}
      <4>1. Oldest(candidates) \in Rows
        BY <3>1, OldestIn DEF TypeOK
      <4> QED  BY <2>3, <3>1, <4>1, <1>t, <1>r DEF Consider, TickStages
    <3> QED  BY <2>3, <3>1, <1>e DEF Consider
  <2>4. CASE Gate(t)
    <3>1. \/ tick' = [tick EXCEPT ![t].stage = "scanning", ![t].row = 0]
          \/ Stage(t, "claiming") \/ EndTick(t)
      BY <2>4 DEF Gate
    <3> QED  BY <3>1, <1>r, <1>s, <1>e DEF TickStages
  <2>5. CASE Claim(t)
    BY <2>5, <1>s, <1>e DEF Claim, TickStages
  <2>6. CASE Launch(t)
    BY <2>6, <1>e DEF Launch
  <2> QED  BY <1>1, <2>1, <2>2, <2>3, <2>4, <2>5, <2>6 DEF TickStep
<1>2. Crash \/ Stop => tick' \in [Ticks -> T]
  BY <1>t, <1>i DEF Crash, Stop
<1>3. BootDone \/ Start => tick' \in [Ticks -> T]
  BY <1>t, <1>i DEF BootDone, Start, ArmLoops
<1> QED
  BY <1>t, <1>1, <1>2, <1>3, TickSteps

LEMMA RunType ==
    ASSUME TypeOK, Rowed, [Next]_vars
    PROVE  run' \in [Runs -> [phase : RunPhases, row : Rows \cup {0}]]
<1> DEFINE R == [phase : RunPhases, row : Rows \cup {0}]
<1>t. run \in [Runs -> R] /\ FreeRun \in R
  BY DEF TypeOK, FreeRun, RunPhases
<1>1. ASSUME NEW t \in Ticks, Launch(t) PROVE run' \in [Runs -> R]
  <2>1. [phase |-> "reading", row |-> tick[t].row] \in R
    BY <1>1 DEF Launch, Rowed, RowStages, RunPhases
  <2> QED  BY <1>t, <1>1, <2>1 DEF Launch
<1>2. ASSUME NEW r \in Runs, RunExit(r) PROVE run' \in [Runs -> R]
  BY <1>2, <1>t DEF RunExit
<1>3. ASSUME NEW r \in Runs, NEW p \in RunPhases, Phase(r, p) PROVE run' \in [Runs -> R]
  BY <1>3, <1>t DEF Phase
<1>4. Crash => run' \in [Runs -> R]
  BY <1>t DEF Crash
<1> QED
  BY <1>t, <1>1, <1>2, <1>3, <1>4, RunSteps

LEMMA FlagType ==
    ASSUME TypeOK, Rowed, [Next]_vars
    PROVE  /\ started' \in [Rows -> BOOLEAN] /\ aged' \in [Rows -> BOOLEAN]
           /\ receipt' \in [Rows -> BOOLEAN]
<1>t. started \in [Rows -> BOOLEAN] /\ aged \in [Rows -> BOOLEAN] /\ receipt \in [Rows -> BOOLEAN]
  BY DEF TypeOK
<1>1. \/ started' = started
      \/ \E r \in Runs : RunClaim(r) 
      \/ \E S : Requeue(S)
  BY ZenonT(40) DEF Next, vars, TickStep, RunStep, Enqueue, Cancel, SettleCi, Age, SettleRemote,
         RecoverSettle, RecoverDone, Freeze, Unfreeze, Fire, CountSeats, SelectQueued,
         Consider, Gate, Claim, Launch, RunRead, RunJournal, RunFinalize, RunPromote,
         RunAbort, RunLoseLease, RunExit, SweepSelect, SweepWrite, Crash, Boot,
         RecoverRow, RecoverRowFails, BootDone, Stop, StopDrain, StopDone,
         StopGraceOver, Start, tables, memory, loops, control
<1>2. \/ aged' = aged
      \/ \E r \in Runs : RunClaim(r) 
      \/ \E d \in Rows : Age(d)
  BY ZenonT(40) DEF Next, vars, TickStep, RunStep, Enqueue, Cancel, SettleCi, SettleRemote,
         RecoverSettle, RecoverDone, Freeze, Unfreeze, Fire, CountSeats, SelectQueued,
         Consider, Gate, Claim, Launch, RunRead, RunJournal, RunFinalize, RunPromote,
         RunAbort, RunLoseLease, RunExit, SweepSelect, SweepWrite, Crash, Boot,
         RecoverRow, RecoverRowFails, BootDone, Stop, StopDrain, StopDone,
         StopGraceOver, Start, tables, memory, loops, control
<1>3. receipt' = receipt \/ \E d \in Rows : SettleCi(d)
  BY ZenonT(40) DEF Next, vars, TickStep, RunStep, Enqueue, Cancel, Age, SettleRemote,
         RecoverSettle, RecoverDone, Freeze, Unfreeze, Fire, CountSeats, SelectQueued,
         Consider, Gate, Claim, Launch, RunRead, RunClaim, RunJournal, RunFinalize,
         RunPromote, RunAbort, RunLoseLease, RunExit, SweepSelect, SweepWrite, Crash,
         Boot, RecoverRow, RecoverRowFails, BootDone, Stop, StopDrain, StopDone,
         StopGraceOver, Start, tables, memory, loops, control
<1>4. ASSUME NEW r \in Runs, RunClaim(r)
      PROVE  started' \in [Rows -> BOOLEAN] /\ aged' \in [Rows -> BOOLEAN]
  BY <1>t, <1>4 DEF RunClaim
<1>5. ASSUME NEW S, Requeue(S) PROVE started' \in [Rows -> BOOLEAN]
  BY <1>5, Zenon DEF Requeue
<1>6. ASSUME NEW d \in Rows, Age(d) PROVE aged' \in [Rows -> BOOLEAN]
  BY <1>t, <1>6 DEF Age
<1>7. ASSUME NEW d \in Rows, SettleCi(d) PROVE receipt' \in [Rows -> BOOLEAN]
  BY <1>t, <1>7 DEF SettleCi
<1> QED
  BY <1>t, <1>1, <1>2, <1>3, <1>4, <1>5, <1>6, <1>7

LEMMA JournalSteps ==
    ASSUME [Next]_vars
    PROVE  \/ journal' = journal
           \/ \E d \in Rows : RecoverDone(d)
           \/ \E r \in Runs : RunJournal(r) \/ RunLoseLease(r) \/ RunExit(r)
           \/ Crash \/ RecoverRow
BY ZenonT(40) DEF Next, vars, TickStep, RunStep, Enqueue, Cancel, SettleCi, Age, SettleRemote,
       RecoverSettle, Freeze, Unfreeze, Fire, CountSeats, SelectQueued, Consider, Gate,
       Claim, Launch, RunRead, RunClaim, RunFinalize, RunPromote, RunAbort, SweepSelect,
       SweepWrite, Boot, RecoverRowFails, BootDone, Stop, StopDrain, StopDone,
       StopGraceOver, Start, tables, memory, loops, control

LEMMA JournalType == ASSUME TypeOK, [Next]_vars PROVE journal' \in [Rows -> JournalStates]
<1>1. journal \in [Rows -> JournalStates]
  BY DEF TypeOK
<1>2. ASSUME NEW r \in Runs, RunJournal(r) \/ RunLoseLease(r) \/ RunExit(r)
      PROVE  journal' \in [Rows -> JournalStates]
  BY <1>1, <1>2 DEF RunJournal, RunLoseLease, RunExit, JournalStates
<1>3. ASSUME NEW d \in Rows, RecoverDone(d) PROVE journal' \in [Rows -> JournalStates]
  BY <1>1, <1>3 DEF RecoverDone, JournalStates
<1>4. Crash \/ RecoverRow => journal' \in [Rows -> JournalStates]
  BY <1>1 DEF Crash, RecoverRow, JournalStates
<1> QED
  BY <1>1, <1>2, <1>3, <1>4, JournalSteps

LEMMA SetsType ==
    ASSUME TypeOK, Rowed, [Next]_vars
    PROVE  /\ frozen' \subseteq Services /\ mode' \in Modes /\ generation' \in Nat
           /\ candidates' \subseteq Rows /\ inFlight' \subseteq Rows
           /\ inFlightServices' \subseteq Services /\ sweep' \subseteq Rows
           /\ settledAtBoot' \subseteq Rows /\ interruptedRemote' \subseteq Rows
           /\ toRecover' \subseteq Rows
<1>1. frozen' \subseteq Services
  <2>1. frozen' = frozen \/ \E x \in Services : frozen' = frozen \cup {x} \/ frozen' = frozen \ {x}
    BY ZenonT(40) DEF Next, vars, TickStep, RunStep, Enqueue, Cancel, SettleCi, Age, SettleRemote,
           RecoverSettle, RecoverDone, Freeze, Unfreeze, Fire, CountSeats, SelectQueued,
           Consider, Gate, Claim, Launch, RunRead, RunClaim, RunJournal, RunFinalize,
           RunPromote, RunAbort, RunLoseLease, RunExit, SweepSelect, SweepWrite, Crash,
           Boot, RecoverRow, RecoverRowFails, BootDone, Stop, StopDrain, StopDone,
           StopGraceOver, Start, tables, memory, loops, control
  <2> QED  BY <2>1 DEF TypeOK
<1>2. mode' \in Modes /\ generation' \in Nat
  <2>1. generation' \in {0, generation, generation + 1} /\ mode' \in Modes \cup {mode}
    BY ZenonT(40) DEF Next, vars, TickStep, RunStep, Enqueue, Cancel, SettleCi, Age, SettleRemote,
           RecoverSettle, RecoverDone, Freeze, Unfreeze, Fire, CountSeats, SelectQueued,
           Consider, Gate, Claim, Launch, RunRead, RunClaim, RunJournal, RunFinalize,
           RunPromote, RunAbort, RunLoseLease, RunExit, SweepSelect, SweepWrite, Crash,
           Boot, RecoverRow, RecoverRowFails, BootDone, Stop, StopDrain, StopDone,
           StopGraceOver, Start, tables, memory, loops, control, Modes
  <2> QED  BY <2>1 DEF TypeOK
<1>3. candidates' \subseteq Rows /\ sweep' \subseteq Rows
  <2>1. \/ candidates' \subseteq candidates
        \/ \E t \in Ticks : SelectQueued(t)
    BY ZenonT(40) DEF Next, vars, TickStep, RunStep, Enqueue, Cancel, SettleCi, Age, SettleRemote,
           RecoverSettle, RecoverDone, Freeze, Unfreeze, Fire, CountSeats, Consider,
           Gate, Claim, Launch, RunRead, RunClaim, RunJournal, RunFinalize, RunPromote,
           RunAbort, RunLoseLease, RunExit, SweepSelect, SweepWrite, Crash, Boot,
           RecoverRow, RecoverRowFails, BootDone, Stop, StopDrain, StopDone,
           StopGraceOver, Start, tables, memory, loops, control
  <2>2. sweep' \in {sweep, {}} \/ SweepSelect
    BY ZenonT(40) DEF Next, vars, TickStep, RunStep, Enqueue, Cancel, SettleCi, Age, SettleRemote,
           RecoverSettle, RecoverDone, Freeze, Unfreeze, Fire, CountSeats, SelectQueued,
           Consider, Gate, Claim, Launch, RunRead, RunClaim, RunJournal, RunFinalize,
           RunPromote, RunAbort, RunLoseLease, RunExit, SweepWrite, Crash, Boot,
           RecoverRow, RecoverRowFails, BootDone, Stop, StopDrain, StopDone,
           StopGraceOver, Start, tables, memory, loops, control
  <2> QED  BY <2>1, <2>2 DEF SelectQueued, SweepSelect, TypeOK
<1>4. inFlight' \subseteq Rows /\ inFlightServices' \subseteq Services
  <2>1. \/ inFlight' \subseteq inFlight /\ inFlightServices' \subseteq inFlightServices
        \/ \E t \in Ticks : Launch(t)
    BY ZenonT(40) DEF Next, vars, TickStep, RunStep, Enqueue, Cancel, SettleCi, Age, SettleRemote,
           RecoverSettle, RecoverDone, Freeze, Unfreeze, Fire, CountSeats, SelectQueued,
           Consider, Gate, Claim, RunRead, RunClaim, RunJournal, RunFinalize,
           RunPromote, RunAbort, RunLoseLease, RunExit, SweepSelect, SweepWrite, Crash,
           Boot, RecoverRow, RecoverRowFails, BootDone, Stop, StopDrain, StopDone,
           StopGraceOver, Start, tables, memory, loops, control
  <2>2. ASSUME NEW t \in Ticks, Launch(t)
        PROVE  inFlight' \subseteq Rows /\ inFlightServices' \subseteq Services
    <3>1. tick[t].row \in Rows
      BY <2>2 DEF Launch, Rowed, RowStages
    <3> QED  BY <2>2, <3>1, Sets DEF Launch, TypeOK
  <2> QED  BY <2>1, <2>2 DEF TypeOK
<1>5. /\ settledAtBoot' \subseteq Rows /\ interruptedRemote' \subseteq Rows
      /\ toRecover' \subseteq Rows
  <2>1. \/ /\ settledAtBoot' \in {settledAtBoot, {}} /\ interruptedRemote' \in {interruptedRemote, {}}
           /\ toRecover' \in {toRecover, {}}
        \/ \E d \in Rows : SettleRemote(d)
        \/ Boot \/ RecoverRow \/ RecoverRowFails
    BY ZenonT(90) DEF Next, vars, TickStep, RunStep, Enqueue, Cancel, SettleCi, Age, RecoverSettle,
           RecoverDone, Freeze, Unfreeze, Fire, CountSeats, SelectQueued, Consider,
           Gate, Claim, Launch, RunRead, RunClaim, RunJournal, RunFinalize, RunPromote,
           RunAbort, RunLoseLease, RunExit, SweepSelect, SweepWrite, Crash, BootDone,
           Stop, StopDrain, StopDone, StopGraceOver, Start, tables, memory, loops,
           control
  <2>2. RecoverRow => /\ settledAtBoot' \subseteq Rows /\ interruptedRemote' \subseteq Rows
                      /\ toRecover' \subseteq Rows
    <3> SUFFICES ASSUME RecoverRow
                 PROVE  /\ settledAtBoot' \subseteq Rows /\ interruptedRemote' \subseteq Rows
                        /\ toRecover' \subseteq Rows
      OBVIOUS
    <3>1. toRecover # {} /\ toRecover \subseteq Rows
      BY DEF RecoverRow, TypeOK
    <3>2. Oldest(toRecover) \in Rows
      BY <3>1, OldestIn
    <3> QED  BY <3>2 DEF RecoverRow, TypeOK
  <2>3. RecoverRowFails \/ Boot =>
           /\ settledAtBoot' \subseteq Rows /\ interruptedRemote' \subseteq Rows
           /\ toRecover' \subseteq Rows
    BY DEF RecoverRowFails, Boot, TypeOK, memory
  <2>4. ASSUME NEW d \in Rows, SettleRemote(d)
        PROVE  /\ settledAtBoot' \subseteq Rows /\ interruptedRemote' \subseteq Rows
               /\ toRecover' \subseteq Rows
    BY <2>4 DEF SettleRemote, TypeOK, control
  <2> QED  BY <2>1, <2>2, <2>3, <2>4 DEF TypeOK
<1> QED
  BY <1>1, <1>2, <1>3, <1>4, <1>5

LEMMA LoopType ==
    ASSUME TypeOK, Locked, [Next]_vars
    PROVE  /\ claimChain' \in Seq(Ticks) /\ seats' \in [Partitions -> Nat]
           /\ awaited' \in [ticks : SUBSET Ticks, runs : SUBSET Runs]
           /\ budget' \in [{"cancel", "crash", "stop", "freeze", "fault"} -> Nat]
<1>1. claimChain' \in Seq(Ticks)
  <2>1. \/ claimChain' \in {claimChain, <<>>}
        \/ \E t \in Ticks : claimChain' = Append(claimChain, t)
        \/ \E t \in Ticks : tick[t].stage \in LockStages /\ claimChain' = Tail(claimChain)
    BY ZenonT(40) DEF Next, vars, TickStep, RunStep, Enqueue, Cancel, SettleCi, Age, SettleRemote,
           RecoverSettle, RecoverDone, Freeze, Unfreeze, Fire, CountSeats, SelectQueued,
           Consider, Gate, Claim, Launch, RunRead, RunClaim, RunJournal, RunFinalize,
           RunPromote, RunAbort, RunLoseLease, RunExit, SweepSelect, SweepWrite, Crash,
           Boot, RecoverRow, RecoverRowFails, BootDone, Stop, StopDrain, StopDone,
           StopGraceOver, Start, tables, memory, loops, control, LockStages
  <2>2. ASSUME NEW t \in Ticks, tick[t].stage \in LockStages, claimChain' = Tail(claimChain)
        PROVE  claimChain' \in Seq(Ticks)
    <3>1. claimChain # <<>> /\ claimChain \in Seq(Ticks)
      BY <2>2 DEF Locked, Holds, TypeOK
    <3> QED  BY <2>2, <3>1
  <2>3. claimChain \in Seq(Ticks)
    BY DEF TypeOK
  <2>4. ASSUME NEW t \in Ticks PROVE Append(claimChain, t) \in Seq(Ticks)
    BY <2>3
  <2>5. <<>> \in Seq(Ticks)
    OBVIOUS
  <2> QED  BY <2>1, <2>2, <2>3, <2>4, <2>5, Zenon
<1>2. seats' \in [Partitions -> Nat]
  <2>1. seats' \in {seats, [p \in Partitions |-> 0]} \/ \E t \in Ticks : CountSeats(t)
    BY ZenonT(40) DEF Next, vars, TickStep, RunStep, Enqueue, Cancel, SettleCi, Age, SettleRemote,
           RecoverSettle, RecoverDone, Freeze, Unfreeze, Fire, SelectQueued, Consider,
           Gate, Claim, Launch, RunRead, RunClaim, RunJournal, RunFinalize, RunPromote,
           RunAbort, RunLoseLease, RunExit, SweepSelect, SweepWrite, Crash, Boot,
           RecoverRow, RecoverRowFails, BootDone, Stop, StopDrain, StopDone,
           StopGraceOver, Start, tables, memory, loops, control
  <2>2. \A p \in Partitions : Cardinality({d \in Seated : PartOf(d) = p}) \in Nat
    <3>1. \A p \in Partitions : {d \in Seated : PartOf(d) = p} \in SUBSET Rows
      BY DEF Seated
    <3> QED  BY <3>1, Sets
  <2>3. ASSUME NEW t \in Ticks, CountSeats(t) PROVE seats' \in [Partitions -> Nat]
    BY <2>2, <2>3 DEF CountSeats
  <2>4. seats \in [Partitions -> Nat] /\ [p \in Partitions |-> 0] \in [Partitions -> Nat]
    BY DEF TypeOK
  <2> QED  BY <2>1, <2>3, <2>4, Zenon
<1>3. awaited' \in [ticks : SUBSET Ticks, runs : SUBSET Runs]
  <2>1. \/ awaited' \in {awaited, NoWait, [ticks |-> Launching, runs |-> {}]}
        \/ awaited' = [awaited EXCEPT !.runs = Busy]
        \/ \E t \in Ticks : awaited' = [awaited EXCEPT !.ticks = @ \ {t}]
        \/ \E r \in Runs : awaited' = [awaited EXCEPT !.runs = @ \ {r}]
    BY ZenonT(90) DEF Next, vars, TickStep, RunStep, Enqueue, Cancel, SettleCi, Age, SettleRemote,
           RecoverSettle, RecoverDone, Freeze, Unfreeze, Fire, CountSeats, SelectQueued,
           Consider, Gate, Claim, Launch, RunRead, RunClaim, RunJournal, RunFinalize,
           RunPromote, RunAbort, RunLoseLease, RunExit, SweepSelect, SweepWrite, Crash,
           Boot, RecoverRow, RecoverRowFails, BootDone, Stop, StopDrain, StopDone,
           StopGraceOver, Start, tables, memory, loops, control, EndTick
  <2>2. Launching \subseteq Ticks /\ Busy \subseteq Runs
    BY DEF Launching, Busy
  <2> DEFINE A == [ticks : SUBSET Ticks, runs : SUBSET Runs]
  <2>3. awaited \in A
    BY DEF TypeOK
  <2>4. NoWait \in A /\ [ticks |-> Launching, runs |-> {}] \in A
    BY <2>2 DEF NoWait
  <2>5. /\ [awaited EXCEPT !.runs = Busy] \in A
        /\ \A t \in Ticks : [awaited EXCEPT !.ticks = @ \ {t}] \in A
        /\ \A r \in Runs : [awaited EXCEPT !.runs = @ \ {r}] \in A
    BY <2>2, <2>3
  <2> HIDE DEF A
  <2>6. awaited' \in A
    BY <2>1, <2>3, <2>4, <2>5, Zenon
  <2> QED  BY <2>6 DEF A
<1>4. budget' \in [{"cancel", "crash", "stop", "freeze", "fault"} -> Nat]
  <2>1. budget' = budget \/ \E k \in {"cancel", "crash", "stop", "freeze", "fault"} : Spend(k)
    BY ZenonT(40) DEF Next, vars, TickStep, RunStep, Enqueue, Cancel, SettleCi, Age, SettleRemote,
           RecoverSettle, RecoverDone, Freeze, Unfreeze, Fire, CountSeats, SelectQueued,
           Consider, Gate, Claim, Launch, RunRead, RunClaim, RunJournal, RunFinalize,
           RunPromote, RunAbort, RunLoseLease, RunExit, SweepSelect, SweepWrite, Crash,
           Boot, RecoverRow, RecoverRowFails, BootDone, Stop, StopDrain, StopDone,
           StopGraceOver, Start, tables, memory, loops, control
  <2>2. budget \in [{"cancel", "crash", "stop", "freeze", "fault"} -> Nat]
    BY DEF TypeOK
  <2>3. ASSUME NEW k \in {"cancel", "crash", "stop", "freeze", "fault"}, Spend(k)
        PROVE  budget' \in [{"cancel", "crash", "stop", "freeze", "fault"} -> Nat]
    BY <2>2, <2>3 DEF Spend
  <2> QED  BY <2>1, <2>2, <2>3, Zenon
<1> QED
  BY <1>1, <1>2, <1>3, <1>4

LEMMA StepType == ASSUME TypeOK, Rowed, Recovering, Locked, [Next]_vars PROVE TypeOK'
BY StatusMoves, FlagType, JournalType, SetsType, TickType, LoopType, RunType DEF TypeOK

-----------------------------------------------------------------------------
(* Boot, rows and the claim lock                                           *)

\* A crash silences all, and only BootDone arms loops.
LEMMA StepAsleep == ASSUME TypeOK, Asleep, [Next]_vars PROVE Asleep'
<1>1. SUFFICES ASSUME mode' \in {"down", "booting"}
               PROVE  /\ \A t \in Ticks : tick'[t].stage = "off"
                      /\ \A r \in Runs : run'[r].phase = "free"
                      /\ sweep' = {}
  BY DEF Asleep
<1>2. CASE Crash
  BY <1>2 DEF Crash, IdleTick, FreeRun
<1>3. CASE ~Crash
  <2>1. mode \in {"down", "booting"}
    BY <1>1, <1>3, ZenonT(40) DEF Next, vars, TickStep, RunStep, Enqueue, Cancel, SettleCi, Age,
           SettleRemote, RecoverSettle, RecoverDone, Freeze, Unfreeze, Fire, CountSeats,
           SelectQueued, Consider, Gate, Claim, Launch, RunRead, RunClaim, RunJournal,
           RunFinalize, RunPromote, RunAbort, RunLoseLease, RunExit, SweepSelect,
           SweepWrite, Boot, RecoverRow, RecoverRowFails, BootDone, Stop, StopDrain,
           StopDone, StopGraceOver, Start, tables, memory, loops, control
  <2>2. /\ \A t \in Ticks : tick[t].stage = "off"
        /\ \A r \in Runs : run[r].phase = "free"
        /\ sweep = {}
    BY <2>1 DEF Asleep
  <2>3. tick' = tick
    <3>1. ASSUME NEW t \in Ticks, TickStep(t) PROVE FALSE
      BY <2>2, <3>1 DEF TickStep, Fire, CountSeats, SelectQueued, Consider, Gate, Claim, Launch
    <3> QED  BY <1>1, <1>3, <2>1, <3>1, TickSteps DEF BootDone, Stop, Start
  <2>4. run' = run
    BY <1>3, <2>2, RunSteps DEF Launch, RunExit
  <2>5. sweep' = sweep
    <3>1. sweep' = sweep \/ SweepSelect \/ SweepWrite
      BY <1>3, ZenonT(40) DEF Next, vars, TickStep, RunStep, Enqueue, Cancel, SettleCi, Age,
             SettleRemote, RecoverSettle, RecoverDone, Freeze, Unfreeze, Fire,
             CountSeats, SelectQueued, Consider, Gate, Claim, Launch, RunRead, RunClaim,
             RunJournal, RunFinalize, RunPromote, RunAbort, RunLoseLease, RunExit, Boot,
             RecoverRow, RecoverRowFails, BootDone, Stop, StopDrain, StopDone,
             StopGraceOver, Start, tables, memory, loops, control
    <3> QED  BY <2>1, <2>2, <3>1 DEF SweepSelect, SweepWrite
  <2> QED  BY <2>2, <2>3, <2>4, <2>5
<1> QED
  BY <1>2, <1>3

\* The recovery takes its rows one by one; nobody else writes while it does.
LEMMA StepRecovering == ASSUME TypeOK, Asleep, Recovering, [Next]_vars PROVE Recovering'
<1>1. toRecover' # {} => mode' = "booting"
  BY ZenonT(40) DEF Next, vars, TickStep, RunStep, Enqueue, Cancel, SettleCi, Age, SettleRemote,
         RecoverSettle, RecoverDone, Freeze, Unfreeze, Fire, CountSeats, SelectQueued,
         Consider, Gate, Claim, Launch, RunRead, RunClaim, RunJournal, RunFinalize,
         RunPromote, RunAbort, RunLoseLease, RunExit, SweepSelect, SweepWrite, Crash,
         Boot, RecoverRow, RecoverRowFails, BootDone, Stop, StopDrain, StopDone,
         StopGraceOver, Start, tables, memory, loops, control, Recovering
<1>2. ASSUME NEW d \in toRecover' PROVE status'[d] \in Active
  <2>1. CASE Boot
    BY <1>2, <2>1 DEF Boot, tables
  <2>2. CASE ~Boot
    <3>1. toRecover' \subseteq toRecover
      BY <2>2, ZenonT(40) DEF Next, vars, TickStep, RunStep, Enqueue, Cancel, SettleCi, Age,
             SettleRemote, RecoverSettle, RecoverDone, Freeze, Unfreeze, Fire,
             CountSeats, SelectQueued, Consider, Gate, Claim, Launch, RunRead, RunClaim,
             RunJournal, RunFinalize, RunPromote, RunAbort, RunLoseLease, RunExit,
             SweepSelect, SweepWrite, Crash, RecoverRow, RecoverRowFails, BootDone,
             Stop, StopDrain, StopDone, StopGraceOver, Start, tables, memory, loops,
             control
    <3>2. mode = "booting" /\ status[d] \in Active /\ d \in Rows
      BY <1>2, <3>1 DEF Recovering, TypeOK
    <3>3. status' = status \/ RecoverRow
      <4>1. ASSUME NEW e \in Rows,
                   \/ Enqueue(e) \/ Cancel(e) \/ SettleCi(e) \/ SettleRemote(e)
                   \/ RecoverSettle(e)
            PROVE  FALSE
        BY <3>2, <4>1 DEF Enqueue, Cancel, SettleCi, SettleRemote, RecoverSettle, Serving
      <4>2. ASSUME NEW t \in Ticks, Gate(t) \/ Claim(t) PROVE FALSE
        BY <3>2, <4>2 DEF Asleep, Gate, Claim
      <4>3. ASSUME NEW r \in Runs, RunClaim(r) \/ RunFinalize(r) \/ RunPromote(r) \/ RunAbort(r)
            PROVE FALSE
        BY <3>2, <4>3 DEF Asleep, RunClaim, RunFinalize, RunPromote, RunAbort
      <4>4. ~SweepWrite /\ (BootDone => status' = status)
        BY <1>2, <3>2 DEF Asleep, SweepWrite, BootDone
      <4> QED  BY <4>1, <4>2, <4>3, <4>4, StatusSteps, Zenon
    <3>4. RecoverRow => status'[d] = status[d]
      BY <1>2, <3>2 DEF RecoverRow, TypeOK
    <3> QED  BY <3>2, <3>3, <3>4
  <2> QED  BY <2>1, <2>2
<1> QED
  BY <1>1, <1>2 DEF Recovering

\* A tick chooses its row as it goes on to gate it, and hands it to the pipeline.
LEMMA StepRowed == ASSUME TypeOK, Rowed, [Next]_vars PROVE Rowed'
<1>1. ASSUME NEW u \in Ticks, tick'[u].stage \in RowStages PROVE tick'[u].row \in Rows
  <2> USE DEF RowStages
  <2>t. tick \in [Ticks -> [stage : TickStages, gen : Nat, row : Rows \cup {0}]]
    BY DEF TypeOK
  <2>0. tick[u].stage \in RowStages => tick[u].row \in Rows
    BY DEF Rowed
  <2>1. ASSUME NEW t \in Ticks, TickStep(t) PROVE tick'[u].row \in Rows
    <3>1. CASE t # u
      <4>1. tick'[u] = tick[u]
        BY <2>1, <2>t, <3>1 DEF TickStep, Fire, CountSeats, SelectQueued, Consider, Gate, Claim,
                                Launch,
                              Stage, EndTick
      <4> QED  BY <1>1, <2>0, <4>1
    <3>2. CASE t = u
      <4>1. CASE Fire(u) \/ CountSeats(u) \/ SelectQueued(u)
        BY <1>1, <2>t, <4>1 DEF Fire, CountSeats, SelectQueued, Stage, IdleTick
      <4>2. CASE Consider(u)
        <5>1. candidates # {} => Oldest(candidates) \in Rows
          BY OldestIn DEF TypeOK
        <5> QED  BY <1>1, <2>t, <4>2, <5>1 DEF Consider, EndTick, IdleTick
      <4>3. CASE Gate(u)
        BY <1>1, <2>t, <2>0, <4>3 DEF Gate, EndTick, IdleTick, Stage
      <4>4. CASE Claim(u)
        BY <1>1, <2>t, <2>0, <4>4 DEF Claim, EndTick, IdleTick, Stage
      <4>5. CASE Launch(u)
        BY <1>1, <2>t, <4>5 DEF Launch, EndTick, IdleTick
      <4> QED  BY <2>1, <3>2, <4>1, <4>2, <4>3, <4>4, <4>5 DEF TickStep
    <3> QED  BY <3>1, <3>2
  <2>2. ~Crash
    BY <1>1 DEF Crash, IdleTick
  <2>3. Stop \/ BootDone \/ Start => tick'[u] = tick[u]
    <3>1. Stop => tick'[u] = tick[u]
      BY <1>1 DEF Stop, IdleTick
    <3>2. ASSUME NEW g, ArmLoops(g) PROVE tick'[u] = tick[u]
      BY <1>1, <3>2 DEF ArmLoops
    <3> QED  BY <3>1, <3>2 DEF BootDone, Start
  <2> QED  BY <1>1, <2>0, <2>1, <2>2, <2>3, TickSteps, Zenon
<1>2. ASSUME NEW q \in Runs, run'[q].phase # "free" PROVE run'[q].row \in Rows
  <2>t. run \in [Runs -> [phase : RunPhases, row : Rows \cup {0}]]
    BY DEF TypeOK
  <2>0. run[q].phase # "free" => run[q].row \in Rows
    BY DEF Rowed, Busy
  <2>1. ASSUME NEW t \in Ticks, Launch(t) PROVE run'[q].row \in Rows
    BY <1>2, <2>t, <2>0, <2>1 DEF Launch, Rowed, RowStages
  <2>2. ASSUME NEW r \in Runs, RunExit(r) PROVE run'[q].row \in Rows
    BY <1>2, <2>t, <2>0, <2>2 DEF RunExit, FreeRun
  <2>3. ASSUME NEW r \in Runs, run[r].phase # "free", NEW p, Phase(r, p) PROVE run'[q].row \in Rows
    <3>1. run'[q].row = run[q].row /\ (q # r => run'[q].phase = run[q].phase)
      BY <2>t, <2>3 DEF Phase
    <3> QED  BY <1>2, <2>0, <2>3, <3>1
  <2>4. ~Crash
    BY <1>2 DEF Crash, FreeRun
  <2> QED  BY <1>2, <2>0, <2>1, <2>2, <2>3, <2>4, RunSteps
<1> QED
  BY <1>1, <1>2 DEF Rowed, Busy

\* The lock is taken with the first statement and given up with the last.
LEMMA StepLocked == ASSUME TypeOK, Locked, [Next]_vars PROVE Locked'
<1>1. SUFFICES ASSUME NEW u \in Ticks, tick'[u].stage \in LockStages PROVE Holds(u)'
  BY DEF Locked
<1> USE DEF LockStages
<1>t. tick \in [Ticks -> [stage : TickStages, gen : Nat, row : Rows \cup {0}]] /\ claimChain \in Seq(Ticks)
  BY DEF TypeOK
<1>2. ASSUME NEW t \in Ticks, TickStep(t) PROVE Holds(u)'
  <2>1. CASE Fire(t)
    <3>1. u # t /\ tick'[u] = tick[u]
      BY <1>1, <1>t, <2>1 DEF Fire, Stage, IdleTick
    <3>2. claimChain # <<>> /\ Head(claimChain) = u
      BY <1>1, <3>1 DEF Locked, Holds
    <3>3. claimChain' \in {claimChain, Append(claimChain, t)}
      BY <2>1 DEF Fire
    <3> QED  BY <1>t, <3>2, <3>3 DEF Holds
  <2>2. CASE CountSeats(t)
    <3>1. u # t => tick'[u] = tick[u]
      BY <1>t, <2>2 DEF CountSeats, Stage
    <3> QED  BY <1>1, <2>2, <3>1 DEF CountSeats, Locked, Holds
  <2>3. CASE /\ tick[t].stage \in LockStages /\ claimChain' = claimChain
             /\ \A v \in Ticks \ {t} : tick'[v] = tick[v]
    BY <1>1, <2>3 DEF Locked, Holds
  <2>4. CASE /\ tick[t].stage \in LockStages /\ tick'[t].stage \notin LockStages
             /\ \A v \in Ticks \ {t} : tick'[v] = tick[v]
    BY <1>1, <2>4 DEF Locked, Holds
  <2>5. CASE SelectQueued(t) \/ Consider(t) \/ Gate(t) \/ Claim(t)
    <3>1. tick[t].stage \in LockStages /\ \A v \in Ticks \ {t} : tick'[v] = tick[v]
      BY <1>t, <2>5 DEF SelectQueued, Consider, Gate, Claim, Stage, EndTick
    <3>2. claimChain' = claimChain \/ tick'[t].stage \notin LockStages
      BY <1>t, <2>5 DEF SelectQueued, Consider, Gate, Claim, Stage, EndTick, IdleTick
    <3> QED  BY <2>3, <2>4, <3>1, <3>2
  <2>6. CASE Launch(t)
    <3>1. u # t /\ tick'[u] = tick[u]
      BY <1>1, <1>t, <2>6 DEF Launch, EndTick, IdleTick
    <3> QED  BY <1>1, <2>6, <3>1 DEF Launch, Locked, Holds
  <2> QED  BY <1>2, <2>1, <2>2, <2>5, <2>6 DEF TickStep
<1>3. ~Crash
  BY <1>1 DEF Crash, IdleTick
<1>4. CASE ~\E t \in Ticks : TickStep(t)
  <2>1. claimChain' = claimChain
    <3>1. claimChain' = claimChain \/ Crash \/ \E t \in Ticks : TickStep(t)
      BY DEF Next, vars, RunStep, Enqueue, Cancel, SettleCi, Age, SettleRemote,
             RecoverSettle, RecoverDone, Freeze, Unfreeze, RunRead, RunClaim,
             RunJournal, RunFinalize, RunPromote, RunAbort, RunLoseLease, RunExit,
             SweepSelect, SweepWrite, Boot, RecoverRow, RecoverRowFails, BootDone, Stop,
             StopDrain, StopDone, StopGraceOver, Start, tables, memory, loops, control
    <3> QED  BY <1>3, <1>4, <3>1
  <2>2. tick'[u] = tick[u]
    <3>1. Stop => tick'[u] = tick[u]
      BY <1>1 DEF Stop, IdleTick
    <3>2. ASSUME NEW g, ArmLoops(g) PROVE tick'[u] = tick[u]
      BY <1>1, <3>2 DEF ArmLoops
    <3> QED  BY <1>3, <1>4, <3>1, <3>2, TickSteps DEF BootDone, Start
  <2> QED  BY <1>1, <2>1, <2>2 DEF Locked, Holds
<1> QED
  BY <1>2, <1>4, Zenon

-----------------------------------------------------------------------------
(* One chain of statements at a time                                       *)

\* A tick moves by its own steps, or is set to rest or armed.
LEMMA MidwaySteps ==
    ASSUME TypeOK, [Next]_vars, NEW u \in Ticks, Midway(u)'
    PROVE  tick'[u] = tick[u] \/ TickStep(u)
<1>t. tick \in [Ticks -> [stage : TickStages, gen : Nat, row : Rows \cup {0}]]
  BY DEF TypeOK
<1>1. ASSUME NEW t \in Ticks, TickStep(t), t # u PROVE tick'[u] = tick[u]
  BY <1>1, <1>t DEF TickStep, Fire, CountSeats, SelectQueued, Consider, Gate, Claim, Launch,
                    Stage, EndTick
<1>2. ~Crash
  BY DEF Crash, IdleTick, Midway
<1>3. Stop => tick'[u] = tick[u]
  BY DEF Stop, IdleTick, Midway
<1>4. ASSUME NEW g, ArmLoops(g) PROVE tick'[u] = tick[u]
  BY <1>4 DEF ArmLoops, Midway
<1> QED
  BY <1>1, <1>2, <1>3, <1>4, TickSteps DEF BootDone, Start

\* A tick fires only when no chain of statements is under way.
LEMMA StepAlone == ASSUME TypeOK, Alone, [Next]_vars PROVE Alone'
<1>1. SUFFICES ASSUME ~DriverSuspends
               PROVE  /\ \A t, u \in Ticks : Midway(t)' /\ Midway(u)' => t = u
                      /\ sweep' # {} => \A t \in Ticks : ~Midway(t)'
  BY DEF Alone
<1>2. /\ \A t, u \in Ticks : Midway(t) /\ Midway(u) => t = u
      /\ sweep # {} => \A t \in Ticks : ~Midway(t)
  BY <1>1 DEF Alone
<1>3. \A u \in Ticks : Midway(u)' => Midway(u) \/ (Fire(u) /\ sweep = {} /\ \A t \in Ticks \ {u} : ~Midway(t))
  <2>1. ASSUME NEW u \in Ticks, Midway(u)', ~Midway(u)
        PROVE  Fire(u) /\ sweep = {} /\ \A t \in Ticks \ {u} : ~Midway(t)
    <3>1. Fire(u)
      BY <2>1, MidwaySteps DEF Midway, TickStep, CountSeats, SelectQueued, Consider, Gate,
                               Claim, Launch
    <3> QED  BY <1>1, <3>1 DEF Fire, Undisturbed
  <2> QED  BY <2>1
<1>4. ASSUME NEW t \in Ticks, Fire(t) PROVE \A u \in Ticks : u # t => (Midway(u)' => Midway(u))
  BY <1>4 DEF Fire, Stage, Midway, TypeOK, IdleTick
<1>5. sweep' # {} => sweep' = sweep \/ SweepSelect
  BY ZenonT(40) DEF Next, vars, TickStep, RunStep, Enqueue, Cancel, SettleCi, Age, SettleRemote,
         RecoverSettle, RecoverDone, Freeze, Unfreeze, Fire, CountSeats, SelectQueued,
         Consider, Gate, Claim, Launch, RunRead, RunClaim, RunJournal, RunFinalize,
         RunPromote, RunAbort, RunLoseLease, RunExit, SweepWrite, Crash, Boot,
         RecoverRow, RecoverRowFails, BootDone, Stop, StopDrain, StopDone,
         StopGraceOver, Start, tables, memory, loops, control
<1>6. SweepSelect => \A t \in Ticks : ~Midway(t)'
  BY <1>1 DEF SweepSelect, Undisturbed, loops, Midway
<1> QED
  BY <1>2, <1>3, <1>4, <1>5, <1>6

\* Only Age makes a row stale.
LEMMA StepYoung == ASSUME TypeOK, Young, [Next]_vars PROVE Young'
<1>1. SUFFICES ASSUME Aging = {} PROVE sweep' = {} /\ \A d \in Rows : ~aged'[d]
  BY DEF Young
<1>2. sweep = {} /\ \A d \in Rows : ~aged[d]
  BY <1>1 DEF Young
<1>3. sweep' = {}
  <2>1. sweep' \in {sweep, {}} \/ SweepSelect
    BY ZenonT(40) DEF Next, vars, TickStep, RunStep, Enqueue, Cancel, SettleCi, Age, SettleRemote,
           RecoverSettle, RecoverDone, Freeze, Unfreeze, Fire, CountSeats, SelectQueued,
           Consider, Gate, Claim, Launch, RunRead, RunClaim, RunJournal, RunFinalize,
           RunPromote, RunAbort, RunLoseLease, RunExit, SweepWrite, Crash, Boot,
           RecoverRow, RecoverRowFails, BootDone, Stop, StopDrain, StopDone,
           StopGraceOver, Start, tables, memory, loops, control
  <2> QED  BY <1>2, <2>1 DEF SweepSelect
<1>4. ASSUME NEW d \in Rows PROVE ~aged'[d]
  <2>1. aged' = aged \/ \E r \in Runs : aged' = [aged EXCEPT ![run[r].row] = FALSE]
    BY <1>1, ZenonT(40) DEF Next, vars, TickStep, RunStep, Enqueue, Cancel, SettleCi, Age,
           SettleRemote, RecoverSettle, RecoverDone, Freeze, Unfreeze, Fire, CountSeats,
           SelectQueued, Consider, Gate, Claim, Launch, RunRead, RunClaim, RunJournal,
           RunFinalize, RunPromote, RunAbort, RunLoseLease, RunExit, SweepSelect,
           SweepWrite, Crash, Boot, RecoverRow, RecoverRowFails, BootDone, Stop,
           StopDrain, StopDone, StopGraceOver, Start, tables, memory, loops, control
  <2> QED  BY <1>2, <2>1 DEF TypeOK
<1> QED
  BY <1>3, <1>4

\* While a chain of statements is under way nobody else writes a row.
LEMMA SweepAlone ==
    ASSUME ~DriverSuspends, Asleep, Alone, [Next]_vars, sweep # {}
    PROVE  status' = status \/ SweepWrite
<1>1. ASSUME NEW e \in Rows, \/ Enqueue(e) \/ Cancel(e) \/ SettleCi(e) \/ SettleRemote(e)
                             \/ RecoverSettle(e)
      PROVE  FALSE
  BY <1>1 DEF Enqueue, Cancel, SettleCi, SettleRemote, RecoverSettle, Undisturbed
<1>2. ASSUME NEW t \in Ticks, Gate(t) \/ Claim(t) PROVE FALSE
  BY <1>2 DEF Alone, Gate, Claim, Midway
<1>3. ASSUME NEW r \in Runs, RunClaim(r) \/ RunFinalize(r) \/ RunPromote(r) \/ RunAbort(r)
      PROVE FALSE
  BY <1>3 DEF RunClaim, RunFinalize, RunPromote, RunAbort, Undisturbed
<1>4. ~RecoverRow /\ ~BootDone
  BY DEF Asleep, RecoverRow, BootDone
<1> QED
  BY <1>1, <1>2, <1>3, <1>4, StatusSteps, Zenon

\* Between the sweep's read and its write nothing ends a row.
LEMMA StepSwept == ASSUME TypeOK, Asleep, Alone, Young, Swept, [Next]_vars PROVE Swept'
<1>1. SUFFICES ASSUME Prompt, NEW d \in sweep' PROVE status'[d] \in Active
  BY DEF Swept, Prompt
<1>2. (sweep' = sweep /\ sweep # {}) \/ SweepSelect
  BY <1>1, ZenonT(40) DEF Next, vars, TickStep, RunStep, Enqueue, Cancel, SettleCi, Age,
         SettleRemote, RecoverSettle, RecoverDone, Freeze, Unfreeze, Fire, CountSeats,
         SelectQueued, Consider, Gate, Claim, Launch, RunRead, RunClaim, RunJournal,
         RunFinalize, RunPromote, RunAbort, RunLoseLease, RunExit, SweepWrite, Crash,
         Boot, RecoverRow, RecoverRowFails, BootDone, Stop, StopDrain, StopDone,
         StopGraceOver, Start, tables, memory, loops, control
<1>3. CASE SweepSelect
  BY <1>1, <1>3 DEF SweepSelect, tables
<1>4. CASE sweep' = sweep /\ sweep # {}
  <2>1. ~DriverSuspends
    BY <1>1, <1>4 DEF Prompt, Young
  <2>2. status' = status
    BY <1>4, <2>1, SweepAlone DEF SweepWrite
  <2> QED  BY <1>1, <1>4, <2>2 DEF Swept
<1> QED
  BY <1>2, <1>3, <1>4

-----------------------------------------------------------------------------
(* One pipeline of a service                                               *)

\* Where the pipelines of the next state come from.
LEMMA BusySteps ==
    ASSUME TypeOK, [Next]_vars, NEW q \in Busy'
    PROVE  \/ q \in Busy /\ run'[q].row = run[q].row
           \/ \E t \in Ticks : Launch(t) /\ q \notin Busy /\ run'[q].row = tick[t].row
<1>t. run \in [Runs -> [phase : RunPhases, row : Rows \cup {0}]] /\ q \in Runs /\ run'[q].phase # "free"
  BY DEF TypeOK, Busy
<1>1. ASSUME NEW t \in Ticks, Launch(t)
      PROVE  \/ q \in Busy /\ run'[q].row = run[q].row
             \/ q \notin Busy /\ run'[q].row = tick[t].row
  BY <1>t, <1>1 DEF Launch, Busy
<1>2. ASSUME NEW r \in Runs, RunExit(r) PROVE q \in Busy /\ run'[q].row = run[q].row
  BY <1>t, <1>2 DEF RunExit, FreeRun, Busy
<1>3. ASSUME NEW r \in Runs, run[r].phase # "free", NEW p, Phase(r, p)
      PROVE  q \in Busy /\ run'[q].row = run[q].row
  <2>1. run'[q].row = run[q].row /\ (q # r => run'[q].phase = run[q].phase)
    BY <1>t, <1>3 DEF Phase
  <2> QED  BY <1>t, <1>3, <2>1 DEF Busy
<1>4. ~Crash
  BY <1>t DEF Crash, FreeRun
<1>5. run' = run => q \in Busy /\ run'[q].row = run[q].row
  BY <1>t DEF Busy
<1> QED
  BY <1>1, <1>2, <1>3, <1>4, <1>5, RunSteps

\* How a tick comes to a row: Consider gives it one whose service has no pipeline.
LEMMA RowSteps ==
    ASSUME TypeOK, [Next]_vars, NEW u \in Ticks, tick'[u].stage \in RowStages
    PROVE  \/ tick[u].stage \in RowStages /\ tick'[u].row = tick[u].row
           \/ /\ inFlightServices' = inFlightServices
              /\ ServiceOf[tick'[u].row] \notin inFlightServices
<1> USE DEF RowStages
<1>t. tick \in [Ticks -> [stage : TickStages, gen : Nat, row : Rows \cup {0}]]
  BY DEF TypeOK
<1>1. tick'[u] = tick[u] \/ TickStep(u)
  BY MidwaySteps DEF Midway
<1>2. ~Fire(u) /\ ~CountSeats(u) /\ ~SelectQueued(u) /\ ~Launch(u)
  BY <1>t DEF Fire, CountSeats, SelectQueued, Launch, Stage, EndTick, IdleTick
<1>3. CASE Consider(u)
  BY <1>t, <1>3 DEF Consider, EndTick, IdleTick, memory
<1>4. CASE Gate(u) \/ Claim(u)
  <2>1. tick'[u].stage \in RowStages => tick'[u].row = tick[u].row
    BY <1>t, <1>4 DEF Gate, Claim, Stage, EndTick, IdleTick
  <2> QED  BY <1>4, <2>1 DEF Gate, Claim
<1> QED
  BY <1>1, <1>2, <1>3, <1>4 DEF TickStep

\* The claim consults the services in flight in the chain of statements that extends them.
LEMMA StepTracked == ASSUME TypeOK, Alone, Tracked, [Next]_vars PROVE Tracked'
<1>1. SUFFICES ASSUME ~DriverSuspends
               PROVE  /\ \A r \in Busy' : /\ run'[r].row \in inFlight'
                                          /\ ServiceOf[run'[r].row] \in inFlightServices'
                      /\ \A t \in Ticks : tick'[t].stage \in RowStages =>
                                              ServiceOf[tick'[t].row] \notin inFlightServices'
                      /\ OnePipelinePerService'
  BY DEF Tracked
<1>2. /\ \A r \in Busy : run[r].row \in inFlight /\ ServiceOf[run[r].row] \in inFlightServices
      /\ \A t \in Ticks : tick[t].stage \in RowStages => ServiceOf[tick[t].row] \notin inFlightServices
      /\ OnePipelinePerService
  BY <1>1 DEF Tracked
<1>3. \/ inFlight' = inFlight /\ inFlightServices' = inFlightServices
      \/ \E t \in Ticks : Launch(t)
      \/ \E r \in Runs : RunExit(r)
      \/ Crash
  BY ZenonT(40) DEF Next, vars, TickStep, RunStep, Enqueue, Cancel, SettleCi, Age, SettleRemote,
         RecoverSettle, RecoverDone, Freeze, Unfreeze, Fire, CountSeats, SelectQueued,
         Consider, Gate, Claim, RunRead, RunClaim, RunJournal, RunFinalize, RunPromote,
         RunAbort, RunLoseLease, SweepSelect, SweepWrite, Boot, RecoverRow,
         RecoverRowFails, BootDone, Stop, StopDrain, StopDone, StopGraceOver, Start,
         tables, memory, loops, control
<1>4. Crash => Busy' = {}
  BY DEF Crash, Busy, FreeRun
<1>5. ASSUME NEW q \in Busy' PROVE run'[q].row \in inFlight' /\ ServiceOf[run'[q].row] \in inFlightServices'
  <2>1. CASE \E t \in Ticks : Launch(t)
    <3>1. PICK t \in Ticks : Launch(t)
      BY <2>1
    <3>2. /\ inFlight' = inFlight \cup {tick[t].row}
          /\ inFlightServices' = inFlightServices \cup {ServiceOf[tick[t].row]}
      BY <3>1 DEF Launch
    <3>3. \/ q \in Busy /\ run'[q].row = run[q].row
          \/ run'[q].row = tick[t].row
      BY <3>1 DEF Launch, Busy, TypeOK
    <3> QED  BY <1>2, <3>2, <3>3
  <2>2. CASE ~\E t \in Ticks : Launch(t)
    <3>1. q \in Busy /\ run'[q].row = run[q].row
      BY <2>2, BusySteps
    <3>2. ASSUME NEW r \in Runs, RunExit(r)
          PROVE  run'[q].row \in inFlight' /\ ServiceOf[run'[q].row] \in inFlightServices'
      <4>1. q # r /\ r \in Busy
        BY <3>2 DEF RunExit, Busy, FreeRun, TypeOK
      <4>2. ServiceOf[run[q].row] # ServiceOf[run[r].row]
        BY <1>2, <3>1, <4>1 DEF OnePipelinePerService
      <4> QED  BY <1>2, <3>1, <3>2, <4>2 DEF RunExit
    <3> QED  BY <1>2, <1>3, <1>4, <2>2, <3>1, <3>2
  <2> QED  BY <2>1, <2>2
<1>6. ASSUME NEW u \in Ticks, tick'[u].stage \in RowStages
      PROVE  ServiceOf[tick'[u].row] \notin inFlightServices'
  <2>1. ~Crash /\ ~\E t \in Ticks : Launch(t)
    <3>1. ~Crash
      BY <1>6 DEF Crash, IdleTick, RowStages
    <3>2. ASSUME NEW t \in Ticks, Launch(t) PROVE FALSE
      <4>1. t # u /\ tick'[u] = tick[u]
        BY <1>6, <3>2 DEF Launch, EndTick, IdleTick, RowStages, TypeOK
      <4>2. Midway(t) /\ Midway(u)
        BY <1>6, <3>2, <4>1 DEF Launch, Midway, RowStages
      <4> QED  BY <1>1, <4>1, <4>2 DEF Alone
    <3> QED  BY <3>1, <3>2
  <2>2. inFlightServices' \subseteq inFlightServices
    BY <1>3, <2>1 DEF RunExit
  <2> QED  BY <1>2, <1>6, <2>2, RowSteps
<1>7. OnePipelinePerService'
  <2>1. SUFFICES ASSUME NEW q \in Busy', NEW r \in Busy', q # r
                 PROVE  ServiceOf[run'[q].row] # ServiceOf[run'[r].row]
    BY DEF OnePipelinePerService
  <2>2. CASE q \in Busy /\ r \in Busy /\ run'[q].row = run[q].row /\ run'[r].row = run[r].row
    BY <1>2, <2>1, <2>2 DEF OnePipelinePerService
  <2>3. ASSUME NEW t \in Ticks, Launch(t)
        PROVE  /\ \A p \in Busy' : \/ p \in Busy /\ run'[p].row = run[p].row
                                   \/ p \notin Busy /\ run'[p].row = tick[t].row
               /\ \A p, o \in Busy' : p \notin Busy /\ o \notin Busy => p = o
               /\ ServiceOf[tick[t].row] \notin inFlightServices
    <3>1. PICK n \in Runs : run' = [run EXCEPT ![n] = [phase |-> "reading", row |-> tick[t].row]]
                            /\ run[n].phase = "free"
      BY <2>3 DEF Launch
    <3>2. \A p \in Runs : run'[p] = IF p = n THEN [phase |-> "reading", row |-> tick[t].row] ELSE run[p]
      BY <3>1 DEF TypeOK
    <3>3. ServiceOf[tick[t].row] \notin inFlightServices
      BY <1>2, <2>3 DEF Launch, RowStages
    <3> QED  BY <3>1, <3>2, <3>3 DEF Busy
  <2> QED  BY <1>2, <2>1, <2>2, <2>3, BusySteps
<1> QED
  BY <1>5, <1>6, <1>7

-----------------------------------------------------------------------------
(* What the table says of the deployments that began                       *)

\* A row that began is only requeued by a sweep or the boot.
LEMMA BegunMoves ==
    ASSUME TypeOK, Rowed, Recovering, [Next]_vars, NEW d \in Rows, status[d] \in BegunStatus
    PROVE  status'[d] \in BegunStatus \/ IsRequeued(d)
BY StatusMoves DEF BegunStatus, Ends, Begins, Succeeds, Active

\* Only a requeue sends a row back, and it spares the rows in flight.
LEMMA StepBegun ==
    ASSUME TypeOK, Asleep, Recovering, Rowed, Alone, Young, Tracked, Begun, [Next]_vars
    PROVE  Begun'
<1>1. SUFFICES ASSUME Prompt
               PROVE  /\ \A t \in Ticks : tick'[t].stage = "launching" => status'[tick'[t].row] \in BegunStatus
                      /\ \A r \in Busy' : status'[run'[r].row] \in BegunStatus
  BY DEF Begun, Prompt
<1>2. /\ \A t \in Ticks : tick[t].stage = "launching" => status[tick[t].row] \in BegunStatus
      /\ \A r \in Busy : status[run[r].row] \in BegunStatus
  BY <1>1 DEF Begun
<1>3. ASSUME NEW u \in Ticks, tick'[u].stage = "launching" PROVE status'[tick'[u].row] \in BegunStatus
  <2>t. tick \in [Ticks -> [stage : TickStages, gen : Nat, row : Rows \cup {0}]] /\ DOMAIN status = Rows
    BY DEF TypeOK
  <2>1. tick'[u] = tick[u] \/ TickStep(u)
    BY <1>3, MidwaySteps DEF Midway
  <2>2. CASE tick'[u] = tick[u]
    <3>1. tick[u].row \in Rows /\ Midway(u) /\ status[tick[u].row] \in BegunStatus
      BY <1>2, <1>3, <2>2 DEF Rowed, RowStages, Midway
    <3>2. ~IsRequeued(tick[u].row)
      <4>1. ~BootDone
        BY <1>3, <2>2 DEF BootDone, Asleep
      <4>2. ~(SweepWrite /\ tick[u].row \in sweep)
        BY <1>1, <3>1 DEF Prompt, Young, Alone
      <4> QED  BY <4>1, <4>2 DEF IsRequeued
    <3> QED  BY <2>2, <3>1, <3>2, BegunMoves
  <2>3. CASE TickStep(u) /\ tick'[u] # tick[u]
    <3>1. Claim(u)
      BY <1>3, <2>t, <2>3 DEF TickStep, Fire, CountSeats, SelectQueued, Consider, Gate, Launch,
                            Stage, EndTick, IdleTick
    <3>2. tick[u].row \in Rows /\ tick'[u].row = tick[u].row
      BY <1>3, <2>t, <3>1 DEF Claim, Stage, EndTick, IdleTick, Rowed, RowStages
    <3>3. status'[tick[u].row] = "building"
      BY <1>3, <2>t, <3>1, <3>2 DEF Claim, EndTick, IdleTick
    <3> QED  BY <3>2, <3>3 DEF BegunStatus
  <2> QED  BY <2>1, <2>2, <2>3
<1>4. ASSUME NEW q \in Busy' PROVE status'[run'[q].row] \in BegunStatus
  <2>1. ASSUME NEW t \in Ticks, Launch(t), run'[q].row = tick[t].row
        PROVE  status'[run'[q].row] \in BegunStatus
    BY <1>2, <2>1 DEF Launch, tables
  <2>2. CASE q \in Busy /\ run'[q].row = run[q].row
    <3>1. run[q].row \in Rows /\ status[run[q].row] \in BegunStatus
      BY <1>2, <2>2 DEF Rowed
    <3>2. ~IsRequeued(run[q].row)
      <4>1. ~BootDone
        BY <2>2 DEF BootDone, Asleep, Busy
      <4>2. ~(~Protected(run[q].row) /\ run[q].row \in sweep)
        BY <1>1, <2>2 DEF Prompt, Young, Tracked, Protected
      <4> QED  BY <4>1, <4>2 DEF IsRequeued
    <3> QED  BY <2>2, <3>1, <3>2, BegunMoves
  <2> QED  BY <2>1, <2>2, BusySteps
<1> QED
  BY <1>3, <1>4

\* Only the guarded update of a claim puts a row in progress.
LEMMA ActiveSteps ==
    ASSUME TypeOK, Recovering, Rowed, Begun, Prompt, [Next]_vars,
           NEW x \in Rows, status'[x] \in Active, status[x] \notin Active
    PROVE  \E t \in Ticks : Claim(t) /\ tick[t].row = x /\ status'[x] # status[x]
<1>1. ASSUME NEW r \in Busy, run[r].row = x PROVE status[x] # "queued"
  BY <1>1 DEF Begun, BegunStatus
<1> QED
  BY <1>1, StatusMoves DEF Ends, Begins, Succeeds, IsRequeued, Active

\* A row begins only by a claim, and a claim looks for a row in progress first.
LEMMA StepOneActive ==
    ASSUME TypeOK, Recovering, Rowed, Begun, Prompt => OneActiveRow, [Next]_vars, Prompt
    PROVE  OneActiveRow'
<1>1. SUFFICES ASSUME NEW d \in Rows, NEW e \in Rows, d # e, status'[d] \in Active, status'[e] \in Active,
                      ServiceOf[d] = ServiceOf[e]
               PROVE  FALSE
  BY DEF OneActiveRow, Active
<1>2. \A x \in Rows : status'[x] \in Active =>
          status[x] \in Active \/ \E t \in Ticks : Claim(t) /\ tick[t].row = x /\ status'[x] # status[x]
  BY ActiveSteps
<1>3. ASSUME NEW t \in Ticks, Claim(t), NEW x \in Rows, tick[t].row = x, status'[x] # status[x]
      PROVE  \A y \in Of(ServiceOf[x]) : y # x => status'[y] \notin Active
  BY <1>3 DEF Claim, Of, Active, TypeOK, Stale
<1>4. status[d] \in Active /\ status[e] \in Active
  <2>1. d \in Of(ServiceOf[e]) /\ e \in Of(ServiceOf[d])
    BY <1>1 DEF Of
  <2> QED  BY <1>1, <1>2, <1>3, <2>1
<1> QED
  BY <1>1, <1>4 DEF OneActiveRow, Active

\* A row that succeeds supersedes the running one in the same transaction.
LEMMA StepOneRunning ==
    ASSUME TypeOK, Recovering, Rowed, OneRunningRelease, [Next]_vars PROVE OneRunningRelease'
<1>1. SUFFICES ASSUME NEW d \in Rows, NEW e \in Rows, d # e, status'[d] = "running", status'[e] = "running",
                      ServiceOf[d] = ServiceOf[e]
               PROVE  FALSE
  BY DEF OneRunningRelease
<1>2. d \in Siblings(e) /\ e \in Siblings(d)
  BY <1>1 DEF Siblings, Of
<1>3. status[d] = "running" /\ status[e] = "running"
  BY <1>1, <1>2, StatusMoves DEF Ends, Begins, Succeeds, IsRequeued
<1> QED
  BY <1>1, <1>3 DEF OneRunningRelease

-----------------------------------------------------------------------------
(* The invariant of the worker                                             *)

\* What holds of the worker under every driver, and what keeps its rows apart.
Base == TypeOK /\ Asleep /\ Recovering /\ Rowed /\ Locked
RowsInv == /\ Alone /\ Young /\ Swept /\ Tracked /\ Begun /\ OneRunningRelease
           /\ Prompt => OneActiveRow

\* The invariants hold initially and in every step.
LEMMA InitBase == Init => Base
<1> SUFFICES ASSUME Init PROVE Base
  OBVIOUS
<1>1. /\ status \in [Rows -> Statuses] /\ journal \in [Rows -> JournalStates] /\ frozen \subseteq Services
      /\ mode \in Modes /\ generation \in Nat
  BY DEF Init, Statuses, JournalStates, Modes
<1>2. started \in [Rows -> BOOLEAN] /\ aged \in [Rows -> BOOLEAN] /\ receipt \in [Rows -> BOOLEAN]
  BY DEF Init
<1>3. /\ tick \in [Ticks -> [stage : TickStages, gen : Nat, row : Rows \cup {0}]]
      /\ run \in [Runs -> [phase : RunPhases, row : Rows \cup {0}]]
  BY DEF Init, IdleTick, TickStages, FreeRun, RunPhases
<1>4. claimChain \in Seq(Ticks) /\ seats \in [Partitions -> Nat] /\ candidates \subseteq Rows
  BY DEF Init
<1>5. /\ inFlight \subseteq Rows /\ inFlightServices \subseteq Services /\ sweep \subseteq Rows
      /\ settledAtBoot \subseteq Rows /\ interruptedRemote \subseteq Rows /\ toRecover \subseteq Rows
  BY DEF Init
<1>6. awaited \in [ticks : SUBSET Ticks, runs : SUBSET Runs]
  BY DEF Init, NoWait
<1>7. budget \in [{"cancel", "crash", "stop", "freeze", "fault"} -> Nat]
  <2>1. {MaxCancels, MaxCrashes, MaxStops, MaxFreezes, MaxFaults} \subseteq Nat
    BY BoundsAssumption
  <2> QED  BY <2>1 DEF Init
<1>8. Asleep /\ Recovering /\ Rowed /\ Locked
  BY DEF Init, Asleep, Recovering, Rowed, Locked, IdleTick, FreeRun, Busy, RowStages, LockStages
<1> QED
  BY <1>1, <1>2, <1>3, <1>4, <1>5, <1>6, <1>7, <1>8 DEF Base, TypeOK

LEMMA InitRows == Init => RowsInv
<1> SUFFICES ASSUME Init PROVE RowsInv
  OBVIOUS
<1>1. Alone /\ Young /\ Swept
  BY DEF Init, Alone, Young, Swept, Midway, IdleTick
<1>2. Busy = {}
  BY DEF Init, Busy, FreeRun
<1>3. Tracked /\ Begun
  BY <1>2 DEF Init, Tracked, Begun, IdleTick, RowStages, OnePipelinePerService
<1>4. OneRunningRelease /\ OneActiveRow
  BY DEF Init, OneRunningRelease, OneActiveRow
<1> QED
  BY <1>1, <1>3, <1>4 DEF RowsInv

LEMMA StepBase == ASSUME Base, [Next]_vars PROVE Base'
BY StepType, StepAsleep, StepRecovering, StepRowed, StepLocked DEF Base

LEMMA StepRows == ASSUME Base, RowsInv, [Next]_vars PROVE RowsInv'
<1>1. Alone' /\ Young' /\ Swept' /\ Tracked'
  BY StepAlone, StepYoung, StepSwept, StepTracked DEF Base, RowsInv
<1>2. Begun' /\ OneRunningRelease'
  BY StepBegun, StepOneRunning DEF Base, RowsInv
<1>3. Prompt => OneActiveRow'
  BY StepOneActive DEF Base, RowsInv
<1> QED
  BY <1>1, <1>2, <1>3 DEF RowsInv, Prompt

LEMMA BaseHolds == Spec => []Base
BY InitBase, StepBase, PTL DEF Spec

LEMMA RowsHold == Spec => [](Base /\ RowsInv)
<1>1. Init => Base /\ RowsInv
  BY InitBase, InitRows
<1>2. Base /\ RowsInv /\ [Next]_vars => (Base /\ RowsInv)'
  BY StepBase, StepRows
<1> QED
  BY <1>1, <1>2, PTL DEF Spec

\* Type correctness of the worker, for every driver and every bound.
THEOREM TypeCorrect == Spec => []TypeOK
<1>1. Base => TypeOK
  BY DEF Base
<1> QED
  BY <1>1, BaseHolds, PTL

\* With the shipped driver a service never has two pipelines, however many rows,
\* services, loops, stops, cancels, crashes and faults there are: what decides is
\* the set of services in flight, which a claim consults and a launch extends in
\* one chain of statements.
THEOREM OnePipelineHolds == ~DriverSuspends => (Spec => []OnePipelinePerService)
<1> SUFFICES ASSUME ~DriverSuspends PROVE Spec => []OnePipelinePerService
  OBVIOUS
<1>1. Base /\ RowsInv => OnePipelinePerService
  BY DEF RowsInv, Tracked
<1> QED
  BY <1>1, RowsHold, PTL

\* The table never shows two deployments of a service in progress, nor two running
\* releases: with the shipped driver, and with any driver while no row grows stale.
THEOREM OneRowOfAKindHolds == ~DriverSuspends \/ Aging = {} => (Spec => []OneRowOfAKind)
<1> SUFFICES ASSUME Prompt PROVE Spec => []OneRowOfAKind
  BY DEF Prompt
<1>1. Base /\ RowsInv => OneRowOfAKind
  BY DEF RowsInv, OneRowOfAKind
<1> QED
  BY <1>1, RowsHold, PTL

\* No step sends a deployment back to life or back to the queue under its pipeline:
\* the sweep's unguarded write only meets rows that are still in progress.
THEOREM NothingRevivedHolds == ~DriverSuspends \/ Aging = {} => (Spec => NothingRevived)
<1> SUFFICES ASSUME Prompt PROVE Spec => NothingRevived
  BY DEF Prompt
<1> DEFINE Kept == \A d \in Rows : d \in inFlight /\ status[d] \in Active => status'[d] # "queued"
           Ended == \A d \in Rows :
                        status[d] \in {"cancelled", "failed", "superseded"} => status'[d] = status[d]
<1>1. Base /\ RowsInv /\ [Next]_vars => Kept /\ Ended
  <2>1. SUFFICES ASSUME Base, RowsInv, [Next]_vars, NEW d \in Rows
                 PROVE  /\ d \in inFlight /\ status[d] \in Active => status'[d] # "queued"
                        /\ status[d] \in {"cancelled", "failed", "superseded"} => status'[d] = status[d]
    OBVIOUS
  <2>2. IsRequeued(d) => status[d] \in Active /\ d \notin inFlight
    BY <2>1 DEF IsRequeued, Protected, RowsInv, Swept
  <2>3. \/ status'[d] = status[d] \/ Ends(d) \/ Begins(d) \/ Succeeds(d) \/ IsRequeued(d)
    BY <2>1, StatusMoves DEF Base
  <2> QED  BY <2>2, <2>3 DEF Ends, Begins, Succeeds, Active
<1>2. Base /\ RowsInv /\ [Next]_vars => [Kept]_vars /\ [Ended]_vars
  BY <1>1
<1> HIDE DEF Kept, Ended
<1>3. Spec => [][Kept]_vars /\ [][Ended]_vars
  BY <1>2, RowsHold, PTL DEF Spec
<1> QED
  BY <1>3 DEF Kept, Ended, NothingRevived, EndedStaysEnded, RunningRowKept

-----------------------------------------------------------------------------
(* The seats of a partition                                                *)

\* The rows that take a seat of a partition.
SeatedIn(p) == {d \in Seated : PartOf(d) = p}
\* The count a tick holds under the lock is never below the seats taken since: rows
\* may end behind its back, but none begins.
SeatsCounted == Prompt =>
    \A t \in Ticks :
        /\ tick[t].stage \in LockStages =>
               \A p \in Partitions : Cardinality(SeatedIn(p)) <= seats[p]
        /\ tick[t].stage = "claiming" => seats[PartOf(tick[t].row)] < Concurrency
SeatsInv == SeatsCounted /\ (Prompt => SeatsRespected)

\* An interrupted row in progress keeps its journal.
LEMMA InterruptedStays ==
    ASSUME TypeOK, [Next]_vars, NEW d \in Rows, status[d] \in Active, journal[d] = "interrupted"
    PROVE  journal'[d] = "interrupted"
<1>t. journal \in [Rows -> JournalStates] /\ d \in Of(ServiceOf[d])
  BY DEF TypeOK, Of
<1>1. ASSUME NEW r \in Runs, RunJournal(r) \/ RunLoseLease(r) \/ RunExit(r)
      PROVE  journal'[d] = "interrupted"
  BY <1>t, <1>1 DEF RunJournal, RunLoseLease, RunExit, HasJournal
<1>2. ASSUME NEW e \in Rows, RecoverDone(e) PROVE journal'[d] = "interrupted"
  BY <1>t, <1>2 DEF RecoverDone
<1>3. Crash \/ RecoverRow => journal'[d] = "interrupted"
  BY <1>t DEF Crash, RecoverRow
<1> QED
  BY <1>1, <1>2, <1>3, JournalSteps

\* Only a claim takes a seat.
LEMMA SeatedSteps ==
    ASSUME Base, RowsInv, Prompt, [Next]_vars
    PROVE  \/ Seated' \subseteq Seated
           \/ \E t \in Ticks : Claim(t) /\ Seated' \subseteq Seated \cup {tick[t].row}
<1>1. ASSUME NEW d \in Seated', d \notin Seated
      PROVE  \E t \in Ticks : Claim(t) /\ tick[t].row = d
  <2>1. d \in Rows /\ status'[d] \in Active /\ journal'[d] # "interrupted"
    BY <1>1 DEF Seated
  <2>2. status[d] \notin Active
    BY <1>1, <2>1, InterruptedStays DEF Seated, Base
  <2> QED  BY <2>1, <2>2, ActiveSteps DEF Base, RowsInv
<1>2. ASSUME NEW t \in Ticks, NEW u \in Ticks, Claim(t), Claim(u) PROVE t = u
  BY <1>2 DEF Base, Locked, LockStages, Holds, Claim
<1> QED
  BY <1>1, <1>2

\* The seats taken can be counted.
LEMMA SeatedFinite ==
    ASSUME NEW S, S \subseteq Rows
    PROVE  /\ IsFiniteSet(S) /\ Cardinality(S) \in Nat
           /\ \A T : T \subseteq S => Cardinality(T) <= Cardinality(S)
<1>1. IsFiniteSet(S) /\ Cardinality(S) \in Nat
  BY Sets
<1>2. ASSUME NEW T, T \subseteq S PROVE Cardinality(T) <= Cardinality(S)
  BY <1>1, <1>2, FS_Subset
<1> QED
  BY <1>1, <1>2

LEMMA AddOne ==
    ASSUME NEW S, NEW x, IsFiniteSet(S) PROVE Cardinality(S \cup {x}) <= Cardinality(S) + 1
<1>1. Cardinality(S \cup {x}) = IF x \in S THEN Cardinality(S) ELSE Cardinality(S) + 1
  BY FS_AddElement
<1>2. Cardinality(S) \in Nat
  BY FS_CardinalityType
<1> QED
  BY <1>1, <1>2

\* A claim takes a seat only when the count, which is never too low, says one is free.
LEMMA StepSeats == ASSUME Base, RowsInv, SeatsInv, [Next]_vars PROVE SeatsInv'
<1>1. SUFFICES ASSUME Prompt PROVE SeatsCounted' /\ SeatsRespected'
  BY DEF SeatsInv, SeatsCounted, Prompt
<1>t. /\ tick \in [Ticks -> [stage : TickStages, gen : Nat, row : Rows \cup {0}]]
      /\ seats \in [Partitions -> Nat] /\ Concurrency \in Nat
  BY BoundsAssumption DEF Base, TypeOK
<1>2. /\ \A t \in Ticks :
            /\ tick[t].stage \in LockStages => \A p \in Partitions : Cardinality(SeatedIn(p)) <= seats[p]
            /\ tick[t].stage = "claiming" => seats[PartOf(tick[t].row)] < Concurrency
      /\ \A p \in Partitions : Cardinality(SeatedIn(p)) <= Concurrency
  BY <1>1 DEF SeatsInv, SeatsCounted, SeatsRespected, SeatedIn
<1>3. ASSUME NEW p \in Partitions
      PROVE  /\ SeatedIn(p) \subseteq Rows /\ SeatedIn(p)' \subseteq Rows
             /\ Cardinality(SeatedIn(p)) \in Nat /\ Cardinality(SeatedIn(p)') \in Nat
             /\ Seated' \subseteq Seated => Cardinality(SeatedIn(p)') <= Cardinality(SeatedIn(p))
  <2>1. SeatedIn(p) \subseteq Rows /\ SeatedIn(p)' \subseteq Rows
    BY DEF SeatedIn, Seated
  <2>2. Seated' \subseteq Seated => SeatedIn(p)' \subseteq SeatedIn(p)
    BY DEF SeatedIn, PartOf
  <2> QED  BY <2>1, <2>2, SeatedFinite
<1>4. SeatsCounted'
  <2>1. SUFFICES ASSUME NEW u \in Ticks, tick'[u].stage \in LockStages
                 PROVE  /\ \A p \in Partitions : Cardinality(SeatedIn(p)') <= seats'[p]
                        /\ tick'[u].stage = "claiming" => seats'[PartOf(tick'[u].row)] < Concurrency
    BY DEF SeatsCounted, LockStages, PartOf
  <2>2. tick'[u] = tick[u] \/ TickStep(u)
    BY <2>1, MidwaySteps DEF Base, LockStages, Midway
  <2>3. CASE CountSeats(u)
    <3>1. Seated' = Seated
      BY <2>3 DEF CountSeats, tables, Seated
    <3>2. \A p \in Partitions : seats'[p] = Cardinality(SeatedIn(p)) /\ SeatedIn(p)' = SeatedIn(p)
      BY <2>3, <3>1 DEF CountSeats, SeatedIn, PartOf
    <3>3. tick'[u].stage # "claiming"
      BY <2>3, <1>t DEF CountSeats, Stage
    <3> QED  BY <1>3, <3>2, <3>3
  <2>4. CASE ~CountSeats(u)
    <3>1. tick[u].stage \in LockStages /\ Holds(u)
      <4>1. tick[u].stage \in LockStages
        <5>1. ~Fire(u)
          BY <1>t, <2>1 DEF Fire, Stage, IdleTick, LockStages
        <5>2. SelectQueued(u) \/ Consider(u) \/ Gate(u) \/ Claim(u) => tick[u].stage \in LockStages
          BY DEF SelectQueued, Consider, Gate, Claim, LockStages
        <5>3. ~Launch(u)
          BY <1>t, <2>1 DEF Launch, EndTick, IdleTick, LockStages
        <5> QED  BY <2>1, <2>2, <2>4, <5>1, <5>2, <5>3 DEF TickStep
      <4> QED  BY <4>1 DEF Base, Locked
    <3>2. ASSUME NEW t \in Ticks, Holds(t) PROVE t = u
      BY <3>1, <3>2 DEF Holds
    <3>3. seats' = seats
      <4>1. seats' = seats \/ (\E t \in Ticks : CountSeats(t)) \/ Crash
        BY ZenonT(40) DEF Next, vars, TickStep, RunStep, Enqueue, Cancel, SettleCi, Age,
               SettleRemote, RecoverSettle, RecoverDone, Freeze, Unfreeze, Fire,
               SelectQueued, Consider, Gate, Claim, Launch, RunRead, RunClaim,
               RunJournal, RunFinalize, RunPromote, RunAbort, RunLoseLease, RunExit,
               SweepSelect, SweepWrite, Boot, RecoverRow, RecoverRowFails, BootDone,
               Stop, StopDrain, StopDone, StopGraceOver, Start, tables, memory, loops,
               control
      <4>2. ~Crash
        BY <2>1 DEF Crash, IdleTick, LockStages
      <4>3. ASSUME NEW t \in Ticks, CountSeats(t) PROVE FALSE
        BY <2>4, <3>2, <4>3 DEF CountSeats
      <4> QED  BY <4>1, <4>2, <4>3
    <3>4. Seated' \subseteq Seated
      <4>1. ASSUME NEW t \in Ticks, Claim(t) PROVE FALSE
        <5>1. t = u
          BY <3>2, <4>1 DEF Claim, Base, Locked, LockStages
        <5> QED  BY <1>t, <2>1, <4>1, <5>1 DEF Claim, Stage, EndTick, IdleTick, LockStages
      <4> QED  BY <1>1, <4>1, SeatedSteps
    <3>5. tick'[u].stage = "claiming" => seats[PartOf(tick'[u].row)] < Concurrency
      <4>1. SUFFICES ASSUME tick'[u].stage = "claiming" PROVE seats[PartOf(tick'[u].row)] < Concurrency
        OBVIOUS
      <4>2. tick'[u] = tick[u] \/ Gate(u)
        BY <1>t, <2>2, <4>1 DEF TickStep, Fire, CountSeats, SelectQueued, Consider, Claim, Launch,
                                Stage, EndTick, IdleTick
      <4>3. CASE Gate(u) /\ tick'[u] # tick[u]
        BY <1>t, <4>1, <4>3 DEF Gate, Stage, EndTick, IdleTick
      <4> QED  BY <1>2, <4>1, <4>2, <4>3
    <3> QED  BY <1>2, <1>3, <1>t, <3>1, <3>3, <3>4, <3>5
  <2> QED  BY <2>3, <2>4
<1>5. SeatsRespected'
  <2>1. SUFFICES ASSUME NEW p \in Partitions PROVE Cardinality(SeatedIn(p)') <= Concurrency
    BY DEF SeatsRespected, SeatedIn
  <2>2. CASE Seated' \subseteq Seated
    BY <1>2, <1>3, <1>t, <2>2
  <2>3. ASSUME NEW t \in Ticks, Claim(t), Seated' \subseteq Seated \cup {tick[t].row}
        PROVE  Cardinality(SeatedIn(p)') <= Concurrency
    <3>1. /\ tick[t].row \in Rows /\ tick[t].stage = "claiming"
          /\ Cardinality(SeatedIn(p)) <= seats[p]
      BY <1>2, <2>3 DEF Claim, LockStages, Base, Rowed, RowStages
    <3>2. CASE p # PartOf(tick[t].row)
      <4>1. SeatedIn(p)' \subseteq SeatedIn(p)
        BY <2>3, <3>2 DEF SeatedIn, PartOf
      <4>2. Cardinality(SeatedIn(p)') <= Cardinality(SeatedIn(p))
        BY <1>3, <4>1, SeatedFinite
      <4> QED  BY <1>2, <1>3, <1>t, <4>2
    <3>3. CASE p = PartOf(tick[t].row)
      <4>1. SeatedIn(p)' \subseteq SeatedIn(p) \cup {tick[t].row}
        BY <2>3 DEF SeatedIn, PartOf
      <4>2. SeatedIn(p) \cup {tick[t].row} \subseteq Rows
        BY <1>3, <3>1
      <4>3. Cardinality(SeatedIn(p)') <= Cardinality(SeatedIn(p) \cup {tick[t].row})
        BY <4>1, <4>2, SeatedFinite
      <4>4. Cardinality(SeatedIn(p) \cup {tick[t].row}) <= Cardinality(SeatedIn(p)) + 1
        <5>1. IsFiniteSet(SeatedIn(p))
          BY <1>3, SeatedFinite
        <5> QED  BY <5>1, AddOne
      <4>5. seats[p] < Concurrency /\ seats[p] \in Nat
        BY <1>2, <1>t, <3>1, <3>3
      <4>6. Cardinality(SeatedIn(p) \cup {tick[t].row}) \in Nat
        BY <4>2, SeatedFinite
      <4> QED  BY <1>3, <1>t, <3>1, <4>3, <4>4, <4>5, <4>6
    <3> QED  BY <3>2, <3>3
  <2> QED  BY <1>1, <2>2, <2>3, SeatedSteps
<1> QED
  BY <1>4, <1>5

\* The seats of a partition are respected although they are counted before the claim
\* is written: under the shipped driver, and under any driver while no row grows stale.
THEOREM SeatsRespectedHolds == ~DriverSuspends \/ Aging = {} => (Spec => []SeatsRespected)
<1> SUFFICES ASSUME Prompt PROVE Spec => []SeatsRespected
  BY DEF Prompt
<1>1. Init => SeatsInv
  <2> SUFFICES ASSUME Init PROVE SeatsInv
    OBVIOUS
  <2>1. SeatsCounted
    BY DEF Init, SeatsCounted, IdleTick, LockStages
  <2>2. Seated = {}
    BY DEF Init, Seated, Active
  <2>3. \A p \in Partitions : {d \in Seated : PartOf(d) = p} = {}
    BY <2>2
  <2> QED  BY <2>1, <2>3, BoundsAssumption, FS_EmptySet DEF SeatsInv, SeatsRespected
<1>2. Base /\ RowsInv /\ SeatsInv /\ [Next]_vars => SeatsInv'
  BY StepSeats
<1>3. SeatsInv => SeatsRespected
  BY DEF SeatsInv
<1> QED
  BY <1>1, <1>2, <1>3, RowsHold, PTL DEF Spec

-----------------------------------------------------------------------------
(* Stop and start                                                          *)

\* What the stop relies on: the launches under way, then the pipelines, are all
\* among what it waits for.
StopInv ==
    /\ mode \in {"stopping", "draining", "stopped"} => Launching \subseteq awaited.ticks
    /\ mode \in {"draining", "stopped"} => awaited.ticks = {} /\ Busy \subseteq awaited.runs
    /\ mode = "stopped" => awaited.runs = {}

\* Only these steps change what the stop waits for.
LEMMA AwaitedSteps ==
    ASSUME TypeOK, [Next]_vars
    PROVE  \/ awaited' = awaited
           \/ Stop \/ StopDrain \/ mode' \in {"expired", "down"}
           \/ \E t \in Ticks : EndTick(t) /\ awaited' = [awaited EXCEPT !.ticks = @ \ {t}]
           \/ \E r \in Runs : RunExit(r)
BY ZenonT(90) DEF Next, vars, TickStep, RunStep, Enqueue, Cancel, SettleCi, Age, SettleRemote,
       RecoverSettle, RecoverDone, Freeze, Unfreeze, Fire, CountSeats, SelectQueued,
       Consider, Gate, Claim, Launch, RunRead, RunClaim, RunJournal, RunFinalize,
       RunPromote, RunAbort, RunLoseLease, SweepSelect, SweepWrite, Crash, Boot,
       RecoverRow, RecoverRowFails, BootDone, StopDone, StopGraceOver, Start, tables,
       memory, loops, control, EndTick

\* Each promise of the stop survives every step.
LEMMA StepStop == ASSUME TypeOK, StopInv, [Next]_vars PROVE StopInv'
<1>t. /\ tick \in [Ticks -> [stage : TickStages, gen : Nat, row : Rows \cup {0}]]
      /\ awaited \in [ticks : SUBSET Ticks, runs : SUBSET Runs]
      /\ run \in [Runs -> [phase : RunPhases, row : Rows \cup {0}]]
  BY DEF TypeOK
<1>m. /\ mode' \in {"stopping", "draining", "stopped"} =>
            mode \in {"stopping", "draining", "stopped"} \/ Stop
      /\ mode' \in {"draining", "stopped"} => mode \in {"draining", "stopped"} \/ StopDrain
      /\ mode' = "stopped" => mode = "stopped" \/ StopDone
  <2>1. \/ mode' = mode \/ mode' \in {"expired", "down", "booting", "up"}
        \/ Stop \/ StopDrain \/ StopDone
    BY ZenonT(40) DEF Next, vars, TickStep, RunStep, Enqueue, Cancel, SettleCi, Age, SettleRemote,
           RecoverSettle, RecoverDone, Freeze, Unfreeze, Fire, CountSeats, SelectQueued,
           Consider, Gate, Claim, Launch, RunRead, RunClaim, RunJournal, RunFinalize,
           RunPromote, RunAbort, RunLoseLease, RunExit, SweepSelect, SweepWrite, Crash,
           Boot, RecoverRow, RecoverRowFails, BootDone, StopGraceOver, Start, tables,
           memory, loops, control
  <2>2. /\ Stop => mode = "up" /\ mode' = "stopping"
        /\ StopDrain => mode = "stopping" /\ mode' = "draining"
        /\ StopDone => mode = "draining" /\ mode' = "stopped"
    BY DEF Stop, StopDrain, StopDone
  <2> QED  BY <2>1, <2>2
\* What is awaited only shrinks by what has ended.
<1>a. ASSUME mode' \notin {"expired", "down"}, ~Stop, ~StopDrain
      PROVE  /\ awaited'.ticks \subseteq awaited.ticks /\ awaited'.runs \subseteq awaited.runs
             /\ \A t \in awaited.ticks : t \notin awaited'.ticks => tick'[t].stage \in {"armed", "off"}
             /\ \A r \in awaited.runs : r \notin awaited'.runs => run'[r].phase = "free"
  <2>1. ASSUME NEW t \in Ticks, EndTick(t), awaited' = [awaited EXCEPT !.ticks = @ \ {t}]
        PROVE  /\ awaited'.ticks = awaited.ticks \ {t} /\ awaited'.runs = awaited.runs
               /\ tick'[t].stage \in {"armed", "off"}
    BY <1>t, <2>1 DEF EndTick, IdleTick
  <2>2. ASSUME NEW r \in Runs, RunExit(r)
        PROVE  /\ awaited'.ticks = awaited.ticks /\ awaited'.runs = awaited.runs \ {r}
               /\ run'[r].phase = "free"
    BY <1>t, <2>2 DEF RunExit, FreeRun
  <2> QED  BY <1>a, <2>1, <2>2, AwaitedSteps
<1>1. mode' \in {"stopping", "draining", "stopped"} => Launching' \subseteq awaited'.ticks
  <2>1. SUFFICES ASSUME mode' \in {"stopping", "draining", "stopped"}, NEW u \in Launching'
                 PROVE  u \in awaited'.ticks
    OBVIOUS
  <2>2. u \in Ticks /\ tick'[u].stage \in {"claiming", "launching"}
    BY <2>1 DEF Launching
  <2>3. CASE Stop
    BY <1>t, <2>2, <2>3 DEF Stop, Launching, IdleTick
  <2>4. CASE ~Stop
    <3>1. u \in Launching /\ Launching \subseteq awaited.ticks
      <4>1. mode # "up"
        BY <1>m, <2>1, <2>4
      <4>2. tick'[u] = tick[u] \/ TickStep(u)
        BY <2>2, MidwaySteps DEF Midway
      <4>3. u \in Launching
        <5>1. ~Fire(u) /\ ~CountSeats(u) /\ ~Launch(u)
          BY <1>t, <2>2 DEF Fire, CountSeats, Launch, Stage, EndTick, IdleTick
        <5>2. ~SelectQueued(u)
          BY <1>t, <2>2 DEF SelectQueued, Stage, EndTick, IdleTick
        <5>3. ~Consider(u)
          BY <1>t, <2>2, <4>1 DEF Consider, Stage, EndTick, IdleTick, Live
        <5>4. ~Gate(u)
          BY <1>t, <2>2, <4>1 DEF Gate, Stage, EndTick, IdleTick, Live
        <5>5. Claim(u) => tick[u].stage = "claiming"
          BY DEF Claim
        <5> QED  BY <2>2, <4>2, <5>1, <5>2, <5>3, <5>4, <5>5 DEF TickStep, Launching
      <4> QED  BY <1>m, <2>1, <2>4, <4>3 DEF StopInv
    <3>2. CASE StopDrain
      BY <3>1, <3>2, <1>t DEF StopDrain
    <3> QED  BY <1>a, <2>1, <2>2, <2>4, <3>1, <3>2
  <2> QED  BY <2>3, <2>4
<1>2. mode' \in {"draining", "stopped"} => awaited'.ticks = {} /\ Busy' \subseteq awaited'.runs
  <2>1. SUFFICES ASSUME mode' \in {"draining", "stopped"}
                 PROVE  awaited'.ticks = {} /\ Busy' \subseteq awaited'.runs
    OBVIOUS
  <2>2. CASE StopDrain
    BY <1>t, <2>2 DEF StopDrain, Busy
  <2>3. CASE ~StopDrain
    <3>1. awaited.ticks = {} /\ Busy \subseteq awaited.runs /\ Launching = {} /\ ~Stop
      BY <1>m, <2>1, <2>3 DEF StopInv, Stop
    <3>2. Busy' \subseteq Busy
      <4>1. ASSUME NEW t \in Ticks, Launch(t) PROVE FALSE
        BY <3>1, <4>1 DEF Launch, Launching
      <4> QED  BY <4>1, BusySteps
    <3>3. awaited'.ticks = {}
      BY <1>a, <2>1, <2>3, <3>1
    <3>4. ASSUME NEW q \in Busy' PROVE q \in awaited'.runs
      BY <1>a, <2>1, <2>3, <3>1, <3>2 DEF Busy
    <3> QED  BY <3>3, <3>4
  <2> QED  BY <2>2, <2>3
<1>3. mode' = "stopped" => awaited'.runs = {}
  <2>1. StopDone => awaited'.runs = {}
    BY DEF StopDone
  <2>2. ASSUME mode' = "stopped", mode = "stopped" PROVE awaited'.runs = {}
    <3>1. awaited.runs = {} /\ ~Stop /\ ~StopDrain
      BY <2>2 DEF StopInv, Stop, StopDrain
    <3> QED  BY <1>a, <2>2, <3>1
  <2> QED  BY <1>m, <2>1, <2>2
<1> QED
  BY <1>1, <1>2, <1>3 DEF StopInv

-----------------------------------------------------------------------------
(* The loops of a generation                                               *)

\* A bounded set of numbers has a greatest element.
LEMMA Greatest ==
    ASSUME NEW K \in Nat, NEW S, S \subseteq 0..K, S # {} PROVE \E m \in S : \A n \in S : n <= m
<1> DEFINE D == {K - n : n \in S}
<1>1. D \subseteq Nat /\ D # {}
  <2>1. ASSUME NEW n \in S PROVE K - n \in Nat
    <3>1. n \in 0..K
      BY <2>1
    <3> QED  BY <3>1
  <2> QED  BY <2>1
<1>2. PICK k \in D : \A j \in D : k <= j
  BY <1>1, Least, Zenon
<1>3. PICK m \in S : k = K - m
  BY <1>2
<1>4. \A n \in S : K - m <= K - n
  BY <1>2, <1>3
<1>5. \A n \in S : n <= m
  BY <1>4
<1> QED
  BY <1>5

\* The first few of a set of ticks are few.
LEMMA FirstFew ==
    ASSUME NEW U, U \subseteq Ticks, NEW C \in Nat
    PROVE  LET first == {t \in U : Cardinality({u \in U : u < t}) < C}
           IN IsFiniteSet(first) /\ Cardinality(first) <= C
<1> DEFINE first == {t \in U : Cardinality({u \in U : u < t}) < C}
<1> SUFFICES IsFiniteSet(first) /\ Cardinality(first) <= C
  OBVIOUS
<1>1. IsFiniteSet(U) /\ U \subseteq Nat
  BY Sets, FS_Subset
<1>2. IsFiniteSet(first) /\ first \subseteq U
  <2>1. first \subseteq U
    OBVIOUS
  <2> HIDE DEF first
  <2> QED  BY <1>1, <2>1, FS_Subset
<1>3. CASE first = {}
  <2>1. Cardinality(first) = 0
    BY <1>3, FS_EmptySet
  <2> HIDE DEF first
  <2> QED  BY <1>2, <2>1
<1>4. CASE first # {}
  <2>1. Concurrency * (MaxStops + 1) \in Nat
    <3>1. Concurrency \in Nat /\ MaxStops + 1 \in Nat
      BY BoundsAssumption
    <3> QED  BY <3>1
  <2>2. first \subseteq 0..(Concurrency * (MaxStops + 1))
    <3>1. \A t \in Ticks : t \in 0..(Concurrency * (MaxStops + 1))
      <4> DEFINE K == Concurrency * (MaxStops + 1)
      <4>1. K \in Nat
        BY <2>1
      <4>2. Ticks = 1..K
        BY DEF Ticks
      <4> HIDE DEF K
      <4>3. \A t \in 1..K : t \in 0..K
        BY <4>1
      <4>4. \A t \in Ticks : t \in 0..K
        BY <4>2, <4>3
      <4> QED  BY <4>4 DEF K
    <3> HIDE DEF first
    <3> QED  BY <1>2, <3>1, Zenon
  <2>3. PICK m \in first : \A n \in first : n <= m
    <3> HIDE DEF first
    <3> QED  BY <1>4, <2>1, <2>2, Greatest, Zenon
  <2> DEFINE B == {u \in U : u < m}
  <2>4. Cardinality(B) < C /\ m \in Nat
    BY <1>1, <1>2, <2>3
  <2>5. first \subseteq B \cup {m}
    <3>1. ASSUME NEW n \in first PROVE n \in B \cup {m}
      <4>1. n \in U /\ n \in Nat /\ n <= m
        BY <1>1, <1>2, <2>3, <3>1
      <4> QED  BY <2>4, <4>1
    <3> QED  BY <3>1
  <2>6. B \subseteq U
    OBVIOUS
  <2> HIDE DEF B, first
  <2>7. IsFiniteSet(B) /\ Cardinality(B) \in Nat
    BY <1>1, <2>6, FS_Subset, FS_CardinalityType
  <2>8. IsFiniteSet(B \cup {m}) /\ Cardinality(B \cup {m}) <= Cardinality(B) + 1
    BY <2>7, AddOne, FS_AddElement
  <2>9. Cardinality(first) <= Cardinality(B \cup {m})
    BY <2>5, <2>8, FS_Subset
  <2>10. Cardinality(first) \in Nat /\ Cardinality(B \cup {m}) \in Nat
    BY <1>2, <2>8, FS_CardinalityType
  <2> QED  BY <1>2, <2>4, <2>7, <2>8, <2>9, <2>10
<1> QED
  BY <1>3, <1>4

\* The loops of the present generation; none is of a later one.
Loops == {t \in Ticks : tick[t].stage # "off" /\ tick[t].gen = generation}
LoopsInv == LoopsBounded /\ \A t \in Ticks : tick[t].gen <= generation

\* Only a crash and a start change the generation.
LEMMA GenerationSteps ==
    ASSUME [Next]_vars PROVE generation' = generation \/ Crash \/ Start
BY ZenonT(40) DEF Next, vars, TickStep, RunStep, Enqueue, Cancel, SettleCi, Age, SettleRemote,
       RecoverSettle, RecoverDone, Freeze, Unfreeze, Fire, CountSeats, SelectQueued,
       Consider, Gate, Claim, Launch, RunRead, RunClaim, RunJournal, RunFinalize,
       RunPromote, RunAbort, RunLoseLease, RunExit, SweepSelect, SweepWrite, Boot,
       RecoverRow, RecoverRowFails, BootDone, Stop, StopDrain, StopDone, StopGraceOver,
       tables, memory, loops, control

\* A start arms loops of a generation that has none yet.
LEMMA StepLoops == ASSUME TypeOK, Asleep, LoopsInv, [Next]_vars PROVE LoopsInv'
<1>t. /\ tick \in [Ticks -> [stage : TickStages, gen : Nat, row : Rows \cup {0}]]
      /\ generation \in Nat /\ Concurrency \in Nat
  BY BoundsAssumption DEF TypeOK
<1>i. /\ \A t \in Ticks : tick[t].gen <= generation
      /\ IsFiniteSet(Loops) /\ Cardinality(Loops) <= Concurrency
  <2>1. Loops \subseteq Ticks
    BY DEF Loops
  <2> QED  BY <2>1, Sets, FS_Subset DEF LoopsInv, LoopsBounded, Loops
<1>s. ASSUME NEW S, IsFiniteSet(S), Cardinality(S) <= Concurrency, Loops' \subseteq S,
             \A t \in Ticks : tick'[t].gen <= generation'
      PROVE  LoopsInv'
  <2>1. Cardinality(Loops') <= Cardinality(S) /\ Cardinality(Loops') \in Nat /\ Cardinality(S) \in Nat
    BY <1>s, FS_Subset, FS_CardinalityType
  <2>2. Cardinality(Loops') <= Concurrency
    BY <1>s, <1>t, <2>1
  <2> QED  BY <1>s, <2>2 DEF LoopsInv, LoopsBounded, Loops
<1>1. ASSUME NEW t \in Ticks, TickStep(t) PROVE LoopsInv'
  <2>1. generation' = generation
    BY <1>1 DEF TickStep, Fire, CountSeats, SelectQueued, Consider, Gate, Claim, Launch, control
  <2>2. \A u \in Ticks \ {t} : tick'[u] = tick[u]
    BY <1>1, <1>t DEF TickStep, Fire, CountSeats, SelectQueued, Consider, Gate, Claim, Launch,
                      Stage, EndTick
  <2>3. /\ tick'[t].stage # "off" => tick[t].stage # "off" /\ tick'[t].gen = tick[t].gen
        /\ tick'[t].gen \in {0, tick[t].gen}
    <3>1. EndTick(t) => \/ tick'[t] = IdleTick
                        \/ tick'[t].gen = tick[t].gen /\ tick'[t].gen = generation
      BY <1>t DEF EndTick, Live
    <3>2. /\ tick[t].stage # "off"
          /\ \/ EndTick(t) \/ tick'[t] = IdleTick \/ tick'[t].gen = tick[t].gen
      <4>1. CASE Fire(t) \/ CountSeats(t) \/ SelectQueued(t)
        BY <1>t, <4>1 DEF Fire, CountSeats, SelectQueued, Stage
      <4>2. CASE Consider(t) \/ Gate(t)
        BY <1>t, <4>2 DEF Consider, Gate, Stage
      <4>3. CASE Claim(t) \/ Launch(t)
        BY <1>t, <4>3 DEF Claim, Launch, Stage
      <4> QED  BY <1>1, <4>1, <4>2, <4>3 DEF TickStep
    <3> QED  BY <3>1, <3>2 DEF IdleTick
  <2>4. Loops' \subseteq Loops
    BY <2>1, <2>2, <2>3 DEF Loops
  <2> QED  BY <1>i, <1>s, <1>t, <2>1, <2>2, <2>3, <2>4
<1>2. CASE Crash
  <2>1. Loops' = {} /\ \A t \in Ticks : tick'[t].gen <= generation'
    BY <1>2 DEF Crash, Loops, IdleTick
  <2> QED  BY <1>i, <1>s, <2>1
<1>3. CASE Stop
  <2>1. generation' = generation /\ \A t \in Ticks : tick'[t] = tick[t] \/ tick'[t] = IdleTick
    BY <1>3 DEF Stop
  <2>2. Loops' \subseteq Loops /\ \A t \in Ticks : tick'[t].gen <= generation'
    BY <1>i, <1>t, <2>1 DEF Loops, IdleTick
  <2> QED  BY <1>i, <1>s, <2>2
<1>4. ASSUME BootDone \/ Start PROVE LoopsInv'
  <2> DEFINE unused == {t \in Ticks : tick[t].stage = "off"}
             first == {t \in unused : Cardinality({u \in unused : u < t}) < Concurrency}
  <2>1. IsFiniteSet(first) /\ Cardinality(first) <= Concurrency
    <3>1. unused \subseteq Ticks
      OBVIOUS
    <3> HIDE DEF unused
    <3> QED  BY <1>t, <3>1, FirstFew
  <2>2. /\ generation' \in Nat /\ generation <= generation'
        /\ \A t \in Ticks : tick'[t] = IF t \in first THEN [stage |-> "armed", gen |-> generation', row |-> 0]
                                                      ELSE tick[t]
    <3>1. /\ BootDone => generation' = generation /\ ArmLoops(generation)
          /\ Start => generation' = generation + 1 /\ ArmLoops(generation + 1)
      BY DEF BootDone, Start
    <3>2. generation' \in Nat /\ generation <= generation' /\ ArmLoops(generation')
      BY <1>4, <1>t, <3>1
    <3> QED  BY <3>2, <1>t DEF ArmLoops
  <2>3. \A t \in Ticks : tick[t].stage # "off" => tick[t].gen # generation'
    <3>1. BootDone => \A t \in Ticks : tick[t].stage = "off"
      BY DEF BootDone, Asleep
    <3>2. Start => generation' = generation + 1
      BY DEF Start
    <3> QED  BY <1>4, <1>i, <1>t, <3>1, <3>2
  <2>4. Loops' \subseteq first
    BY <2>2, <2>3 DEF Loops
  <2> HIDE DEF first
  <2>5. ASSUME NEW t \in Ticks PROVE tick'[t].gen <= generation'
    <3>1. tick'[t].gen = generation' \/ tick'[t].gen = tick[t].gen
      BY <2>2
    <3>2. tick[t].gen \in Nat /\ tick[t].gen <= generation
      BY <1>i, <1>t
    <3> QED  BY <1>t, <2>2, <3>1, <3>2
  <2> QED  BY <1>s, <2>1, <2>4, <2>5
<1>5. ASSUME tick' = tick, generation' = generation PROVE LoopsInv'
  <2>1. Loops' \subseteq Loops
    BY <1>5 DEF Loops
  <2> QED  BY <1>5, <1>i, <1>s, <2>1
<1> QED
  BY <1>1, <1>2, <1>3, <1>4, <1>5, TickSteps, GenerationSteps

\* stop() and start() leave nothing of an earlier generation at work, under every
\* driver: a tick that gates after the stop does not claim, one that claimed is
\* awaited, and so is the pipeline it launches; a start arms no surplus loop.
THEOREM StopIsCleanHolds == Spec => []StopIsClean
<1>1. Init => StopInv /\ LoopsInv
  <2> SUFFICES ASSUME Init PROVE StopInv /\ LoopsInv
    OBVIOUS
  <2>1. StopInv
    BY DEF Init, StopInv
  <2>2. \A t \in Ticks : tick[t].stage = "off" /\ tick[t].gen = 0 /\ generation = 0
    BY DEF Init, IdleTick
  <2>3. {t \in Ticks : tick[t].stage # "off" /\ tick[t].gen = generation} = {}
    BY <2>2
  <2>4. LoopsBounded
    BY <2>3, FS_EmptySet, BoundsAssumption DEF LoopsBounded
  <2> QED  BY <2>1, <2>2, <2>4 DEF LoopsInv
<1>2. Base /\ StopInv /\ LoopsInv /\ [Next]_vars => (StopInv /\ LoopsInv)'
  BY StepStop, StepLoops DEF Base
<1>3. StopInv /\ LoopsInv => StopIsClean
  BY DEF StopInv, LoopsInv, StopIsClean, QuietAfterStop
<1> QED
  BY <1>1, <1>2, <1>3, BaseHolds, PTL DEF Spec
=============================================================================
