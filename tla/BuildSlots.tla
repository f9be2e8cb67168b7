----------------------------- MODULE BuildSlots -----------------------------
(***************************************************************************)
(* The keyed semaphore of apps/server/src/engine/buildSlots.ts, seen at    *)
(* one build host: a build placed away from its service's host waits for   *)
(* one of the host's slots, holds it while it builds and releases it.      *)
(*                                                                         *)
(* capacity(key) is a database read, so both acquire and pump suspend      *)
(* between asking for the capacity and using the answer.  Everything       *)
(* else in those functions runs without a suspension and is one step.      *)
(* A build host's slots share nothing with another host's (both maps are   *)
(* keyed), so one host is modelled.                                        *)
(***************************************************************************)
EXTENDS Integers, Sequences, FiniteSets

CONSTANTS
    Builds,      \* deployments whose build is placed on this host
    Capacities,  \* what servers.build_concurrency may be set to
    Unreadable   \* the capacity read throws

\* The range servers.build_concurrency is clamped to.
MaxCapacity == 8

ASSUME BuildsAssumption == IsFiniteSet(Builds)
ASSUME CapacitiesAssumption ==
    /\ Capacities # {}
    /\ Unreadable \notin Int
    /\ \A c \in Capacities : c \in Int \/ c = Unreadable

VARIABLES
    configured,  \* the capacity a read would return now
    ceiling,     \* history: the largest clamped capacity configured so far
    active,      \* active.get(key) ?? 0
    queue,       \* queues.get(key): the builds waiting for a slot, in order
    pc,          \* where each build's acquire is
    seen,        \* acquire's local cap (1 while it is out of scope)
    released,    \* the closure's `released` flag
    pump,        \* the pump its release started
    pumpSeen     \* pump's local cap (1 while it is out of scope)

vars == <<configured, ceiling, active, queue, pc, seen, released, pump, pumpSeen>>

Stages == {"idle", "reading", "read", "waiting", "holding"}
PumpStages == {"none", "reading", "read"}

\* Fault: the upper bound is not applied.
ClampBelowOnly(c) == IF c \notin Int THEN 1 ELSE IF c < 1 THEN 1 ELSE c

ClampCapacity(c) ==
    IF c \notin Int THEN 1
    ELSE IF c < 1 THEN 1
    ELSE IF c > MaxCapacity THEN MaxCapacity
    ELSE c

Larger(m, n) == IF m >= n THEN m ELSE n
Smaller(m, n) == IF m <= n THEN m ELSE n

TypeOK ==
    /\ configured \in Capacities
    /\ ceiling \in 1..MaxCapacity
    /\ active \in Nat
    /\ queue \in Seq(Builds)
    /\ pc \in [Builds -> Stages]
    /\ seen \in [Builds -> 1..MaxCapacity]
    /\ released \in [Builds -> BOOLEAN]
    /\ pump \in [Builds -> PumpStages]
    /\ pumpSeen \in [Builds -> 1..MaxCapacity]

Init ==
    /\ configured \in Capacities
    /\ ceiling = ClampCapacity(configured)
    /\ active = 0
    /\ queue = <<>>
    /\ pc = [b \in Builds |-> "idle"]
    /\ seen = [b \in Builds |-> 1]
    /\ released = [b \in Builds |-> FALSE]
    /\ pump = [b \in Builds |-> "none"]
    /\ pumpSeen = [b \in Builds |-> 1]

-----------------------------------------------------------------------------

\* An operator saves another build_concurrency for the host.
Configure(c) ==
    /\ configured' = c
    /\ ceiling' = Larger(ceiling, ClampCapacity(c))
    /\ UNCHANGED <<active, queue, pc, seen, released, pump, pumpSeen>>

\* acquire is called; it suspends on capacity(key).
Acquire(b) ==
    /\ pc[b] = "idle"
    /\ pc' = [pc EXCEPT ![b] = "reading"]
    /\ UNCHANGED <<configured, ceiling, active, queue, seen, released, pump, pumpSeen>>

\* The capacity read of an acquire completes (a failed read counts as 1).
ReadCapacity(b) ==
    /\ pc[b] = "reading"
    /\ pc' = [pc EXCEPT ![b] = "read"]
    /\ seen' = [seen EXCEPT ![b] = ClampCapacity(configured)]
    /\ UNCHANGED <<configured, ceiling, active, queue, released, pump, pumpSeen>>

\* Fault: a free slot is taken although others wait for it.
EnterPastQueue(b) ==
    /\ pc[b] = "read"
    /\ IF active < seen[b]
       THEN /\ active' = active + 1
            /\ pc' = [pc EXCEPT ![b] = "holding"]
            /\ UNCHANGED queue
       ELSE /\ queue' = Append(queue, b)
            /\ pc' = [pc EXCEPT ![b] = "waiting"]
            /\ UNCHANGED active
    /\ seen' = [seen EXCEPT ![b] = 1]
    /\ UNCHANGED <<configured, ceiling, released, pump, pumpSeen>>

\* The rest of acquire: take a free slot, or join the queue.
Enter(b) ==
    /\ pc[b] = "read"
    /\ IF queue = <<>> /\ active < seen[b]
       THEN /\ active' = active + 1
            /\ pc' = [pc EXCEPT ![b] = "holding"]
            /\ UNCHANGED queue
       ELSE /\ queue' = Append(queue, b)
            /\ pc' = [pc EXCEPT ![b] = "waiting"]
            /\ UNCHANGED active
    /\ seen' = [seen EXCEPT ![b] = 1]
    /\ UNCHANGED <<configured, ceiling, released, pump, pumpSeen>>

\* Fault: the closure's `released` flag is not consulted.
ReleaseTwice(b) ==
    /\ pc[b] = "holding"
    /\ released' = [released EXCEPT ![b] = TRUE]
    /\ active' = Larger(0, active - 1)
    /\ pump' = IF queue = <<>> THEN pump ELSE [pump EXCEPT ![b] = "reading"]
    /\ UNCHANGED <<configured, ceiling, queue, pc, seen, pumpSeen>>

\* Fault: a release that leaves no slot in use does not pump.
ReleaseWithoutPump(b) ==
    /\ pc[b] = "holding"
    /\ IF released[b]
       THEN UNCHANGED <<active, released, pump>>
       ELSE /\ released' = [released EXCEPT ![b] = TRUE]
            /\ active' = Larger(0, active - 1)
            /\ pump' = IF queue = <<>> \/ active = 1 THEN pump
                       ELSE [pump EXCEPT ![b] = "reading"]
    /\ UNCHANGED <<configured, ceiling, queue, pc, seen, pumpSeen>>

\* The function acquire returned is called, possibly again.  The first call
\* gives the slot back and pumps; pump returns at once when nobody waits.
Release(b) ==
    /\ pc[b] = "holding"
    /\ IF released[b]
       THEN UNCHANGED <<active, released, pump>>
       ELSE /\ released' = [released EXCEPT ![b] = TRUE]
            /\ active' = Larger(0, active - 1)
            /\ pump' = IF queue = <<>> THEN pump ELSE [pump EXCEPT ![b] = "reading"]
    /\ UNCHANGED <<configured, ceiling, queue, pc, seen, pumpSeen>>

\* The capacity read of a pump completes.
PumpRead(b) ==
    /\ pump[b] = "reading"
    /\ pump' = [pump EXCEPT ![b] = "read"]
    /\ pumpSeen' = [pumpSeen EXCEPT ![b] = ClampCapacity(configured)]
    /\ UNCHANGED <<configured, ceiling, active, queue, pc, seen, released>>

\* Fault: the loop stops one slot too late.
GrantsOneMore(c) == Larger(0, Smaller(Len(queue), c - active + 1))

\* How many waiters a pump that read capacity c lets in.
Grants(c) == Larger(0, Smaller(Len(queue), c - active))

\* The pump's loop: the head of the queue is let in while a slot is free.
PumpGrant(b) ==
    /\ pump[b] = "read"
    /\ LET n == Grants(pumpSeen[b])
           admitted == {queue[i] : i \in 1..n}
       IN /\ active' = active + n
          /\ queue' = SubSeq(queue, n + 1, Len(queue))
          /\ pc' = [a \in Builds |-> IF a \in admitted THEN "holding" ELSE pc[a]]
    /\ pump' = [pump EXCEPT ![b] = "none"]
    /\ pumpSeen' = [pumpSeen EXCEPT ![b] = 1]
    /\ UNCHANGED <<configured, ceiling, seen, released>>

Next ==
    \/ \E c \in Capacities : Configure(c)
    \/ \E b \in Builds :
        \/ Acquire(b)
        \/ ReadCapacity(b)
        \/ Enter(b)
        \/ Release(b)
        \/ PumpRead(b)
        \/ PumpGrant(b)

\* Reads complete, continuations run, and a build that holds a slot ends
\* (every step of a build has a timeout) and releases it in its finally.
Fairness ==
    \A b \in Builds :
        /\ WF_vars(ReadCapacity(b))
        /\ WF_vars(Enter(b))
        /\ WF_vars(Release(b))
        /\ WF_vars(PumpRead(b))
        /\ WF_vars(PumpGrant(b))

Spec == Init /\ [][Next]_vars /\ Fairness

-----------------------------------------------------------------------------

Holders == {b \in Builds : pc[b] = "holding" /\ ~released[b]}

\* The two maps buildSlots.ts keeps are exact: the counter is the number of
\* builds that hold a slot, so no release is lost and none is counted twice,
\* and the queue holds exactly the waiting builds, each once.
SlotsAccounted ==
    /\ active = Cardinality(Holders)
    /\ \A b \in Builds : pc[b] = "waiting" <=> \E i \in 1..Len(queue) : queue[i] = b
    /\ \A i, j \in 1..Len(queue) : queue[i] = queue[j] => i = j

\* However the operator changes the concurrency while reads are suspended,
\* no more builds run on the host than it ever allowed.
NeverOversubscribed == active <= ceiling

\* A waiting build is never forgotten: either a build holds a slot, whose
\* release will pump, or a pump is already under way.
NoLostWakeup ==
    queue # <<>> => active > 0 \/ \E b \in Builds : pump[b] # "none"

\* Every build that waits for the host is let in.
WaitersAreServed == \A b \in Builds : pc[b] = "waiting" ~> pc[b] = "holding"

\* First come, first served: a build that gets a slot leaves nobody waiting who
\* came before it, neither a build ahead of it in the queue nor, when it takes a
\* free slot without queueing (buildSlots.ts:67), any build in the queue.
NoOvertaking ==
    [][\A b \in Builds : pc[b] # "holding" /\ pc'[b] = "holding" =>
          \A i \in 1..Len(queue) :
              pc'[queue[i]] = "holding" \/ \E k \in 1..i : queue[k] = b]_vars

=============================================================================
