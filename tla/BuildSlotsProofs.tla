-------------------------- MODULE BuildSlotsProofs --------------------------
(***************************************************************************)
(* Proofs about BuildSlots for any finite set of builds and any settings.  *)
(* The wake-up argument is inductive once capacities are known to be at    *)
(* least one; the bound on active needs the capacities read but not yet    *)
(* used to lie below the ceiling too.                                      *)
(***************************************************************************)
EXTENDS BuildSlots, FiniteSetTheorems, SequenceTheorems, TLAPS

\* Whatever is configured or cannot be read, the clamp yields 1..8.
LEMMA ClampRange ==
    ASSUME NEW c \in Capacities
    PROVE  ClampCapacity(c) \in 1..MaxCapacity
BY CapacitiesAssumption DEF ClampCapacity, MaxCapacity

\* A pump admits no more builds than wait, and none once the host is full;
\* if it leaves somebody waiting then the host is as full as it may be.
LEMMA GrantsFacts ==
    ASSUME TypeOK, NEW c \in 1..MaxCapacity
    PROVE  /\ Grants(c) \in 0..Len(queue)
           /\ active <= c => active + Grants(c) <= c
           /\ active > c => Grants(c) = 0
           /\ Grants(c) < Len(queue) => active + Grants(c) >= c
<1>1. Len(queue) \in Nat /\ active \in Nat /\ c \in Nat
  BY DEF TypeOK, MaxCapacity
<1> QED
  BY <1>1 DEF Grants, Larger, Smaller

\* Every step keeps every variable in its type.
LEMMA TypePreserved ==
    ASSUME TypeOK, [Next]_vars
    PROVE  TypeOK'
<1> USE DEF TypeOK
<1>1. ASSUME NEW c \in Capacities, Configure(c) PROVE TypeOK'
  BY <1>1, ClampRange DEF Configure, Larger
<1>2. ASSUME NEW b \in Builds, Acquire(b) PROVE TypeOK'
  BY <1>2 DEF Acquire, Stages
<1>3. ASSUME NEW b \in Builds, ReadCapacity(b) PROVE TypeOK'
  BY <1>3, ClampRange DEF ReadCapacity, Stages
<1>4. ASSUME NEW b \in Builds, Enter(b) PROVE TypeOK'
  <2>1. active' \in Nat
    BY <1>4 DEF Enter
  <2>2. queue' \in Seq(Builds)
    <3>1. Append(queue, b) \in Seq(Builds)
      OBVIOUS
    <3>2. queue' = queue \/ queue' = Append(queue, b)
      BY <1>4 DEF Enter
    <3> QED
      BY <3>1, <3>2
  <2>3. pc' \in [Builds -> Stages]
    BY <1>4 DEF Enter, Stages
  <2>4. seen' \in [Builds -> 1..MaxCapacity]
    BY <1>4 DEF Enter, MaxCapacity
  <2> QED
    BY <1>4, <2>1, <2>2, <2>3, <2>4 DEF Enter
<1>5. ASSUME NEW b \in Builds, Release(b) PROVE TypeOK'
  <2>1. active' \in Nat
    BY <1>5 DEF Release, Larger
  <2>2. released' \in [Builds -> BOOLEAN]
    BY <1>5, Zenon DEF Release
  <2>3. pump' \in [Builds -> PumpStages]
    BY <1>5 DEF Release, PumpStages
  <2> QED
    BY <1>5, <2>1, <2>2, <2>3 DEF Release
<1>6. ASSUME NEW b \in Builds, PumpRead(b) PROVE TypeOK'
  BY <1>6, ClampRange DEF PumpRead, PumpStages
<1>7. ASSUME NEW b \in Builds, PumpGrant(b) PROVE TypeOK'
  <2> DEFINE n == Grants(pumpSeen[b])
  <2>1. n \in 0..Len(queue)
    BY GrantsFacts
  <2>2. SubSeq(queue, n + 1, Len(queue)) \in Seq(Builds)
    BY <2>1
  <2>3. active' \in Nat /\ queue' \in Seq(Builds)
    BY <1>7, <2>1, <2>2 DEF PumpGrant
  <2>4. pc' \in [Builds -> Stages]
    BY <1>7 DEF PumpGrant, Stages
  <2>5. pump' \in [Builds -> PumpStages] /\ pumpSeen' \in [Builds -> 1..MaxCapacity]
    BY <1>7 DEF PumpGrant, PumpStages, MaxCapacity
  <2> QED
    BY <1>7, <2>3, <2>4, <2>5 DEF PumpGrant
<1>8. CASE UNCHANGED vars
  BY <1>8 DEF vars
<1> QED
  BY <1>1, <1>2, <1>3, <1>4, <1>5, <1>6, <1>7, <1>8 DEF Next

LEMMA TypeInit == Init => TypeOK
<1> SUFFICES ASSUME Init PROVE TypeOK
  OBVIOUS
<1>1. ceiling \in 1..MaxCapacity
  BY ClampRange DEF Init
<1>2. queue \in Seq(Builds)
  BY DEF Init
<1> QED
  BY <1>1, <1>2 DEF Init, TypeOK, Stages, PumpStages, MaxCapacity

\* Type correctness of buildSlots.ts' bookkeeping.
THEOREM TypeCorrect == Spec => []TypeOK
BY TypeInit, TypePreserved, PTL DEF Spec

-----------------------------------------------------------------------------

\* A waiting build is never forgotten: with builds queued, a slot is held or
\* a pump is under way, whatever capacities the suspended reads return.
THEOREM NoLostWakeupHolds == Spec => []NoLostWakeup
<1>1. Init => NoLostWakeup
  BY DEF Init, NoLostWakeup
<1>2. TypeOK /\ NoLostWakeup /\ [Next]_vars => NoLostWakeup'
  <2> SUFFICES ASSUME TypeOK, NoLostWakeup, [Next]_vars
               PROVE  NoLostWakeup'
    OBVIOUS
  <2>1. ASSUME NEW c \in Capacities, Configure(c) PROVE NoLostWakeup'
    BY <2>1 DEF Configure, NoLostWakeup
  <2>2. ASSUME NEW b \in Builds, Acquire(b) PROVE NoLostWakeup'
    BY <2>2 DEF Acquire, NoLostWakeup
  <2>3. ASSUME NEW b \in Builds, ReadCapacity(b) PROVE NoLostWakeup'
    BY <2>3 DEF ReadCapacity, NoLostWakeup
  <2>4. ASSUME NEW b \in Builds, Enter(b) PROVE NoLostWakeup'
    <3>1. seen[b] \in 1..MaxCapacity /\ active \in Nat
      BY DEF TypeOK
    <3>2. CASE queue = <<>> /\ active < seen[b]
      BY <2>4, <3>1, <3>2 DEF Enter, NoLostWakeup
    <3>3. CASE ~(queue = <<>> /\ active < seen[b])
      <4>1. active > 0 \/ \E a \in Builds : pump[a] # "none"
        BY <3>1, <3>3 DEF NoLostWakeup, MaxCapacity
      <4>2. active' = active /\ pump' = pump
        BY <2>4, <3>3 DEF Enter
      <4> QED
        BY <4>1, <4>2 DEF NoLostWakeup
    <3> QED
      BY <3>2, <3>3
  <2>5. ASSUME NEW b \in Builds, Release(b) PROVE NoLostWakeup'
    <3>1. CASE released[b] \/ queue = <<>>
      BY <2>5, <3>1 DEF Release, NoLostWakeup
    <3>2. CASE ~released[b] /\ queue # <<>>
      <4>1. pump'[b] = "reading"
        BY <2>5, <3>2 DEF Release, TypeOK
      <4> QED
        BY <4>1 DEF NoLostWakeup
    <3> QED
      BY <3>1, <3>2
  <2>6. ASSUME NEW b \in Builds, PumpRead(b) PROVE NoLostWakeup'
    <3>1. pump'[b] = "read"
      BY <2>6 DEF PumpRead, TypeOK
    <3> QED
      BY <3>1 DEF NoLostWakeup
  <2>7. ASSUME NEW b \in Builds, PumpGrant(b) PROVE NoLostWakeup'
    <3> DEFINE n == Grants(pumpSeen[b])
    <3>1. pumpSeen[b] \in 1..MaxCapacity /\ active \in Nat /\ Len(queue) \in Nat
      BY DEF TypeOK
    <3>2. /\ n \in 0..Len(queue)
          /\ n < Len(queue) => active + n >= pumpSeen[b]
      BY <3>1, GrantsFacts
    <3>3. active' = active + n /\ queue' = SubSeq(queue, n + 1, Len(queue))
      BY <2>7 DEF PumpGrant
    <3>4. CASE n = Len(queue)
      BY <3>1, <3>3, <3>4 DEF TypeOK, NoLostWakeup
    <3>5. CASE n < Len(queue)
      <4>1. active' > 0
        BY <3>1, <3>2, <3>3, <3>5 DEF MaxCapacity
      <4> QED
        BY <4>1 DEF NoLostWakeup
    <3> QED
      BY <3>1, <3>2, <3>4, <3>5
  <2>8. CASE UNCHANGED vars
    BY <2>8 DEF vars, NoLostWakeup
  <2> QED
    BY <2>1, <2>2, <2>3, <2>4, <2>5, <2>6, <2>7, <2>8 DEF Next
<1> QED
  BY <1>1, <1>2, TypeCorrect, PTL DEF Spec

-----------------------------------------------------------------------------

\* The strengthening that makes NeverOversubscribed inductive: a capacity
\* that was read but not yet used is one the host has had.
ReadsBelowCeiling ==
    /\ ClampCapacity(configured) <= ceiling
    /\ \A b \in Builds : seen[b] <= ceiling /\ pumpSeen[b] <= ceiling

\* No more builds run on the host than its concurrency has ever allowed.
THEOREM NeverOversubscribedHolds == Spec => []NeverOversubscribed
<1> DEFINE IInv == NeverOversubscribed /\ ReadsBelowCeiling
<1>1. Init => IInv
  <2> SUFFICES ASSUME Init PROVE IInv
    OBVIOUS
  <2>1. ceiling = ClampCapacity(configured) /\ ceiling \in 1..MaxCapacity
    BY ClampRange DEF Init
  <2> QED
    BY <2>1 DEF Init, NeverOversubscribed, ReadsBelowCeiling, MaxCapacity
<1>2. TypeOK /\ IInv /\ [Next]_vars => IInv'
  <2> SUFFICES ASSUME TypeOK, IInv, [Next]_vars
               PROVE  IInv'
    OBVIOUS
  <2> USE DEF NeverOversubscribed, ReadsBelowCeiling
  <2>1. /\ active \in Nat /\ ceiling \in 1..MaxCapacity
        /\ seen \in [Builds -> 1..MaxCapacity]
        /\ pumpSeen \in [Builds -> 1..MaxCapacity]
        /\ ClampCapacity(configured) \in 1..MaxCapacity
    BY ClampRange DEF TypeOK
  <2>2. ASSUME NEW c \in Capacities, Configure(c) PROVE IInv'
    <3>1. ClampCapacity(c) \in 1..MaxCapacity
      BY ClampRange
    <3>2. /\ configured' = c /\ ceiling' = Larger(ceiling, ClampCapacity(c))
          /\ active' = active /\ seen' = seen /\ pumpSeen' = pumpSeen
      BY <2>2 DEF Configure
    <3>3. ceiling' >= ceiling /\ ceiling' >= ClampCapacity(c) /\ ceiling' \in 1..MaxCapacity
      BY <2>1, <3>1, <3>2 DEF Larger, MaxCapacity
    <3>4. ClampCapacity(configured)' = ClampCapacity(c)
      BY <3>2 DEF ClampCapacity
    <3> QED
      BY <2>1, <3>1, <3>2, <3>3, <3>4 DEF MaxCapacity
  <2>3. ASSUME NEW b \in Builds, Acquire(b) PROVE IInv'
    BY <2>3 DEF Acquire, ClampCapacity
  <2>4. ASSUME NEW b \in Builds, ReadCapacity(b) PROVE IInv'
    BY <2>1, <2>4 DEF ReadCapacity, ClampCapacity
  <2>5. ASSUME NEW b \in Builds, Enter(b) PROVE IInv'
    <3>1. active' <= ceiling
      BY <2>1, <2>5 DEF Enter, MaxCapacity
    <3>2. \A a \in Builds : seen'[a] <= ceiling
      BY <2>1, <2>5 DEF Enter, MaxCapacity
    <3> QED
      BY <2>5, <3>1, <3>2 DEF Enter, ClampCapacity
  <2>6. ASSUME NEW b \in Builds, Release(b) PROVE IInv'
    <3>1. active' <= ceiling
      BY <2>1, <2>6 DEF Release, Larger, MaxCapacity
    <3> QED
      BY <2>6, <3>1 DEF Release, ClampCapacity
  <2>7. ASSUME NEW b \in Builds, PumpRead(b) PROVE IInv'
    BY <2>1, <2>7 DEF PumpRead, ClampCapacity
  <2>8. ASSUME NEW b \in Builds, PumpGrant(b) PROVE IInv'
    <3> DEFINE n == Grants(pumpSeen[b])
    <3>1. pumpSeen[b] \in 1..MaxCapacity /\ pumpSeen[b] <= ceiling
      BY <2>1
    <3>2. /\ n \in Nat
          /\ active <= pumpSeen[b] => active + n <= pumpSeen[b]
          /\ active > pumpSeen[b] => n = 0
      BY <3>1, GrantsFacts DEF TypeOK
    <3>3. active' = active + n
      BY <2>8 DEF PumpGrant
    <3>4. active' <= ceiling
      BY <2>1, <3>1, <3>2, <3>3 DEF MaxCapacity
    <3>5. \A a \in Builds : pumpSeen'[a] <= ceiling
      BY <2>1, <2>8 DEF PumpGrant, MaxCapacity
    <3> QED
      BY <2>8, <3>4, <3>5 DEF PumpGrant, ClampCapacity
  <2>9. CASE UNCHANGED vars
    BY <2>9 DEF vars, ClampCapacity
  <2> QED
    BY <2>2, <2>3, <2>4, <2>5, <2>6, <2>7, <2>8, <2>9 DEF Next
<1> QED
  BY <1>1, <1>2, TypeCorrect, PTL DEF Spec

-----------------------------------------------------------------------------

\* The closure of a slot is only ever called by the build that got it.
ReleasedHolds == \A b \in Builds : released[b] => pc[b] = "holding"

\* The builds that a pump takes from the head of the queue are as many as it
\* grants: none waits twice.
LEMMA HeadCardinality ==
    ASSUME queue \in Seq(Builds), SlotsAccounted, NEW n \in 0..Len(queue)
    PROVE  /\ IsFiniteSet({queue[i] : i \in 1..n})
           /\ Cardinality({queue[i] : i \in 1..n}) = n
<1> DEFINE T == {queue[i] : i \in 1..n}
           f == [i \in 1..n |-> queue[i]]
<1>1. n \in Nat /\ Len(queue) \in Nat
  OBVIOUS
<1>2. f \in Surjection(1..n, T)
  BY DEF Surjection
<1>3. f \in Injection(1..n, T)
  <2>1. f \in [1..n -> T]
    OBVIOUS
  <2>2. ASSUME NEW i \in 1..n, NEW j \in 1..n, f[i] = f[j] PROVE i = j
    <3>1. i \in 1..Len(queue) /\ j \in 1..Len(queue) /\ queue[i] = queue[j]
      BY <1>1, <2>2
    <3> QED
      BY <3>1 DEF SlotsAccounted
  <2> QED
    BY <2>1, <2>2 DEF Injection, IsInjective
<1>4. IsFiniteSet(1..n) /\ Cardinality(1..n) = n
  BY <1>1, FS_Interval
<1> QED
  BY <1>2, <1>3, <1>4, FS_Surjection

\* The counter counts the holders and the queue lists the waiting builds, each
\* once, across every interleaving of reads, entries, releases and pumps.
THEOREM SlotsAccountedHolds == Spec => []SlotsAccounted
<1> DEFINE IInv == SlotsAccounted /\ ReleasedHolds
<1>1. Init => IInv
  <2> SUFFICES ASSUME Init PROVE IInv
    OBVIOUS
  <2>1. Holders = {}
    BY DEF Init, Holders
  <2> QED
    BY <2>1, FS_EmptySet DEF Init, SlotsAccounted, ReleasedHolds
<1>2. TypeOK /\ IInv /\ [Next]_vars => IInv'
  <2> SUFFICES ASSUME TypeOK, IInv, [Next]_vars
               PROVE  IInv'
    OBVIOUS
  <2>1. IsFiniteSet(Holders) /\ Cardinality(Holders) \in Nat
    BY BuildsAssumption, FS_Subset, FS_CardinalityType DEF Holders
  <2>2. active \in Nat /\ queue \in Seq(Builds) /\ Len(queue) \in Nat
    BY DEF TypeOK
  <2>3. ASSUME NEW c \in Capacities, Configure(c) PROVE IInv'
    BY <2>3 DEF Configure, SlotsAccounted, ReleasedHolds, Holders
  <2>4. ASSUME NEW b \in Builds, Acquire(b) PROVE IInv'
    <3>1. Holders' = Holders
      BY <2>4 DEF Acquire, Holders, TypeOK
    <3> QED
      BY <2>4, <3>1, SMTT(30) DEF Acquire, SlotsAccounted, ReleasedHolds, TypeOK
  <2>5. ASSUME NEW b \in Builds, ReadCapacity(b) PROVE IInv'
    <3>1. Holders' = Holders
      BY <2>5 DEF ReadCapacity, Holders, TypeOK
    <3> QED
      BY <2>5, <3>1, SMTT(30) DEF ReadCapacity, SlotsAccounted, ReleasedHolds, TypeOK
  <2>6. ASSUME NEW b \in Builds, Enter(b) PROVE IInv'
    <3>1. pc[b] = "read" /\ ~released[b] /\ released' = released
      BY <2>6 DEF Enter, ReleasedHolds
    <3>2. CASE queue = <<>> /\ active < seen[b]
      <4>1. /\ active' = active + 1 /\ pc' = [pc EXCEPT ![b] = "holding"]
            /\ queue' = queue
        BY <2>6, <3>2 DEF Enter
      <4>2. Holders' = Holders \cup {b} /\ b \notin Holders
        BY <3>1, <4>1 DEF Holders, TypeOK
      <4>3. Cardinality(Holders') = Cardinality(Holders) + 1
        BY <2>1, <4>2, FS_AddElement
      <4> QED
        BY <3>1, <4>1, <4>3 DEF SlotsAccounted, ReleasedHolds, TypeOK
    <3>3. CASE ~(queue = <<>> /\ active < seen[b])
      <4>1. /\ queue' = Append(queue, b) /\ pc' = [pc EXCEPT ![b] = "waiting"]
            /\ active' = active
        BY <2>6, <3>3 DEF Enter
      <4>2. Holders' = Holders
        BY <3>1, <4>1 DEF Holders, TypeOK
      <4>3. /\ Len(queue') = Len(queue) + 1 /\ queue'[Len(queue) + 1] = b
            /\ \A i \in 1..Len(queue) : queue'[i] = queue[i]
        BY <2>2, <4>1
      <4>4. \A i \in 1..Len(queue) : queue[i] # b
        BY <3>1 DEF SlotsAccounted
      <4>5. \A i, j \in 1..Len(queue') : queue'[i] = queue'[j] => i = j
        BY <2>2, <4>3, <4>4 DEF SlotsAccounted
      <4>6. \A a \in Builds :
               pc'[a] = "waiting" <=> \E i \in 1..Len(queue') : queue'[i] = a
        <5> TAKE a \in Builds
        <5>1. CASE a = b
          <6>1. pc'[a] = "waiting"
            BY <4>1, <5>1 DEF TypeOK
          <6>2. Len(queue) + 1 \in 1..Len(queue') /\ queue'[Len(queue) + 1] = a
            BY <2>2, <4>3, <5>1
          <6> QED
            BY <6>1, <6>2
        <5>2. CASE a # b
          <6>1. pc'[a] = pc[a]
            BY <4>1, <5>2 DEF TypeOK
          <6>2. (\E i \in 1..Len(queue') : queue'[i] = a)
                   <=> (\E i \in 1..Len(queue) : queue[i] = a)
            BY <2>2, <4>3, <5>2
          <6> QED
            BY <6>1, <6>2 DEF SlotsAccounted
        <5> QED
          BY <5>1, <5>2
      <4>7. ReleasedHolds'
        BY <3>1, <4>1 DEF ReleasedHolds, TypeOK
      <4> QED
        BY <4>1, <4>2, <4>5, <4>6, <4>7 DEF SlotsAccounted
    <3> QED
      BY <3>2, <3>3
  <2>7. ASSUME NEW b \in Builds, Release(b) PROVE IInv'
    <3>1. pc[b] = "holding" /\ pc' = pc /\ queue' = queue
      BY <2>7 DEF Release
    <3>2. CASE released[b]
      BY <2>7, <3>1, <3>2 DEF Release, SlotsAccounted, ReleasedHolds, Holders
    <3>3. CASE ~released[b]
      <4>1. released' = [released EXCEPT ![b] = TRUE] /\ active' = Larger(0, active - 1)
        BY <2>7, <3>3 DEF Release
      <4>2. b \in Holders /\ Holders' = Holders \ {b}
        <5>1. \A a \in Builds : released'[a] <=> (a = b \/ released[a])
          BY <4>1, Zenon DEF TypeOK
        <5> QED
          BY <3>1, <3>3, <5>1 DEF Holders
      <4>3. Cardinality(Holders') = Cardinality(Holders) - 1
        BY <2>1, <4>2, FS_RemoveElement
      <4>4. Cardinality(Holders') \in Nat
        BY <2>1, <4>2, FS_RemoveElement, FS_CardinalityType
      <4>5. active' = Cardinality(Holders')
        BY <2>1, <2>2, <4>1, <4>3, <4>4 DEF SlotsAccounted, Larger
      <4>6. ReleasedHolds'
        <5>1. \A a \in Builds : released'[a] => a = b \/ released[a]
          BY <4>1, Zenon DEF TypeOK
        <5> QED
          BY <3>1, <5>1 DEF ReleasedHolds
      <4> QED
        BY <3>1, <4>5, <4>6 DEF SlotsAccounted
    <3> QED
      BY <3>2, <3>3
  <2>8. ASSUME NEW b \in Builds, PumpRead(b) PROVE IInv'
    BY <2>8 DEF PumpRead, SlotsAccounted, ReleasedHolds, Holders
  <2>9. ASSUME NEW b \in Builds, PumpGrant(b) PROVE IInv'
    <3> DEFINE n == Grants(pumpSeen[b])
               admitted == {queue[i] : i \in 1..n}
    <3>1. n \in 0..Len(queue) /\ n \in Nat
      BY <2>2, GrantsFacts DEF TypeOK
    <3> HIDE DEF n
    <3>2. /\ active' = active + n
          /\ queue' = SubSeq(queue, n + 1, Len(queue))
          /\ pc' = [a \in Builds |-> IF a \in admitted THEN "holding" ELSE pc[a]]
          /\ released' = released
      BY <2>9 DEF PumpGrant, n
    <3>3. IsFiniteSet(admitted) /\ Cardinality(admitted) = n
      BY <2>2, <3>1, HeadCardinality
    <3>4. \A a \in admitted : a \in Builds /\ pc[a] = "waiting" /\ ~released[a]
      BY <2>2, <3>1 DEF SlotsAccounted, ReleasedHolds
    <3>5. Holders' = Holders \cup admitted /\ Holders \cap admitted = {}
      BY <3>2, <3>4 DEF Holders, TypeOK
    <3>6. Cardinality(Holders') = Cardinality(Holders) + n
      <4>1. Cardinality(Holders \cap admitted) = 0
        BY <3>5, FS_EmptySet
      <4>2. Cardinality(Holders \cup admitted)
              = Cardinality(Holders) + Cardinality(admitted) - Cardinality(Holders \cap admitted)
        BY <2>1, <3>3, FS_Union, Zenon
      <4> QED
        BY <2>1, <3>1, <3>3, <3>5, <4>1, <4>2
    <3>7. /\ Len(queue') = Len(queue) - n
          /\ \A i \in 1..Len(queue') : queue'[i] = queue[n + i]
      BY <2>2, <3>1, <3>2
    <3>8. \A i, j \in 1..Len(queue') : queue'[i] = queue'[j] => i = j
      BY <2>2, <3>1, <3>7 DEF SlotsAccounted
    <3>9. \A a \in Builds :
             pc'[a] = "waiting" <=> \E i \in 1..Len(queue') : queue'[i] = a
      <4> TAKE a \in Builds
      <4>1. ASSUME pc'[a] = "waiting" PROVE \E i \in 1..Len(queue') : queue'[i] = a
        <5>1. a \notin admitted /\ pc[a] = "waiting"
          BY <3>2, <4>1
        <5>2. PICK k \in 1..Len(queue) : queue[k] = a
          BY <5>1 DEF SlotsAccounted
        <5>3. k > n
          BY <2>2, <3>1, <5>1, <5>2
        <5>4. k - n \in 1..Len(queue') /\ queue'[k - n] = a
          BY <2>2, <3>1, <3>7, <5>2, <5>3
        <5> QED
          BY <5>4
      <4>2. ASSUME NEW i \in 1..Len(queue'), queue'[i] = a PROVE pc'[a] = "waiting"
        <5>1. n + i \in 1..Len(queue) /\ queue[n + i] = a /\ i >= 1
          BY <2>2, <3>1, <3>7, <4>2
        <5>2. a \notin admitted
          BY <2>2, <3>1, <5>1 DEF SlotsAccounted
        <5>3. pc[a] = "waiting"
          BY <5>1 DEF SlotsAccounted
        <5> QED
          BY <3>2, <5>2, <5>3
      <4> QED
        BY <4>1, <4>2
    <3>10. ReleasedHolds'
      BY <3>2, <3>4 DEF ReleasedHolds
    <3> QED
      BY <3>2, <3>6, <3>8, <3>9, <3>10 DEF SlotsAccounted
  <2>10. CASE UNCHANGED vars
    BY <2>10 DEF vars, SlotsAccounted, ReleasedHolds, Holders
  <2> QED
    BY <2>3, <2>4, <2>5, <2>6, <2>7, <2>8, <2>9, <2>10 DEF Next
<1> QED
  BY <1>1, <1>2, TypeCorrect, PTL DEF Spec

\* First come, first served, whichever step lets builds in: only a pump moves a
\* waiting build, and it takes the head of the queue; a build that does not wait
\* gets a slot only from an empty queue.
THEOREM NoOvertakingHolds == Spec => NoOvertaking
<1> DEFINE Fifo == \A b \in Builds : pc[b] # "holding" /\ pc'[b] = "holding" =>
                     \A i \in 1..Len(queue) :
                         pc'[queue[i]] = "holding" \/ \E k \in 1..i : queue[k] = b
<1>1. TypeOK /\ SlotsAccounted /\ [Next]_vars => [Fifo]_vars
  <2> SUFFICES ASSUME TypeOK, SlotsAccounted, Next,
                      NEW b \in Builds, pc[b] # "holding", pc'[b] = "holding",
                      NEW i \in 1..Len(queue)
               PROVE  pc'[queue[i]] = "holding" \/ \E k \in 1..i : queue[k] = b
    OBVIOUS
  <2>1. queue \in Seq(Builds) /\ Len(queue) \in Nat /\ queue[i] \in Builds
    <3>1. queue \in Seq(Builds)
      BY DEF TypeOK
    <3> QED
      BY <3>1
  <2>2. ASSUME NEW c \in Capacities, Configure(c) PROVE FALSE
    BY <2>2 DEF Configure
  <2>3. ASSUME NEW a \in Builds, Acquire(a) \/ ReadCapacity(a) \/ Release(a) \/ PumpRead(a)
        PROVE  FALSE
    BY <2>3 DEF Acquire, ReadCapacity, Release, PumpRead, TypeOK
  <2>4. ASSUME NEW a \in Builds, Enter(a) PROVE FALSE
    <3>1. queue # <<>>
      BY <2>1
    <3>2. pc' = [pc EXCEPT ![a] = "waiting"]
      BY <2>4, <3>1 DEF Enter
    <3> QED
      BY <3>2 DEF TypeOK
  <2>5. ASSUME NEW a \in Builds, PumpGrant(a)
        PROVE  pc'[queue[i]] = "holding" \/ \E k \in 1..i : queue[k] = b
    <3> DEFINE n == Grants(pumpSeen[a])
               admitted == {queue[k] : k \in 1..n}
    <3>1. n \in 0..Len(queue) /\ n \in Nat
      BY <2>1, <2>5, GrantsFacts, SMTT(30) DEF TypeOK
    <3> HIDE DEF n
    <3>2. pc' = [d \in Builds |-> IF d \in admitted THEN "holding" ELSE pc[d]]
      BY <2>5 DEF PumpGrant, n
    <3>3. b \in admitted
      BY <3>2
    <3>4. PICK k \in 1..n : queue[k] = b
      BY <3>3
    <3>5. CASE k <= i
      BY <3>1, <3>4, <3>5
    <3>6. CASE ~(k <= i)
      <4>1. i \in 1..n
        BY <2>1, <3>1, <3>4, <3>6
      <4> QED
        BY <2>1, <3>2, <4>1
    <3> QED
      BY <3>5, <3>6
  <2> QED
    BY <2>2, <2>3, <2>4, <2>5 DEF Next
<1> QED
  BY <1>1, TypeCorrect, SlotsAccountedHolds, PTL DEF Spec, NoOvertaking
=============================================================================
