----------------------- MODULE CrossProcessLockProofs -----------------------
(***************************************************************************)
(* Proofs about CrossProcessLock for every finite set of processes and     *)
(* every number of faults and of suspended processes: the types, and that  *)
(* the lock is exclusive.                                                  *)
(***************************************************************************)
EXTENDS CrossProcessLock, FiniteSetTheorems, TLAPS

(* Why Exclusive holds.  A process that holds an inode of its own created  *)
(* the file when the path was free.  While nobody is suspended its file is *)
(* fresh, so a takeover that moved it aside puts it back; while the        *)
(* residual window was not hit nothing else comes to the path before that. *)

\* A live lock is fresh.
LiveIsFresh == \A q \in Proc : own[q] # None => own[q] \in fresh
\* One process has a file of its own.
OneOwner == \A p, q \in Proc : own[p] # None /\ own[q] # None => p = q
\* Its file is at the path, or a takeover has it and will put it back.
LiveIsNamed ==
    \A q \in Proc : own[q] # None =>
        \/ path = own[q]
        \/ path = None /\ \E p \in Proc : aside[p] = own[q] /\ pc[p] \in {"judge", "link"}

LockInv == stalls = 0 /\ ~window => LiveIsFresh /\ OneOwner /\ LiveIsNamed

-----------------------------------------------------------------------------
(* A free inode                                                            *)

\* Each process names at most two inodes and the path one, so a file can be
\* created whenever the path is free.
LEMMA FreeInode ==
    ASSUME TypeOK, path = None
    PROVE  NewInode \in Inodes /\ NewInode \notin Named /\ NewInode # None
<1> DEFINE n == Cardinality(Proc)
           O == {own[p] : p \in Proc}
           A == {aside[p] : p \in Proc}
<1>1. IsFiniteSet(Proc) /\ n \in Nat
  BY LockAssumption, FS_CardinalityType
<1>2. IsFiniteSet(O) /\ Cardinality(O) <= n
  <2> DEFINE f == [p \in Proc |-> own[p]]
  <2>1. f \in Surjection(Proc, O)
    BY DEF Surjection
  <2> QED  BY <1>1, <2>1, FS_Surjection
<1>3. IsFiniteSet(A) /\ Cardinality(A) <= n
  <2> DEFINE f == [p \in Proc |-> aside[p]]
  <2>1. f \in Surjection(Proc, A)
    BY DEF Surjection
  <2> QED  BY <1>1, <2>1, FS_Surjection
<1>4. IsFiniteSet(Inodes) /\ Cardinality(Inodes) = 2 * n + 1
  <2>1. 1 \in Int /\ 2 * n + 1 \in Int
    BY <1>1
  <2>2. IsFiniteSet(1..(2 * n + 1))
        /\ Cardinality(1..(2 * n + 1)) = IF 1 > 2 * n + 1 THEN 0 ELSE (2 * n + 1) - 1 + 1
    BY <2>1, FS_Interval
  <2> QED  BY <1>1, <2>2 DEF Inodes
<1> DEFINE U == O \cup A
<1>5. IsFiniteSet(U) /\ Cardinality(U) <= 2 * n
  <2>1. /\ IsFiniteSet(U) /\ IsFiniteSet(O \cap A)
        /\ Cardinality(U) = Cardinality(O) + Cardinality(A) - Cardinality(O \cap A)
    BY <1>2, <1>3, FS_Union, FS_Intersection, Zenon
  <2>2. Cardinality(O) \in Nat /\ Cardinality(A) \in Nat /\ Cardinality(O \cap A) \in Nat
    BY <1>2, <1>3, <2>1, FS_CardinalityType
  <2> HIDE DEF O, A
  <2> QED  BY <1>1, <1>2, <1>3, <2>1, <2>2
<1>6. PICK i \in Inodes : i \notin U
  <2>1. SUFFICES ASSUME Inodes \subseteq U PROVE FALSE
    OBVIOUS
  <2>2. Cardinality(Inodes) <= Cardinality(U)
    BY <1>5, <2>1, FS_Subset
  <2>3. Cardinality(U) \in Nat
    BY <1>5, FS_CardinalityType
  <2> HIDE DEF U
  <2> QED  BY <1>1, <1>4, <1>5, <2>2, <2>3
<1>7. i \notin Named
  BY <1>6 DEF Named, Inodes, None
<1>8. NewInode \in Inodes /\ NewInode \notin Named
  BY <1>7 DEF NewInode
<1> QED
  BY <1>1, <1>8 DEF Inodes, None

-----------------------------------------------------------------------------
(* The types                                                               *)

LEMMA InitType == Init => TypeOK
<1> SUFFICES ASSUME Init PROVE TypeOK
  OBVIOUS
<1>1. window \in BOOLEAN
  BY Zenon DEF Init
<1>2. faults \in 0..MaxFaults /\ stalls \in 0..MaxStalls
  BY LockAssumption DEF Init
<1> QED
  BY <1>1, <1>2 DEF Init, TypeOK, Stages, None

LEMMA StepType == ASSUME TypeOK, [Next]_vars PROVE TypeOK'
<1> USE DEF TypeOK, Goto, Budgets
<1>1. CASE UNCHANGED vars
  BY <1>1 DEF vars
<1>2. ASSUME NEW p \in Proc, Begin(p) PROVE TypeOK'
  BY <1>2 DEF Begin, Stages
<1>3. ASSUME NEW p \in Proc, Open(p) PROVE TypeOK'
  <2>1. CASE path = None
    <3>1. NewInode \in Inodes /\ NewInode # None
      BY <2>1, FreeInode
    <3>2. window' \in BOOLEAN
      BY <1>3, <2>1, Zenon DEF Open
    <3> HIDE DEF TypeOK
    <3> QED  BY <1>3, <2>1, <3>1, <3>2 DEF Open, Stages, TypeOK
  <2>2. CASE path # None
    BY <1>3, <2>2 DEF Open, Stages
  <2> QED  BY <2>1, <2>2
<1>4. ASSUME NEW p \in Proc, WriteFails(p) PROVE TypeOK'
  <2>1. NewInode \in Inodes /\ NewInode # None
    BY <1>4, FreeInode DEF WriteFails
  <2>2. window' \in BOOLEAN
    BY <1>4, Zenon DEF WriteFails
  <2> QED  BY <1>4, <2>1, <2>2, LockAssumption DEF WriteFails, Stages
<1>5. ASSUME NEW p \in Proc, Stat(p) PROVE TypeOK'
  BY <1>5 DEF Stat, Stages
<1>6. ASSUME NEW p \in Proc, Wait(p) PROVE TypeOK'
  BY <1>6 DEF Wait, Stages
<1>7. ASSUME NEW p \in Proc, Rename(p) PROVE TypeOK'
  BY <1>7 DEF Rename, Stages
<1>8. ASSUME NEW p \in Proc, Judge(p) PROVE TypeOK'
  BY <1>8 DEF Judge, Stages
<1>9. ASSUME NEW p \in Proc, Link(p) PROVE TypeOK'
  <2>1. window' \in BOOLEAN
    BY <1>9, Zenon DEF Link
  <2> QED  BY <1>9, <2>1 DEF Link, Stages
<1>10. ASSUME NEW p \in Proc, Drop(p) PROVE TypeOK'
  BY <1>10 DEF Drop, Stages
<1>11. ASSUME NEW p \in Proc, Heartbeat(p) PROVE TypeOK'
  BY <1>11 DEF Heartbeat, Stages
<1>12. ASSUME NEW p \in Proc, Release(p) PROVE TypeOK'
  BY <1>12 DEF Release, Done, Stages
<1>13. ASSUME NEW p \in Proc, Unlink(p) PROVE TypeOK'
  BY <1>13 DEF Unlink, Done, Stages
<1>14. ASSUME NEW p \in Proc, Crash(p) PROVE TypeOK'
  <2>1. window' \in BOOLEAN
    BY <1>14, Zenon DEF Crash
  <2> QED  BY <1>14, <2>1, LockAssumption DEF Crash, Done, Stages
<1>15. ASSUME NEW i \in Inodes, Age(i) PROVE TypeOK'
  BY <1>15, LockAssumption DEF Age, Stages
<1> QED
  BY <1>1, <1>2, <1>3, <1>4, <1>5, <1>6, <1>7, <1>8, <1>9, <1>10, <1>11, <1>12,
     <1>13, <1>14, <1>15 DEF Next, Acquire, TakeOver, LetGo

\* Type correctness of the lock file protocol: a process holds an inode open
\* exactly while it is the holder, has one aside exactly while it takes over, and
\* every file that is created gets an inode nobody names.
THEOREM TypeCorrect == Spec => []TypeOK
<1>1. Init => TypeOK
  BY InitType
<1>2. TypeOK /\ [Next]_vars => TypeOK'
  BY StepType
<1> QED
  BY <1>1, <1>2, PTL DEF Spec

-----------------------------------------------------------------------------
(* The lock is exclusive                                                   *)

LEMMA StepLock == ASSUME TypeOK, LockInv, [Next]_vars PROVE LockInv'
<1> SUFFICES ASSUME stalls' = 0, ~window' PROVE (LiveIsFresh /\ OneOwner /\ LiveIsNamed)'
  BY DEF LockInv
<1> USE DEF LiveIsFresh, OneOwner, LiveIsNamed
<1>0. ASSUME stalls = 0, ~window PROVE LiveIsFresh /\ OneOwner /\ LiveIsNamed
  BY <1>0 DEF LockInv
<1>t. stalls \in Nat /\ None = 0
  BY DEF TypeOK, None
<1>1. CASE UNCHANGED vars
  BY <1>0, <1>1 DEF vars
<1>2. ASSUME NEW p \in Proc, Begin(p) PROVE (LiveIsFresh /\ OneOwner /\ LiveIsNamed)'
  BY <1>0, <1>2 DEF Begin, Goto, TypeOK, Budgets
<1>3. ASSUME NEW p \in Proc, Open(p) PROVE (LiveIsFresh /\ OneOwner /\ LiveIsNamed)'
  <2>1. CASE path = None
    <3>1. NewInode \in Inodes /\ NewInode \notin Named /\ NewInode # None
      BY <2>1, FreeInode
    <3>a. stalls = 0 /\ ~window /\ ~Replaces(NewInode)
      BY <1>3, <2>1 DEF Open, Budgets
    <3>2. \A q \in Proc : own[q] = None
      BY <1>0, <2>1, <3>1, <3>a DEF Named, Replaces, MovedAside
    <3> QED  BY <1>3, <2>1, <3>1, <3>2 DEF Open, TypeOK
  <2>2. CASE path # None
    BY <1>0, <1>3, <2>2 DEF Open, Goto, TypeOK, Budgets
  <2> QED  BY <2>1, <2>2
<1>4. ASSUME NEW p \in Proc, WriteFails(p) PROVE (LiveIsFresh /\ OneOwner /\ LiveIsNamed)'
  <2>1. NewInode \in Inodes /\ NewInode \notin Named /\ NewInode # None
    BY <1>4, FreeInode DEF WriteFails
  <2>a. stalls = 0 /\ ~window /\ path = None /\ ~Replaces(NewInode)
    BY <1>4 DEF WriteFails
  <2>2. \A q \in Proc : own[q] = None
    BY <1>0, <2>1, <2>a DEF Named, Replaces, MovedAside
  <2> QED  BY <1>4, <2>2 DEF WriteFails
<1>5. ASSUME NEW p \in Proc, Stat(p) PROVE (LiveIsFresh /\ OneOwner /\ LiveIsNamed)'
  BY <1>0, <1>5 DEF Stat, Goto, TypeOK, Budgets
<1>6. ASSUME NEW p \in Proc, Wait(p) PROVE (LiveIsFresh /\ OneOwner /\ LiveIsNamed)'
  BY <1>0, <1>6 DEF Wait, Goto, TypeOK, Budgets
<1>7. ASSUME NEW p \in Proc, Rename(p) PROVE (LiveIsFresh /\ OneOwner /\ LiveIsNamed)'
  BY <1>0, <1>7 DEF Rename, Goto, TypeOK, Budgets
<1>8. ASSUME NEW p \in Proc, Judge(p) PROVE (LiveIsFresh /\ OneOwner /\ LiveIsNamed)'
  BY <1>0, <1>8 DEF Judge, Goto, TypeOK, Budgets
<1>9. ASSUME NEW p \in Proc, Link(p) PROVE (LiveIsFresh /\ OneOwner /\ LiveIsNamed)'
  <2>1. CASE path = None
    <3>1. stalls = 0 /\ ~window /\ path' = aside[p] /\ own' = own /\ fresh' = fresh
      BY <1>9, <2>1 DEF Link, Budgets
    <3>2. \A q \in Proc : own[q] # None => own[q] = aside[p]
      BY <1>0, <1>9, <2>1, <3>1, <1>t DEF Link, Replaces, MovedAside
    <3> QED  BY <1>0, <3>1, <3>2
  <2>2. CASE path # None
    BY <1>0, <1>9, <2>2 DEF Link, Goto, TypeOK, Budgets
  <2> QED  BY <2>1, <2>2
<1>10. ASSUME NEW p \in Proc, Drop(p) PROVE (LiveIsFresh /\ OneOwner /\ LiveIsNamed)'
  BY <1>0, <1>10 DEF Drop, Goto, TypeOK, Budgets
<1>11. ASSUME NEW p \in Proc, Heartbeat(p) PROVE (LiveIsFresh /\ OneOwner /\ LiveIsNamed)'
  BY <1>0, <1>11 DEF Heartbeat, Budgets
<1>12. ASSUME NEW p \in Proc, Release(p) PROVE (LiveIsFresh /\ OneOwner /\ LiveIsNamed)'
  BY <1>0, <1>12 DEF Release, Done, Goto, TypeOK, Budgets
<1>13. ASSUME NEW p \in Proc, Unlink(p) PROVE (LiveIsFresh /\ OneOwner /\ LiveIsNamed)'
  <2>1. stalls = 0 /\ ~window /\ own[p] # None
    BY <1>13 DEF Unlink, TypeOK, Budgets
  <2>2. \A q \in Proc : own'[q] = None
    BY <1>0, <1>13, <2>1 DEF Unlink, Done, TypeOK
  <2> QED  BY <2>2 DEF None
<1>14. ASSUME NEW p \in Proc, Crash(p) PROVE (LiveIsFresh /\ OneOwner /\ LiveIsNamed)'
  <2>1. stalls = 0 /\ ~window
    BY <1>14 DEF Crash
  <2>2. \A q \in Proc : q # p /\ own[q] # None => path = own[q] \/ aside[p] # own[q]
    BY <1>14, <1>t DEF Crash, MovedAside
  <2> QED  BY <1>0, <1>14, <2>1, <2>2 DEF Crash, Done, Goto, TypeOK
<1>15. ASSUME NEW i \in Inodes, Age(i) PROVE (LiveIsFresh /\ OneOwner /\ LiveIsNamed)'
  BY <1>0, <1>15, <1>t DEF Age
<1> QED
  BY <1>1, <1>2, <1>3, <1>4, <1>5, <1>6, <1>7, <1>8, <1>9, <1>10, <1>11, <1>12,
     <1>13, <1>14, <1>15 DEF Next, Acquire, TakeOver, LetGo

LEMMA LockIsExclusive == ASSUME TypeOK, LockInv PROVE Exclusive
<1> SUFFICES ASSUME stalls = 0, ~window
             PROVE  /\ Cardinality(Holders) <= 1
                    /\ \A p \in Holders : own[p] \in {path} \cup {aside[q] : q \in Proc \ {p}}
  BY DEF Exclusive
<1>1. LiveIsFresh /\ OneOwner /\ LiveIsNamed
  BY DEF LockInv
<1>2. \A p \in Holders : p \in Proc /\ own[p] # None /\ aside[p] = None
  BY DEF Holders, TypeOK
<1>3. Cardinality(Holders) <= 1
  <2>1. CASE Holders = {}
    BY <2>1, FS_EmptySet
  <2>2. CASE Holders # {}
    <3>1. PICK p : p \in Holders
      BY <2>2
    <3>2. Holders = {p}
      BY <1>1, <1>2, <3>1 DEF OneOwner
    <3> QED  BY <3>2, FS_Singleton
  <2> QED  BY <2>1, <2>2
<1>4. ASSUME NEW p \in Holders
      PROVE  own[p] \in {path} \cup {aside[q] : q \in Proc \ {p}}
  BY <1>1, <1>2, <1>4 DEF LiveIsNamed
<1> QED
  BY <1>3, <1>4

\* Mutual exclusion of the lock file, for any number of processes, of crashes and
\* of failed writes: outside the residual window, and as long as no live holder
\* was suspended for staleMs, two processes never both hold the lock, and the
\* holder's file is at the path or in the hands of a takeover.
THEOREM ExclusiveHolds == Spec => []Exclusive
<1>1. Init => LockInv
  BY DEF Init, LockInv, LiveIsFresh, OneOwner, LiveIsNamed
<1>2. TypeOK /\ LockInv /\ [Next]_vars => LockInv'
  BY StepLock
<1>3. TypeOK /\ LockInv => Exclusive
  BY LockIsExclusive
<1> QED
  BY <1>1, <1>2, <1>3, TypeCorrect, PTL DEF Spec
=============================================================================
