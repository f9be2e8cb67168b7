-------------------------- MODULE CrossProcessLock --------------------------
(***************************************************************************)
(* The lock file that keeps two panel processes on one data directory from *)
(* running a backup and a restore of the same target at once               *)
(* (apps/server/src/lib/crossProcessLock.ts).  Every system call is a step *)
(* and the steps of the processes interleave: a file is an inode, the path *)
(* and the private name of a takeover name one inode each, a holder keeps  *)
(* its inode open.  An inode nobody names is reused.  Within one process   *)
(* the keyed guard admits one contender per path, so a contender is a      *)
(* process.                                                                *)
(***************************************************************************)
EXTENDS Naturals, FiniteSets

CONSTANTS
    Proc,       \* the processes
    MaxFaults,  \* crashes and failed token writes
    MaxStalls   \* holders whose heartbeat stops for staleMs while they live

ASSUME LockAssumption ==
    /\ IsFiniteSet(Proc)
    /\ {MaxFaults, MaxStalls} \subseteq Nat

None == 0
Inodes == 1..(2 * Cardinality(Proc) + 1)

VARIABLES
    path,     \* the inode at the lock path, or None
    fresh,    \* inodes whose mtime is at most staleMs old
    pc,       \* where each process is
    own,      \* the inode it created and holds open, or None
    aside,    \* the inode it renamed to its private name, or None
    window,   \* history: a live lock that was moved aside lost the path
    faults,
    stalls

vars == <<path, fresh, pc, own, aside, window, faults, stalls>>

Stages == {"idle", "open", "stat", "rename", "judge", "link", "drop", "wait",
           "hold", "unlink"}

TypeOK ==
    /\ path \in Inodes \cup {None}
    /\ fresh \subseteq Inodes
    /\ pc \in [Proc -> Stages]
    /\ own \in [Proc -> Inodes \cup {None}]
    /\ aside \in [Proc -> Inodes \cup {None}]
    /\ \A p \in Proc : (own[p] # None) = (pc[p] \in {"hold", "unlink"})
    /\ \A p \in Proc : (aside[p] # None) = (pc[p] \in {"judge", "link", "drop"})
    /\ window \in BOOLEAN
    /\ faults \in 0..MaxFaults /\ stalls \in 0..MaxStalls

Init ==
    /\ path = None /\ fresh = {}
    /\ pc = [p \in Proc |-> "idle"]
    /\ own = [p \in Proc |-> None] /\ aside = [p \in Proc |-> None]
    /\ window = FALSE /\ faults = 0 /\ stalls = 0

Named == {path} \cup {own[p] : p \in Proc} \cup {aside[p] : p \in Proc}
NewInode == CHOOSE i \in Inodes : i \notin Named
Goto(p, stage) == pc' = [pc EXCEPT ![p] = stage]
Budgets == <<faults, stalls>>

\* The lock of a live holder is moved aside: nothing of it is at the path.
MovedAside(q) == own[q] # None /\ own[q] # path /\ \E p \in Proc : aside[p] = own[q]

\* "a third contender creating the path while a live lock is briefly moved aside"
\* (line 143): the file i comes to the path in its place.
Replaces(i) == \E q \in Proc : MovedAside(q) /\ own[q] # i

-----------------------------------------------------------------------------
(* acquireCrossProcessLock                                                 *)

Begin(p) ==
    /\ pc[p] = "idle" /\ Goto(p, "open")
    /\ UNCHANGED <<path, fresh, own, aside, window, Budgets>>

\* O_EXCL: one process creates the file, every other one goes on to look at it.
Open(p) ==
    /\ pc[p] = "open"
    /\ IF path = None
       THEN /\ path' = NewInode /\ fresh' = fresh \cup {NewInode}
            /\ own' = [own EXCEPT ![p] = NewInode] /\ Goto(p, "hold")
            /\ window' = (window \/ Replaces(NewInode))
       ELSE Goto(p, "stat") /\ UNCHANGED <<path, fresh, own, window>>
    /\ UNCHANGED <<aside, Budgets>>

\* The token cannot be written: the acquisition fails, its file stays.
WriteFails(p) ==
    /\ pc[p] = "open" /\ path = None /\ faults < MaxFaults
    /\ path' = NewInode /\ fresh' = fresh \cup {NewInode}
    /\ Goto(p, "idle") /\ faults' = faults + 1
    /\ window' = (window \/ Replaces(NewInode))
    /\ UNCHANGED <<own, aside, stalls>>

Stat(p) ==
    /\ pc[p] = "stat"
    /\ Goto(p, IF path = None \/ path \in fresh THEN "wait" ELSE "rename")
    /\ UNCHANGED <<path, fresh, own, aside, window, Budgets>>

\* The wait budget is over, or the poll starts again.
Wait(p) ==
    /\ pc[p] = "wait"
    /\ Goto(p, "idle") \/ Goto(p, "open")
    /\ UNCHANGED <<path, fresh, own, aside, window, Budgets>>

-----------------------------------------------------------------------------
(* takeOverStaleLock                                                       *)

\* Fault: the path is removed, whatever is there now.
UnlinkPath(p) ==
    /\ pc[p] = "rename"
    /\ path' = None /\ Goto(p, "wait")
    /\ UNCHANGED <<fresh, own, aside, window, Budgets>>

\* Whatever is at the path now is moved to the private name.
Rename(p) ==
    /\ pc[p] = "rename"
    /\ IF path = None
       THEN Goto(p, "wait") /\ UNCHANGED <<path, aside>>
       ELSE /\ aside' = [aside EXCEPT ![p] = path] /\ path' = None
            /\ Goto(p, "judge")
    /\ UNCHANGED <<fresh, own, window, Budgets>>

\* Is the moved file the one that was found stale?
Judge(p) ==
    /\ pc[p] = "judge"
    /\ Goto(p, IF aside[p] \in fresh THEN "link" ELSE "drop")
    /\ UNCHANGED <<path, fresh, own, aside, window, Budgets>>

\* A live lock is put back, unless the path exists again.
Link(p) ==
    /\ pc[p] = "link"
    /\ IF path = None
       THEN path' = aside[p] /\ window' = (window \/ Replaces(aside[p]))
       ELSE UNCHANGED <<path, window>>
    /\ Goto(p, "drop")
    /\ UNCHANGED <<fresh, own, aside, Budgets>>

\* Fault: a moved file is always put back.
DropBack(p) ==
    /\ pc[p] = "drop"
    /\ path' = IF path = None THEN aside[p] ELSE path
    /\ aside' = [aside EXCEPT ![p] = None] /\ Goto(p, "wait")
    /\ UNCHANGED <<fresh, own, window, Budgets>>

Drop(p) ==
    /\ pc[p] = "drop"
    /\ aside' = [aside EXCEPT ![p] = None] /\ Goto(p, "wait")
    /\ UNCHANGED <<path, fresh, own, window, Budgets>>

-----------------------------------------------------------------------------
(* The holder: heartbeat and release                                       *)

\* The heartbeat is set on the open file, wherever it is named.
Heartbeat(p) ==
    /\ pc[p] = "hold" /\ own[p] \notin fresh
    /\ fresh' = fresh \cup {own[p]}
    /\ UNCHANGED <<path, pc, own, aside, window, Budgets>>

Done(p) == Goto(p, "idle") /\ own' = [own EXCEPT ![p] = None]

\* The path is read: only a file with the own token is to be removed.
Release(p) ==
    /\ pc[p] = "hold"
    /\ IF path = own[p] THEN Goto(p, "unlink") /\ UNCHANGED own ELSE Done(p)
    /\ UNCHANGED <<path, fresh, aside, window, Budgets>>

Unlink(p) ==
    /\ pc[p] = "unlink"
    /\ path' = None /\ Done(p)
    /\ UNCHANGED <<fresh, aside, window, Budgets>>

-----------------------------------------------------------------------------
(* Time and faults                                                         *)

\* staleMs pass without a heartbeat: the holder is gone, or its heartbeat stalls.
Age(i) ==
    /\ i \in fresh \cap Named
    /\ fresh' = fresh \ {i}
    /\ IF \A p \in Proc : own[p] # i THEN UNCHANGED stalls
       ELSE stalls < MaxStalls /\ stalls' = stalls + 1
    /\ UNCHANGED <<path, pc, own, aside, faults, window>>

\* A process dies anywhere and comes back; what it had moved aside stays there.
Crash(p) ==
    /\ pc[p] # "idle" /\ faults < MaxFaults /\ faults' = faults + 1
    /\ Done(p) /\ aside' = [aside EXCEPT ![p] = None]
    /\ window' = (window \/ \E q \in Proc : MovedAside(q) /\ aside[p] = own[q])
    /\ UNCHANGED <<path, fresh, stalls>>

Acquire(p) == Open(p) \/ Stat(p) \/ Wait(p)
TakeOver(p) == Rename(p) \/ Judge(p) \/ Link(p) \/ Drop(p)
LetGo(p) == Release(p) \/ Unlink(p)

Next ==
    \/ \E p \in Proc : Begin(p) \/ Acquire(p) \/ TakeOver(p) \/ LetGo(p)
                       \/ Heartbeat(p) \/ WriteFails(p) \/ Crash(p)
    \/ \E i \in Inodes : Age(i)

Spec == Init /\ [][Next]_vars

\* Operations come again and again and each ends; a process keeps running; the
\* clock goes on.
Fairness ==
    /\ \A p \in Proc : WF_vars(Begin(p)) /\ WF_vars(Acquire(p) \/ TakeOver(p) \/ LetGo(p))
    /\ \A i \in Inodes : WF_vars(Age(i))
FairSpec == Spec /\ Fairness

-----------------------------------------------------------------------------
(* Properties                                                              *)

Holders == {p \in Proc : pc[p] = "hold"}

\* "both believed they held the lock (a backup interleaved with a restore on
\* the same target)" (crossProcessLock.ts:126-128) never happens: two processes
\* do not both hold the lock, and a holder's file is at the path, or a takeover
\* has it aside and will put it back.  Two things open the lock: a holder whose
\* heartbeat stops for longer than staleMs while it lives (line 97), and the
\* "residual window" (line 143), in which a live lock that was moved aside loses
\* the path to a newer file, or to the death of the process that moved it.
Exclusive ==
    stalls = 0 /\ ~window =>
        /\ Cardinality(Holders) <= 1
        /\ \A p \in Holders : own[p] \in {path} \cup {aside[q] : q \in Proc \ {p}}

\* "a lock abandoned by a crashed process is stolen once it goes stale instead
\* of wedging the operation forever" (crossProcessLock.ts:51-53): while processes
\* keep asking for the lock, one gets it again and again.
NeverWedged == []<>(\E p \in Proc : pc[p] = "hold")
=============================================================================
