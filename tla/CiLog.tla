------------------------------- MODULE CiLog -------------------------------
(***************************************************************************)
(* The log of one CI attempt: the runner ships numbered chunks, one after  *)
(* the other, each retried (apps/server/src/ciRunner.ts); the panel stores *)
(* each number once and in order (apps/server/src/lib/ci.ts, appendLog).   *)
(* A chunk is its number.  The panel counts a chunk in the database before *)
(* it appends the chunk to the file; in between it may die, or the append  *)
(* may fail (a full disk, a directory that cannot be written).             *)
(***************************************************************************)
EXTENDS Naturals, Sequences, FiniteSets

CONSTANTS
    Chunks,          \* chunks the attempt writes: 1..Chunks
    Room,            \* chunks that fit under MAX_LOG_BYTES
    MaxTries,        \* the runner's tries per chunk
    DriverSuspends,  \* another handler may run between two statements
    MaxCrashes,
    MaxFaults        \* appends to the file that fail

ASSUME LogAssumption ==
    /\ {Chunks, Room, MaxTries} \subseteq Nat \ {0}
    /\ {MaxCrashes, MaxFaults} \subseteq Nat
    /\ DriverSuspends \in BOOLEAN

VARIABLES
    next,      \* the chunk the runner ships, Chunks + 1 once it is through
    tries,     \* of this chunk
    waiting,   \* the runner waits for an answer to its last try
    acked,     \* chunks the panel acknowledged
    logSeq,    \* ci_attempts.logSeq
    over,      \* the attempt does not run any more
    file,      \* the log file
    handlers,  \* POST .../log under way: [id, seq, read, stage]
    crashes,
    faults     \* appends that failed

vars == <<next, tries, waiting, acked, logSeq, over, file, handlers, crashes, faults>>

Ids == (1..Chunks) \X (1..MaxTries)

TypeOK ==
    /\ next \in 1..(Chunks + 1)
    /\ tries \in 0..MaxTries
    /\ waiting \in BOOLEAN
    /\ acked \subseteq 1..Chunks
    /\ logSeq \in 0..Chunks
    /\ over \in BOOLEAN
    /\ file \in Seq(1..Chunks)
    /\ handlers \subseteq [id : Ids, read : 0..Chunks,
                           stage : {"sent", "update", "append", "answer", "refuse"}]
    /\ crashes \in 0..MaxCrashes
    /\ faults \in 0..MaxFaults

Init ==
    /\ next = 1 /\ tries = 0 /\ waiting = FALSE /\ acked = {}
    /\ logSeq = 0 /\ over = FALSE /\ file = <<>> /\ handlers = {}
    /\ crashes = 0 /\ faults = 0

Panel == <<logSeq, over, file, crashes, faults>>
Shipper == <<next, tries, waiting, acked>>

SeqOf(h) == h.id[1]
Goto(h, stage) == handlers' = (handlers \ {h}) \cup {[h EXCEPT !.stage = stage]}
MayRun(h) == DriverSuspends \/ \A g \in handlers \ {h} : g.stage \notin {"update", "append"}

-----------------------------------------------------------------------------
(* The runner                                                              *)

Send ==
    /\ next <= Chunks /\ ~waiting /\ tries < MaxTries
    /\ tries' = tries + 1 /\ waiting' = TRUE
    /\ handlers' = handlers \cup {[id |-> <<next, tries + 1>>, read |-> 0, stage |-> "sent"]}
    /\ UNCHANGED <<next, acked, Panel>>

\* The connection breaks: the runner tries again, the handler goes on.
Disconnect == waiting /\ waiting' = FALSE /\ UNCHANGED <<next, tries, acked, handlers, Panel>>

\* Fault: the tries start over.
KeepTrying ==
    /\ next <= Chunks /\ ~waiting /\ tries = MaxTries
    /\ tries' = 0
    /\ UNCHANGED <<next, waiting, acked, handlers, Panel>>

\* Five minutes of tries are over: the chunk is dropped.
GiveUp ==
    /\ next <= Chunks /\ ~waiting /\ tries = MaxTries
    /\ next' = next + 1 /\ tries' = 0
    /\ UNCHANGED <<waiting, acked, handlers, Panel>>

\* An answer to the try the runner waits for moves it on, a refusal (409) as well.
Answer(h) ==
    /\ h.stage \in {"answer", "refuse"}
    /\ handlers' = handlers \ {h}
    /\ IF waiting /\ h.id = <<next, tries>>
       THEN /\ next' = next + 1 /\ tries' = 0 /\ waiting' = FALSE
            /\ acked' = IF h.stage = "answer" THEN acked \cup {SeqOf(h)} ELSE acked
       ELSE UNCHANGED Shipper
    /\ UNCHANGED Panel

-----------------------------------------------------------------------------
(* The panel: appendLog                                                    *)

\* Fault: only the last chunk counts as repeated, a gap as new.
CheckLast(h) ==
    /\ h.stage = "sent" /\ MayRun(h)
    /\ handlers' = (handlers \ {h}) \cup
         {[h EXCEPT !.read = logSeq,
                    !.stage = IF over THEN "refuse"
                              ELSE IF SeqOf(h) = logSeq THEN "answer" ELSE "update"]}
    /\ UNCHANGED <<Shipper, Panel>>

\* Fault: a gap is acknowledged.
CheckGapFine(h) ==
    /\ h.stage = "sent" /\ MayRun(h)
    /\ handlers' = (handlers \ {h}) \cup
         {[h EXCEPT !.read = logSeq,
                    !.stage = IF over THEN "refuse"
                              ELSE IF SeqOf(h) # logSeq + 1 THEN "answer" ELSE "update"]}
    /\ UNCHANGED <<Shipper, Panel>>

\* A repeated chunk is acknowledged, a gap is refused.
Check(h) ==
    /\ h.stage = "sent" /\ MayRun(h)
    /\ handlers' = (handlers \ {h}) \cup
         {[h EXCEPT !.read = logSeq,
                    !.stage = IF over THEN "refuse"
                              ELSE IF SeqOf(h) <= logSeq THEN "answer"
                              ELSE IF SeqOf(h) # logSeq + 1 THEN "refuse" ELSE "update"]}
    /\ UNCHANGED <<Shipper, Panel>>

\* The conditional update: still running, still at the count that was read.
Update(h) ==
    /\ h.stage = "update" /\ MayRun(h)
    /\ IF over \/ logSeq # h.read
       THEN Goto(h, "refuse") /\ UNCHANGED logSeq
       ELSE logSeq' = SeqOf(h) /\ Goto(h, "append")
    /\ UNCHANGED <<Shipper, over, file, crashes, faults>>

\* Past MAX_LOG_BYTES a chunk is counted only.
Store(h) ==
    /\ h.stage = "append" /\ MayRun(h)
    /\ file' = IF h.read < Room THEN Append(file, SeqOf(h)) ELSE file
    /\ Goto(h, "answer")
    /\ UNCHANGED <<Shipper, logSeq, over, crashes, faults>>

\* The append throws after the chunk is counted: the answer is an error (500),
\* upon which the runner tries the same chunk again.
StoreFails(h) ==
    /\ h.stage = "append" /\ MayRun(h) /\ h.read < Room
    /\ faults < MaxFaults /\ faults' = faults + 1
    /\ handlers' = handlers \ {h}
    /\ waiting' = (waiting /\ h.id # <<next, tries>>)
    /\ UNCHANGED <<next, tries, acked, logSeq, over, file, crashes>>

\* The attempt is cancelled or lost.
End == ~over /\ over' = TRUE /\ UNCHANGED <<Shipper, handlers, logSeq, file, crashes, faults>>

\* The panel dies: its handlers and connections are gone.
Crash ==
    /\ crashes < MaxCrashes /\ crashes' = crashes + 1
    /\ handlers' = {} /\ waiting' = FALSE
    /\ UNCHANGED <<next, tries, acked, logSeq, over, file, faults>>

Handler(h) == Check(h) \/ Update(h) \/ Store(h) \/ Answer(h)

Next ==
    \/ Send \/ Disconnect \/ GiveUp \/ End \/ Crash
    \/ \E h \in handlers : Handler(h) \/ StoreFails(h)

Spec == Init /\ [][Next]_vars

\* The panel answers; the runner sends, and gives up on a chunk in the end.
Fairness == /\ WF_vars(\E h \in handlers : Handler(h))
            /\ WF_vars(Send \/ GiveUp)
FairSpec == Spec /\ Fairness

-----------------------------------------------------------------------------
(* Properties                                                              *)

\* "the log keeps its order" (docs/CI_RUNNERS.md:172): the file holds the
\* chunks in the order they were written and none twice, however often they
\* were sent and whichever handler of a repeated chunk is first.
InOrder == \A i, k \in DOMAIN file : i < k => file[i] < file[k]

\* What the acknowledgements promise and the file does not hold.
Lost == {n \in acked : n <= Room /\ ~\E i \in DOMAIN file : file[i] = n}

\* "a panel restart or a short outage loses no lines" (ciRunner.ts:185): of the
\* chunks the runner may forget, because the panel acknowledged them, only such are
\* missing from the file whose append a panel death (ci.ts:355-363) or an error
\* (ci.ts:361-362) cut off after they were counted, at most one for each.
AckedIsStored == Cardinality(Lost) <= crashes + faults

\* The runner gets through its log, whatever breaks: an attempt cannot hang
\* on its log and so keep its result from being reported (ciRunner.ts:290).
ShippingEnds == <>(next > Chunks)
=============================================================================
