------------------------------ MODULE CiRunner ------------------------------
(***************************************************************************)
(* CI jobs on runners: the panel's side of the runner protocol             *)
(* (apps/server/src/lib/ci.ts, lib/ciSource.ts, plugins/ciScheduler.ts)    *)
(* and the runner's (ciRunner.ts).  A job is tried by attempts; an attempt *)
(* holds a lease that its runner renews, and only the current attempt with *)
(* a live lease may settle the job.                                        *)
(*                                                                         *)
(* A request handler is an element of ops; each of its steps is one        *)
(* statement on the database.  The process may die between any two of      *)
(* them.  Handlers interleave at a statement only if the driver suspends;  *)
(* a checkout of source waits on the network and interleaves always.       *)
(***************************************************************************)
EXTENDS Naturals, FiniteSets

CONSTANTS
    Jobs,             \* job ids, in the order of creation
    Runners,
    MaxAttempts,      \* the pipeline's maxAttempts
    Capacity,         \* of each runner
    MaxHead,          \* commits the branch head goes through: 1..MaxHead
    RequireApproval,  \* the pipeline's requireApproval
    Drivers,          \* whether a statement suspends its caller: {FALSE}, {TRUE} or both
    MaxRunnerCrashes, MaxPanelCrashes, MaxRevokes, MaxCancels

ASSUME CiAssumption ==
    /\ Jobs \subseteq Nat
    /\ {MaxAttempts, Capacity, MaxHead} \subseteq Nat \ {0}
    /\ {MaxRunnerCrashes, MaxPanelCrashes, MaxRevokes, MaxCancels} \subseteq Nat
    /\ RequireApproval \in BOOLEAN /\ Drivers \subseteq BOOLEAN

VARIABLES
    suspends, \* the driver suspends the caller of a statement, as a remote one would
    job,      \* ci_jobs: [Jobs -> [status, attempts, current, sha]]
    attempt,  \* ci_attempts: [Attempts -> [status, runner, lease]]
    revoked,  \* runners whose token no longer works
    work,     \* the runners' processes and the commit each ran: [Attempts -> [phase, sha]]
    head,     \* the commit at the branch's head
    ops,      \* the panel's request handlers
    budget

vars == <<suspends, job, attempt, revoked, work, head, ops, budget>>

Attempts == Jobs \X (1..MaxAttempts)
Commits == 1..MaxHead
NoCommit == 0
NoRunner == "none"
Live == {"awaiting_approval", "queued", "running"}
Results == {"succeeded", "failed"}
JobStatuses == {"none", "cancelled"} \cup Live \cup Results
AttemptStatuses == {"none", "running", "lost", "cancelled"} \cup Results
\* What the runner does for an attempt; a result is kept until it is reported.
Phases == {"none", "claimed", "fetching", "scripting"} \cup Results

Ops == [kind : {"claim"}, stage : {"insert", "link", "answer"}, a : Attempts, r : Runners]
       \cup [kind : {"finish"}, stage : {"close", "settle"}, a : Attempts, result : Results]
       \cup [kind : {"cancel"}, stage : {"attempt"}, a : Attempts]
       \cup [kind : {"lose"}, stage : {"mark", "job"}, a : Attempts]
       \cup [kind : {"fetch"}, stage : {"checkout", "pin"}, a : Attempts,
             pinned : Commits \cup {NoCommit}, sha : Commits \cup {NoCommit}]

TypeOK ==
    /\ suspends \in Drivers
    /\ job \in [Jobs -> [status : JobStatuses, attempts : 0..MaxAttempts,
                         current : 0..MaxAttempts, sha : Commits \cup {NoCommit}]]
    /\ attempt \in [Attempts -> [status : AttemptStatuses, runner : Runners \cup {NoRunner},
                                 lease : {"live", "lapsed"}]]
    /\ revoked \subseteq Runners
    /\ work \in [Attempts -> [phase : Phases, sha : Commits \cup {NoCommit}]]
    /\ head \in Commits
    /\ ops \subseteq Ops
    /\ budget \in [{"runner", "panel", "revoke", "cancel"} -> Nat]

Init ==
    /\ suspends \in Drivers
    /\ job = [j \in Jobs |-> [status |-> "none", attempts |-> 0, current |-> 0, sha |-> NoCommit]]
    /\ attempt = [a \in Attempts |-> [status |-> "none", runner |-> NoRunner, lease |-> "live"]]
    /\ revoked = {}
    /\ work = [a \in Attempts |-> [phase |-> "none", sha |-> NoCommit]]
    /\ head = 1
    /\ ops = {}
    /\ budget = [runner |-> MaxRunnerCrashes, panel |-> MaxPanelCrashes,
                 revoke |-> MaxRevokes, cancel |-> MaxCancels]

-----------------------------------------------------------------------------
(* Helpers                                                                 *)

Spend(kind) == budget[kind] > 0 /\ budget' = [budget EXCEPT ![kind] = @ - 1]
JobOf(a) == a[1]
IsCurrent(a) == /\ attempt[a].status = "running"
                /\ job[a[1]].status = "running" /\ job[a[1]].current = a[2]
RunningOn(r) == {a \in Attempts : attempt[a].status = "running" /\ attempt[a].runner = r}
ActiveOn(r) == {a \in Attempts : attempt[a].runner = r /\ work[a].phase # "none"}
InFlight(kind) == {o.a : o \in {p \in ops : p.kind = kind}}

\* The statement of handler o may run: no other chain of statements is under
\* way (a sweep and a revocation visit their attempts in one chain).
MayRun(o) == \/ suspends
             \/ \A p \in ops \ {o} : p.kind = "fetch" \/ (p.kind = "lose" /\ o.kind = "lose")
MayStart == suspends \/ \A p \in ops : p.kind = "fetch"

Proceed(o, stage) == ops' = (ops \ {o}) \cup {[o EXCEPT !.stage = stage]}
Done(o) == ops' = ops \ {o}
SetAttempt(a, s) == attempt' = [attempt EXCEPT ![a].status = s]
SetPhase(a, p) == work' = [work EXCEPT ![a].phase = p]

-----------------------------------------------------------------------------
(* Members and admins                                                      *)

\* createJob: at a given commit, or at whatever the branch holds later.
Submit(j) ==
    /\ MayStart /\ job[j].status = "none"
    /\ \A k \in Jobs : k < j => job[k].status # "none"
    /\ \E sha \in {NoCommit, head} :
          job' = [job EXCEPT ![j].sha = sha,
                             ![j].status = IF RequireApproval THEN "awaiting_approval" ELSE "queued"]
    /\ UNCHANGED <<attempt, revoked, work, head, ops, budget>>

Approve(j) ==
    /\ MayStart /\ job[j].status = "awaiting_approval"
    /\ job' = [job EXCEPT ![j].status = "queued"]
    /\ UNCHANGED <<attempt, revoked, work, head, ops, budget>>

\* cancelJob: the job, then the attempt the job named when it was read.
Cancel(j) ==
    /\ MayStart /\ job[j].status \in Live /\ Spend("cancel")
    /\ job' = [job EXCEPT ![j].status = "cancelled"]
    /\ ops' = ops \cup {[kind |-> "cancel", stage |-> "attempt", a |-> <<j, n>>] :
                        n \in {job[j].current} \ {0}}
    /\ UNCHANGED <<attempt, revoked, work, head>>

CancelAttempt(o) ==
    /\ o.kind = "cancel" /\ MayRun(o)
    /\ IF attempt[o.a].status = "running" THEN SetAttempt(o.a, "cancelled") ELSE UNCHANGED attempt
    /\ Done(o)
    /\ UNCHANGED <<job, revoked, work, head, budget>>

\* revokeRunner: the token first, then each attempt it still runs is lost.
Revoke(r) ==
    /\ MayStart /\ r \notin revoked /\ Spend("revoke")
    /\ revoked' = revoked \cup {r}
    /\ ops' = ops \cup {[kind |-> "lose", stage |-> "mark", a |-> a] : a \in RunningOn(r)}
    /\ UNCHANGED <<job, attempt, work, head>>

-----------------------------------------------------------------------------
(* Claiming a job                                                          *)

\* claimJob: the oldest queued job, if neither the runner nor the panel's
\* count of its running attempts says that the runner is full.
Claim(r) ==
    /\ MayStart /\ r \notin revoked
    /\ Cardinality(ActiveOn(r)) < Capacity /\ Cardinality(RunningOn(r)) < Capacity
    /\ \E j \in Jobs :
          /\ job[j].status = "queued" /\ \A k \in Jobs : k < j => job[k].status # "queued"
          /\ job' = [job EXCEPT ![j].status = "running", ![j].attempts = @ + 1]
          /\ ops' = ops \cup {[kind |-> "claim", stage |-> "insert",
                               a |-> <<j, job[j].attempts + 1>>, r |-> r]}
    /\ UNCHANGED <<attempt, revoked, work, head, budget>>

InsertAttempt(o) ==
    /\ o.kind = "claim" /\ o.stage = "insert" /\ MayRun(o)
    /\ attempt' = [attempt EXCEPT ![o.a] = [status |-> "running", runner |-> o.r, lease |-> "live"]]
    /\ Proceed(o, "link")
    /\ UNCHANGED <<job, revoked, work, head, budget>>

LinkAttempt(o) ==
    /\ o.kind = "claim" /\ o.stage = "link" /\ MayRun(o)
    /\ job' = [job EXCEPT ![JobOf(o.a)].current = o.a[2]]
    /\ Proceed(o, "answer")
    /\ UNCHANGED <<attempt, revoked, work, head, budget>>

\* The answer reaches the runner, or is lost on the way.
Answer(o) ==
    /\ o.kind = "claim" /\ o.stage = "answer" /\ MayRun(o)
    /\ \/ SetPhase(o.a, "claimed")
       \/ UNCHANGED work
    /\ Done(o)
    /\ UNCHANGED <<job, attempt, revoked, head, budget>>

-----------------------------------------------------------------------------
(* Running an attempt                                                      *)

\* The runner asks for the source; an attempt that is over gets none.
Fetch(a) ==
    /\ work[a].phase = "claimed" /\ MayStart
    /\ IF attempt[a].status = "running"
       THEN /\ SetPhase(a, "fetching")
            /\ ops' = ops \cup {[kind |-> "fetch", stage |-> "checkout", a |-> a,
                                 pinned |-> job[JobOf(a)].sha, sha |-> NoCommit]}
       ELSE SetPhase(a, "failed") /\ UNCHANGED ops
    /\ UNCHANGED <<job, attempt, revoked, head, budget>>

\* buildSourceArchive: the pinned commit, or the head of the branch.
Checkout(o) ==
    /\ o.kind = "fetch" /\ o.stage = "checkout"
    /\ ops' = (ops \ {o}) \cup {[o EXCEPT !.stage = "pin",
                                          !.sha = IF o.pinned = NoCommit THEN head ELSE o.pinned]}
    /\ UNCHANGED <<job, attempt, revoked, work, head, budget>>

\* The checkout is pinned if the job had no commit when the request came in;
\* the archive goes to the runner, if that still waits for it.
Pin(o) ==
    /\ o.kind = "fetch" /\ o.stage = "pin" /\ MayRun(o)
    /\ job' = IF o.pinned = NoCommit THEN [job EXCEPT ![JobOf(o.a)].sha = o.sha] ELSE job
    /\ work' = IF work[o.a].phase = "fetching"
               THEN [work EXCEPT ![o.a] = [phase |-> "scripting", sha |-> o.sha]] ELSE work
    /\ Done(o)
    /\ UNCHANGED <<attempt, revoked, head, budget>>

\* The download fails or times out; the panel's handler goes on.
FetchFails(a) ==
    /\ work[a].phase = "fetching"
    /\ SetPhase(a, "failed")
    /\ UNCHANGED <<job, attempt, revoked, head, ops, budget>>

ScriptEnds(a) ==
    /\ work[a].phase = "scripting"
    /\ \E result \in Results : SetPhase(a, result)
    /\ UNCHANGED <<job, attempt, revoked, head, ops, budget>>

\* Until its script ends, the runner renews the lease, or learns that the
\* attempt does not count any more and kills its container.
Heartbeat(a) ==
    /\ work[a].phase \in {"claimed", "fetching", "scripting"} /\ MayStart
    /\ IF IsCurrent(a) /\ attempt[a].runner \notin revoked
       THEN attempt' = [attempt EXCEPT ![a].lease = "live"] /\ UNCHANGED work
       ELSE work' = [work EXCEPT ![a].phase = "none"] /\ UNCHANGED attempt
    /\ UNCHANGED <<job, revoked, head, ops, budget>>

\* finishAttempt's check; a refused runner (409, 401) gives up.
Report(a) ==
    /\ work[a].phase \in Results /\ a \notin InFlight("finish") /\ MayStart
    /\ IF IsCurrent(a) /\ attempt[a].lease = "live" /\ attempt[a].runner \notin revoked
       THEN /\ ops' = ops \cup {[kind |-> "finish", stage |-> "close", a |-> a,
                                 result |-> work[a].phase]}
            /\ UNCHANGED work
       ELSE work' = [work EXCEPT ![a].phase = "none"] /\ UNCHANGED ops
    /\ UNCHANGED <<job, attempt, revoked, head, budget>>

\* Fault: the attempt is closed whatever it became since the check.
CloseAnyAttempt(o) ==
    /\ o.kind = "finish" /\ o.stage = "close" /\ MayRun(o)
    /\ SetAttempt(o.a, o.result) /\ Proceed(o, "settle") /\ UNCHANGED work
    /\ UNCHANGED <<job, revoked, head, budget>>

CloseAttempt(o) ==
    /\ o.kind = "finish" /\ o.stage = "close" /\ MayRun(o)
    /\ IF attempt[o.a].status = "running"
       THEN SetAttempt(o.a, o.result) /\ Proceed(o, "settle") /\ UNCHANGED work
       ELSE work' = [work EXCEPT ![o.a].phase = "none"] /\ Done(o) /\ UNCHANGED attempt
    /\ UNCHANGED <<job, revoked, head, budget>>

\* Fault: a job that was cancelled meanwhile is settled too.
SettleAnyJob(o) ==
    /\ o.kind = "finish" /\ o.stage = "settle" /\ MayRun(o)
    /\ job' = [job EXCEPT ![JobOf(o.a)].status = o.result]
    /\ work' = [work EXCEPT ![o.a].phase = "none"]
    /\ Done(o)
    /\ UNCHANGED <<attempt, revoked, head, budget>>

SettleJob(o) ==
    LET j == JobOf(o.a)
    IN /\ o.kind = "finish" /\ o.stage = "settle" /\ MayRun(o)
       /\ job' = IF job[j].status = "running" /\ job[j].current = o.a[2]
                 THEN [job EXCEPT ![j].status = o.result] ELSE job
       /\ work' = [work EXCEPT ![o.a].phase = "none"]
       /\ Done(o)
       /\ UNCHANGED <<attempt, revoked, head, budget>>

-----------------------------------------------------------------------------
(* Lost attempts, crashes                                                  *)

\* 60 s pass without a heartbeat.
Lapse(a) ==
    /\ attempt[a].status = "running" /\ attempt[a].lease = "live"
    /\ attempt' = [attempt EXCEPT ![a].lease = "lapsed"]
    /\ UNCHANGED <<job, revoked, work, head, ops, budget>>

\* sweepLostAttempts selects an attempt whose lease lapsed.
Sweep(a) ==
    /\ attempt[a].status = "running" /\ attempt[a].lease = "lapsed"
    /\ a \notin InFlight("lose") /\ MayStart
    /\ ops' = ops \cup {[kind |-> "lose", stage |-> "mark", a |-> a]}
    /\ UNCHANGED <<job, attempt, revoked, work, head, budget>>

MarkLost(o) ==
    /\ o.kind = "lose" /\ o.stage = "mark" /\ MayRun(o)
    /\ IF attempt[o.a].status = "running"
       THEN SetAttempt(o.a, "lost") /\ Proceed(o, "job")
       ELSE Done(o) /\ UNCHANGED attempt
    /\ UNCHANGED <<job, revoked, work, head, budget>>

\* Fault: the last lost attempt leaves its job alone.
RequeueIfLeft(o) ==
    LET j == JobOf(o.a)
    IN /\ o.kind = "lose" /\ o.stage = "job" /\ MayRun(o)
       /\ job' = IF job[j].current = o.a[2] /\ job[j].status = "running" /\ job[j].attempts < MaxAttempts
                 THEN [job EXCEPT ![j].status = "queued", ![j].current = 0] ELSE job
       /\ Done(o)
       /\ UNCHANGED <<attempt, revoked, work, head, budget>>

\* Another attempt for the job of a lost one, or none are left.
Requeue(o) ==
    LET j == JobOf(o.a)
    IN /\ o.kind = "lose" /\ o.stage = "job" /\ MayRun(o)
       /\ job' = IF job[j].status # "running" \/ job[j].current # o.a[2] THEN job
                 ELSE IF job[j].attempts < MaxAttempts
                 THEN [job EXCEPT ![j].status = "queued", ![j].current = 0]
                 ELSE [job EXCEPT ![j].status = "failed"]
       /\ Done(o)
       /\ UNCHANGED <<attempt, revoked, work, head, budget>>

\* A runner dies with everything it ran; it comes back empty.
RunnerCrash(r) ==
    /\ ActiveOn(r) # {} /\ Spend("runner")
    /\ work' = [a \in Attempts |-> IF a \in ActiveOn(r) THEN [work[a] EXCEPT !.phase = "none"] ELSE work[a]]
    /\ UNCHANGED <<job, attempt, revoked, head, ops>>

\* The panel dies in the middle of its handlers; at boot every running
\* attempt gets a fresh lease.
PanelCrash ==
    /\ ops # {} /\ Spend("panel")
    /\ ops' = {}
    /\ attempt' = [a \in Attempts |-> IF attempt[a].status = "running"
                                      THEN [attempt[a] EXCEPT !.lease = "live"] ELSE attempt[a]]
    /\ UNCHANGED <<job, revoked, work, head>>

HeadMoves == head < MaxHead /\ head' = head + 1 /\ UNCHANGED <<job, attempt, revoked, work, ops, budget>>

Handler(o) == \/ InsertAttempt(o) \/ LinkAttempt(o) \/ Answer(o)
              \/ Checkout(o) \/ Pin(o)
              \/ CloseAttempt(o) \/ SettleJob(o)
              \/ CancelAttempt(o) \/ MarkLost(o) \/ Requeue(o)

Runner(a) == Fetch(a) \/ ScriptEnds(a) \/ Report(a)

Next ==
    /\ \/ \E j \in Jobs : Submit(j) \/ Approve(j) \/ Cancel(j)
       \/ \E r \in Runners : Revoke(r) \/ Claim(r) \/ RunnerCrash(r)
       \/ \E o \in ops : Handler(o)
       \/ \E a \in Attempts : Runner(a) \/ FetchFails(a) \/ Heartbeat(a) \/ Lapse(a) \/ Sweep(a)
       \/ PanelCrash
       \/ HeadMoves
    /\ UNCHANGED suspends

Spec == Init /\ [][Next]_vars

-----------------------------------------------------------------------------
(* Properties                                                              *)

\* "A job can't be counted as succeeded twice" (docs/CI_RUNNERS.md:170), nor
\* run again once a result was taken: no attempt follows one that ended with
\* a result, a settled success is the current attempt's, and the panel never
\* counts two running attempts of one job (it is handed to another runner only
\* after the attempt before it is marked lost).
OneResult ==
    /\ \A a, b \in Attempts :
          (a[1] = b[1] /\ a[2] < b[2] /\ attempt[a].status \in Results) => attempt[b].status = "none"
    /\ \A j \in Jobs : job[j].status = "succeeded" =>
          job[j].current # 0 /\ attempt[<<j, job[j].current>>].status = "succeeded"
    /\ \A j \in Jobs : Cardinality({a \in Attempts : a[1] = j /\ attempt[a].status = "running"}) <= 1

\* Refinement: to its callers, a job lives the life CiJobLife describes.
JobLife == INSTANCE CiJobLife WITH
    life <- [j \in Jobs |-> job[j].status], tries <- [j \in Jobs |-> job[j].attempts]
ImplementsJobLife == JobLife!Spec

\* "Its lease lapses, the attempt is marked lost, and the job is requeued, or
\* failed" (docs/CI_RUNNERS.md:170) is true of every running job: it has a
\* current attempt for the sweep to find, or a handler that is about to move it
\* on.  With the shipped driver, as long as the panel did not die between the
\* statements of a handler (claimJob, loseAttempt and finishAttempt leave a
\* job behind then).
RunningIsTended ==
    ~suspends /\ budget["panel"] = MaxPanelCrashes =>
        \A j \in Jobs : job[j].status = "running" =>
            \E a \in Attempts : a[1] = j /\ (IsCurrent(a) \/ a \in InFlight("claim")
                                                 \cup InFlight("finish") \cup InFlight("lose"))
=============================================================================
