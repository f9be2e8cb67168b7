---------------------------- MODULE DeployGates ----------------------------
(***************************************************************************)
(* What holds a queued deployment of one service back, and lets it go: the *)
(* worker's pass over the queue (apps/server/src/plugins/worker.ts,        *)
(* nextClaimable), the runner CI gate (lib/ciDeployGate.ts), the GitHub    *)
(* workflow gate (lib/ciGate.ts), lane approvals (lib/protectedLanes.ts,   *)
(* modules/deploys.ts) and deploy freezes (lib/deployFreeze.ts).           *)
(*                                                                         *)
(* The CI job of a deployment lives as CiJobLife says.  A pass looks at    *)
(* the rows one by one, oldest first; nothing but the clock and a crash    *)
(* comes between two of its steps unless DriverSuspends, because it waits  *)
(* for the embedded database only.  A GitHub check waits on the network.   *)
(***************************************************************************)
EXTENDS Naturals, Sequences, FiniteSets, FiniteSetsExt

CONSTANTS
    N,               \* deployments of the service, oldest first
    MaxHead,         \* commits of the branch: 1..MaxHead
    DriverSuspends,
    Gates,           \* the sets of gates the operator may have on at first
    Switches,        \* gates the operator may turn on or off later
    MaxSwitches, MaxExpiries, MaxCrashes, MaxAgings,
    MaxEvents        \* all of these together

GateNames == {"runner", "github", "lane", "freeze"}

ASSUME GatesAssumption ==
    /\ {N, MaxHead} \subseteq Nat \ {0}
    /\ {MaxSwitches, MaxExpiries, MaxCrashes, MaxAgings, MaxEvents} \subseteq Nat
    /\ Gates \subseteq SUBSET GateNames /\ Switches \subseteq GateNames
    /\ DriverSuspends \in BOOLEAN

VARIABLES
    row,      \* deployments: [Rows -> [status, sha, reviewed, gate]]
    life,     \* the latest CI job of each row, as in CiJobLife
    tries,
    tested,   \* the commit this job pinned
    on,       \* the gates that are on
    pass,     \* the worker's pass: [at, todo, frozen, full, who]
    poll,     \* the GitHub check of each row
    head,     \* the commit at the branch's head
    shipped,  \* rows in the order their builds began
    budget

job == <<life, tries, tested>>
vars == <<row, job, on, pass, poll, head, shipped, budget>>

Rows == 1..N
Commits == 1..MaxHead
Unknown == 0             \* no commit yet: whatever the branch holds
NotReviewed == MaxHead + 1
Waiting == {"awaiting_approval", "awaiting_ci"}
Ended == {"cancelled", "failed", "superseded"}
Active == {"building", "deploying"}
Statuses == {"none", "queued", "running"} \cup Waiting \cup Ended \cup Active

Job == INSTANCE CiJobLife WITH Jobs <- Rows, MaxAttempts <- 1

NoPass == [at |-> "idle", todo |-> {}, frozen |-> FALSE, full |-> FALSE, who |-> 0]

TypeOK ==
    /\ row \in [Rows -> [status : Statuses, sha : Commits \cup {Unknown},
                         reviewed : Commits \cup {Unknown, NotReviewed},
                         gate : {"none", "waiting", "passed", "stale"}]]
    /\ Job!TypeOK
    /\ tested \in [Rows -> Commits \cup {Unknown}]
    /\ on \subseteq GateNames
    /\ pass \in [at : {"idle", "row", "held", "claimed"}, todo : SUBSET Rows,
                 frozen : BOOLEAN, full : BOOLEAN, who : {0} \cup Rows]
    /\ pass.who \in Rows <=> pass.at \in {"held", "claimed"}
    /\ poll \in [Rows -> {"idle", "leased", "pinned"}]
    /\ head \in Commits
    /\ shipped \in Seq(Rows)
    /\ budget \in [{"switch", "expiry", "crash", "aging", "event"} -> Nat]

Init ==
    /\ row = [i \in Rows |-> [status |-> "none", sha |-> Unknown,
                              reviewed |-> NotReviewed, gate |-> "none"]]
    /\ Job!Init /\ tested = [i \in Rows |-> Unknown]
    /\ on \in Gates
    /\ pass = NoPass
    /\ poll = [i \in Rows |-> "idle"]
    /\ head = 1
    /\ shipped = <<>>
    /\ budget = [switch |-> MaxSwitches, expiry |-> MaxExpiries,
                 crash |-> MaxCrashes, aging |-> MaxAgings, event |-> MaxEvents]

-----------------------------------------------------------------------------
(* Helpers                                                                 *)

Spend(kind) ==
    /\ budget[kind] > 0 /\ budget.event > 0
    /\ budget' = [budget EXCEPT ![kind] = @ - 1, !.event = @ - 1]
Quiet == DriverSuspends \/ pass.at = "idle"
StatusOf(i) == row[i].status
To(i, status) == [row EXCEPT ![i].status = status]
SetRow(r) == row' = r
Started == {shipped[k] : k \in DOMAIN shipped}
NewerStarted(i) ==
    \E j \in Rows : j > i /\ (j \in Started \/ StatusOf(j) \in Active \cup {"running", "superseded"})
JobLive(i) == life[i] \in Job!Live
JobPassed(i) == life[i] = "succeeded" /\ tested[i] # Unknown /\ tested[i] = row[i].sha

\* The claim path's questions, in its order.
HeldByFreeze == pass.frozen /\ "freeze" \in on
HeldByRunnerGate(i) == "runner" \in on /\ ~JobPassed(i)
HeldByGithubGate(i) == IF row[i].gate = "none" THEN "github" \in on
                       ELSE row[i].gate # "passed" \/ NewerStarted(i)
HeldByLane(i) == "lane" \in on /\ row[i].reviewed = NotReviewed

\* A review of the branch does not cover a commit found out later.
WithoutReview(r) == IF r.sha = Unknown THEN [r EXCEPT !.reviewed = NotReviewed] ELSE r

\* Fault: rows that wait for CI are left alone.
DropApprovalsOnly(i) ==
    [k \in Rows |-> IF k < i /\ StatusOf(k) = "awaiting_approval"
                    THEN [row[k] EXCEPT !.status = "cancelled"] ELSE row[k]]

\* dropStaleApprovals
DropStale(i) ==
    [k \in Rows |-> IF k < i /\ (StatusOf(k) \in Waiting \/ (StatusOf(k) = "queued" /\ row[k].gate # "none"))
                    THEN [row[k] EXCEPT !.status = "cancelled"] ELSE row[k]]

-----------------------------------------------------------------------------
(* Requests                                                                *)

\* enqueueUserDeploy: of the branch or of a given commit; an admin's deploy
\* into a gated lane is approved by being started.
Enqueue(i) ==
    /\ Quiet /\ StatusOf(i) = "none" /\ \A k \in Rows : k < i => StatusOf(k) # "none"
    /\ \E sha \in {Unknown, head}, admin \in BOOLEAN :
          SetRow([row EXCEPT ![i] = [status |-> "queued", sha |-> sha, gate |-> "none",
                    reviewed |-> IF admin /\ "lane" \in on THEN sha ELSE NotReviewed]])
    /\ UNCHANGED <<job, on, pass, poll, head, shipped, budget>>

\* reviewDeploy
Approve(i) ==
    /\ Quiet /\ StatusOf(i) = "awaiting_approval"
    /\ SetRow([row EXCEPT ![i].status = "queued", ![i].reviewed = row[i].sha])
    /\ UNCHANGED <<job, on, pass, poll, head, shipped, budget>>

Reject(i) ==
    /\ Quiet /\ StatusOf(i) = "awaiting_approval"
    /\ SetRow([row EXCEPT ![i].status = "cancelled", ![i].reviewed = row[i].sha])
    /\ UNCHANGED <<job, on, pass, poll, head, shipped, budget>>

Cancel(i) ==
    /\ Quiet /\ StatusOf(i) \in Waiting \cup Active \cup {"queued"}
    /\ SetRow(To(i, "cancelled"))
    /\ UNCHANGED <<job, on, pass, poll, head, shipped, budget>>

\* An operator turns a gate on or off: a freeze, the lane's approval rule,
\* the pipeline's gateDeploys, the link's required workflows.
Switch(g) ==
    /\ Quiet /\ g \in Switches /\ Spend("switch")
    /\ on' = IF g \in on THEN on \ {g} ELSE on \cup {g}
    /\ UNCHANGED <<row, job, pass, poll, head, shipped>>

\* The end that was set for the freeze passes, also during a pass.
FreezeExpires ==
    /\ "freeze" \in on /\ Spend("expiry")
    /\ on' = on \ {"freeze"}
    /\ UNCHANGED <<row, job, pass, poll, head, shipped>>

HeadMoves == head < MaxHead /\ head' = head + 1 /\ UNCHANGED <<row, job, on, pass, poll, shipped, budget>>

\* A receipt of the GitHub gate is good for FRESH_MS.
ReceiptAges(i) ==
    /\ row[i].gate = "passed" /\ Spend("aging")
    /\ SetRow([row EXCEPT ![i].gate = "stale"])
    /\ UNCHANGED <<job, on, pass, poll, head, shipped>>

-----------------------------------------------------------------------------
(* The worker's pass                                                       *)

Front == Min(pass.todo)
GoOn(todo) == pass' = IF todo = {} THEN NoPass ELSE [pass EXCEPT !.at = "row", !.todo = todo, !.who = 0]
Skip == GoOn(pass.todo \ {Front})

\* The rows are read once; so is whether any freeze is in force, and whether
\* other services take all the build seats of the partition.
PassStart ==
    LET queued == {i \in Rows : StatusOf(i) = "queued"}
    IN /\ pass.at = "idle" /\ queued # {}
       /\ \A i \in Rows : StatusOf(i) \notin Active
       /\ \E full \in BOOLEAN :
             pass' = [at |-> "row", todo |-> queued, frozen |-> "freeze" \in on, full |-> full, who |-> 0]
       /\ UNCHANGED <<row, job, on, poll, head, shipped, budget>>

\* Frozen, no longer queued, or cleared to go without a seat.
SkipRow ==
    /\ pass.at = "row"
    /\ \/ HeldByFreeze
       \/ StatusOf(Front) # "queued"
       \/ ~HeldByRunnerGate(Front) /\ ~HeldByGithubGate(Front) /\ ~HeldByLane(Front) /\ pass.full
    /\ Skip
    /\ UNCHANGED <<row, job, on, poll, head, shipped, budget>>

Considers(i) == pass.at = "row" /\ i = Front /\ ~HeldByFreeze /\ StatusOf(i) = "queued"
Held(i) == pass' = [pass EXCEPT !.at = "held", !.who = i, !.todo = @ \ {i}]

\* createJob: at the deployment's commit, if it has one.
NewJob(i) ==
    /\ \E s \in {"queued", "awaiting_approval"} : life' = [life EXCEPT ![i] = s]
    /\ tries' = [tries EXCEPT ![i] = 0]
    /\ tested' = [tested EXCEPT ![i] = row[i].sha]

\* Fault: the review survives the hold.
KeepReview(i) ==
    /\ Considers(i) /\ HeldByRunnerGate(i)
    /\ IF JobLive(i) THEN UNCHANGED job
       ELSE NewJob(i)
    /\ SetRow([row EXCEPT ![i] = [@ EXCEPT !.status = "awaiting_ci"]])
    /\ Held(i)
    /\ UNCHANGED <<on, poll, head, shipped, budget>>

\* holdForRunnerCiIfNeeded: a new job unless the last one still runs.
HoldForRunnerCi(i) ==
    /\ Considers(i) /\ HeldByRunnerGate(i)
    /\ IF JobLive(i) THEN UNCHANGED job
       ELSE NewJob(i)
    /\ SetRow([row EXCEPT ![i] = WithoutReview([@ EXCEPT !.status = "awaiting_ci"])])
    /\ Held(i)
    /\ UNCHANGED <<on, poll, head, shipped, budget>>

\* holdForCiIfNeeded
HoldForGithubCi(i) ==
    /\ Considers(i) /\ ~HeldByRunnerGate(i) /\ HeldByGithubGate(i)
    /\ IF row[i].gate # "none" /\ NewerStarted(i)
       THEN SetRow(To(i, "cancelled")) /\ Skip
       ELSE /\ SetRow([row EXCEPT ![i] = WithoutReview([@ EXCEPT !.status = "awaiting_ci", !.gate = "waiting"])])
            /\ Held(i)
    /\ UNCHANGED <<job, on, poll, head, shipped, budget>>

\* holdForApprovalIfNeeded
HoldForApproval(i) ==
    /\ Considers(i) /\ ~HeldByRunnerGate(i) /\ ~HeldByGithubGate(i) /\ HeldByLane(i)
    /\ SetRow(To(i, "awaiting_approval"))
    /\ Held(i)
    /\ UNCHANGED <<job, on, poll, head, shipped, budget>>

\* A row that was held replaces the older ones that wait.
DropForHeld ==
    /\ pass.at = "held"
    /\ SetRow(DropStale(pass.who))
    /\ GoOn(pass.todo)
    /\ UNCHANGED <<job, on, poll, head, shipped, budget>>

\* The conditional update queued -> building.
Claim(i) ==
    /\ Considers(i) /\ ~HeldByRunnerGate(i) /\ ~HeldByGithubGate(i) /\ ~HeldByLane(i) /\ ~pass.full
    /\ \A k \in Rows : StatusOf(k) \notin Active
    /\ row[i].gate # "none" => ~NewerStarted(i)
    /\ SetRow(To(i, "building"))
    /\ pass' = [NoPass EXCEPT !.at = "claimed", !.who = i]
    /\ UNCHANGED <<job, on, poll, head, shipped, budget>>

DropForStarted ==
    /\ pass.at = "claimed"
    /\ SetRow(DropStale(pass.who))
    /\ pass' = NoPass
    /\ UNCHANGED <<job, on, poll, head, shipped, budget>>

-----------------------------------------------------------------------------
(* The pipeline, as far as the gates see it                                *)

\* assertCiGateForBuild, assertRunnerCiForBuild: the last guards.
MayBuild(i) ==
    /\ IF row[i].gate = "none" THEN "github" \notin on
       ELSE row[i].gate \in {"passed", "stale"} /\ ~NewerStarted(i)
    /\ "runner" \in on => JobPassed(i)

Build(i) ==
    /\ Quiet /\ StatusOf(i) = "building"
    /\ IF MayBuild(i)
       THEN /\ SetRow([row EXCEPT ![i].status = "deploying",
                                  ![i].sha = IF @ = Unknown THEN head ELSE @])
            /\ shipped' = Append(shipped, i)
       ELSE SetRow(To(i, "failed")) /\ UNCHANGED shipped
    /\ UNCHANGED <<job, on, pass, poll, head, budget>>

Settle(i) ==
    /\ Quiet /\ StatusOf(i) = "deploying"
    /\ \/ SetRow(To(i, "failed"))
       \/ SetRow([k \in Rows |-> IF k = i THEN [row[k] EXCEPT !.status = "running"]
                                 ELSE IF StatusOf(k) = "running" THEN [row[k] EXCEPT !.status = "superseded"]
                                 ELSE row[k]])
    /\ UNCHANGED <<job, on, pass, poll, head, shipped, budget>>

-----------------------------------------------------------------------------
(* CI: jobs, and the two gates' schedulers                                 *)

\* A runner takes the job and pins the commit, its result comes in, an admin
\* approves or cancels it.
JobMoves(i) ==
    /\ Quiet
    /\ \/ Job!Start(i) /\ tested' = [tested EXCEPT ![i] = IF @ = Unknown THEN head ELSE @]
       \/ (Job!Approve(i) \/ Job!Finish(i) \/ Job!Cancel(i)) /\ UNCHANGED tested
    /\ UNCHANGED <<row, on, pass, poll, head, shipped, budget>>

AwaitsRunner(i) == StatusOf(i) = "awaiting_ci" /\ row[i].gate = "none"

\* Fault: a cancelled job decides nothing.
SettleResults(i) ==
    /\ Quiet /\ AwaitsRunner(i) /\ life[i] \in {"succeeded", "failed"}
    /\ SetRow(IF life[i] = "succeeded" THEN [row EXCEPT ![i].status = "queued", ![i].sha = tested[i]]
              ELSE To(i, "failed"))
    /\ UNCHANGED <<job, on, pass, poll, head, shipped, budget>>

\* settleOne: the gate was removed, or the job is over.
SettleRunnerGate(i) ==
    /\ Quiet /\ AwaitsRunner(i)
    /\ IF "runner" \notin on
       THEN /\ SetRow(To(i, "queued"))
            /\ IF JobLive(i) THEN Job!Cancel(i) /\ UNCHANGED tested ELSE UNCHANGED job
       ELSE /\ ~JobLive(i)
            /\ SetRow(IF life[i] = "succeeded" /\ tested[i] # Unknown /\ row[i].sha \in {Unknown, tested[i]}
                      THEN [row EXCEPT ![i].status = "queued", ![i].sha = tested[i]]
                      ELSE To(i, "failed"))
            /\ UNCHANGED job
    /\ UNCHANGED <<on, pass, poll, head, shipped, budget>>

\* Fault: only a failed deployment's job is stopped.
StopFailedJob(i) ==
    /\ Quiet /\ StatusOf(i) = "failed"
    /\ Job!Cancel(i)
    /\ UNCHANGED <<row, tested, on, pass, poll, head, shipped, budget>>

\* settleRunnerCiGates: a job whose deployment ended is stopped.
StopOrphan(i) ==
    /\ Quiet /\ StatusOf(i) \in Ended
    /\ Job!Cancel(i)
    /\ UNCHANGED <<row, tested, on, pass, poll, head, shipped, budget>>

\* checkOne: the lease, the pin, the verdict; each a conditional update.
PollLease(i) ==
    /\ Quiet /\ poll[i] = "idle" /\ StatusOf(i) = "awaiting_ci" /\ row[i].gate # "none"
    /\ poll' = [poll EXCEPT ![i] = "leased"]
    /\ UNCHANGED <<row, job, on, pass, head, shipped, budget>>

PollPin(i) ==
    /\ Quiet /\ poll[i] = "leased"
    /\ IF StatusOf(i) = "awaiting_ci"
       THEN /\ SetRow([row EXCEPT ![i].sha = IF @ = Unknown THEN head ELSE @])
            /\ poll' = [poll EXCEPT ![i] = "pinned"]
       ELSE poll' = [poll EXCEPT ![i] = "idle"] /\ UNCHANGED row
    /\ UNCHANGED <<job, on, pass, head, shipped, budget>>

\* The workflows passed, or did not, or GitHub cannot tell (any step).
PollVerdict(i) ==
    /\ Quiet /\ poll[i] = "pinned"
    /\ IF StatusOf(i) = "awaiting_ci"
       THEN \/ SetRow(IF NewerStarted(i) THEN To(i, "cancelled")
                      ELSE [row EXCEPT ![i].status = "queued", ![i].gate = "passed"])
            \/ SetRow(To(i, "failed"))
       ELSE UNCHANGED row
    /\ poll' = [poll EXCEPT ![i] = "idle"]
    /\ UNCHANGED <<job, on, pass, head, shipped, budget>>

PollGivesUp(i) ==
    /\ poll[i] # "idle"
    /\ poll' = [poll EXCEPT ![i] = "idle"]
    /\ UNCHANGED <<row, job, on, pass, head, shipped, budget>>

-----------------------------------------------------------------------------

\* The panel restarts: what was being built fails.  A pass may have stopped
\* between the job it created and the row it was about to hold.
Crash ==
    /\ Spend("crash")
    /\ pass' = NoPass /\ poll' = [i \in Rows |-> "idle"]
    /\ SetRow([i \in Rows |-> IF StatusOf(i) \in Active THEN [row[i] EXCEPT !.status = "failed"] ELSE row[i]])
    /\ \/ UNCHANGED job
       \/ \E i \in pass.todo : Considers(i) /\ HeldByRunnerGate(i) /\ ~JobLive(i) /\ NewJob(i)
    /\ UNCHANGED <<on, head, shipped>>

Pass == \/ PassStart \/ SkipRow \/ DropForHeld \/ DropForStarted
        \/ \E i \in pass.todo : \/ HoldForRunnerCi(i) \/ HoldForGithubCi(i)
                                \/ HoldForApproval(i) \/ Claim(i)

Next ==
    \/ Pass
    \/ \E i \in Rows : \/ Enqueue(i) \/ Approve(i) \/ Reject(i) \/ Cancel(i) \/ ReceiptAges(i)
                       \/ Build(i) \/ Settle(i)
                       \/ JobMoves(i) \/ SettleRunnerGate(i) \/ StopOrphan(i)
                       \/ PollLease(i) \/ PollPin(i) \/ PollVerdict(i) \/ PollGivesUp(i)
    \/ \E g \in Switches : Switch(g)
    \/ FreezeExpires \/ HeadMoves \/ Crash

Spec == Init /\ [][Next]_vars

\* The schedulers run every two seconds, also between two passes, and GitHub's
\* verdict comes in: if nothing else, the gate's deadline.  No runner has to be there.
Decide(i) == SettleRunnerGate(i) \/ StopOrphan(i)

FairSpec ==
    /\ Spec /\ WF_vars(Pass) /\ SF_vars(\E i \in Rows : Decide(i))
    /\ SF_vars(\E i \in Rows : PollLease(i)) /\ SF_vars(\E i \in Rows : PollPin(i))
    /\ SF_vars(\E i \in Rows : PollVerdict(i))

-----------------------------------------------------------------------------
(* Properties                                                              *)

Unspent(kinds) ==
    \A k \in kinds : budget[k] = CASE k = "switch" -> MaxSwitches [] k = "expiry" -> MaxExpiries
                                   [] OTHER -> MaxCrashes

\* "when a deploy of the service starts, its older waiting deploys are
\* dropped, so approving never ships older code" (docs/DEPLOYMENTS.md:575):
\* builds begin in the order of the queue, whatever waited in between and
\* whatever gates came and went, unless a freeze ended in the middle of a pass
\* (deployFreeze.ts:150 reads the clock for every row).
ShipsInOrder ==
    Unspent({"expiry"}) => \A p, q \in DOMAIN shipped : p < q => shipped[p] < shipped[q]

\* "Each service has at most one waiting deploy" (docs/DEPLOYMENTS.md:575),
\* while the gates stay what they are and no restart cuts a pass short.
OneWaiting ==
    pass.at = "idle" /\ Unspent({"switch", "expiry", "crash"})
        => Cardinality({i \in Rows : StatusOf(i) \in Waiting}) <= 1

\* The two promises of docs/DEPLOYMENTS.md:575 together, which dropStaleApprovals
\* keeps from two places: of a service only the newest deployment waits, and what
\* waited is never built after something newer.
OnlyNewestWaits == ShipsInOrder /\ OneWaiting

\* "An approval given for \"the branch\" cannot approve a commit the job pins
\* later" (ciDeployGate.ts:73): a build behind a CI gate was reviewed, if at
\* all, at the commit that is built.
ReviewCoversCommit ==
    [][\A i \in Rows : (row'[i].status = "deploying" /\ StatusOf(i) = "building"
                         /\ (row[i].gate # "none" \/ "runner" \in on))
           => row[i].reviewed \in {NotReviewed, row'[i].sha}]_vars

\* "When the job fails or is cancelled, the deploy fails" (docs/CI_RUNNERS.md:
\* 117): a job that failed is never followed by another for the deployment,
\* unless somebody switched a gate or a restart came between a job and the hold
\* of its row.
FailedJobIsFinal ==
    [][Unspent({"switch", "crash"}) => \A i \in Rows : life[i] = "failed" => life'[i] = "failed"]_vars

\* A deployment does not get around what was decided about it, by going through
\* the claim path again: neither a review of another commit nor a failed job
\* lets it build.
VerdictsBind == ReviewCoversCommit /\ FailedJobIsFinal

\* "Cancelling a waiting deploy, or replacing it with a newer one, cancels its
\* job" (docs/CI_RUNNERS.md:121): no job stays live for ever beside a deployment
\* that ended.
OrphanStopped == \A i \in Rows : []<>~(StatusOf(i) \in Ended /\ JobLive(i))

\* No deployment stays in awaiting_ci for ever with its job over, or for GitHub's
\* verdict, whatever gates it passes through: settleRunnerCiGates and the GitHub
\* check move it on.
CiWaitEnds ==
    \A i \in Rows : []<>~(StatusOf(i) = "awaiting_ci" /\ (AwaitsRunner(i) => ~JobLive(i)))
=============================================================================
