----------------------- MODULE DeployTransitionProofs -----------------------
(***************************************************************************)
(* Proofs about DeployTransition for every number of deployments, and      *)
(* every number of cancels, requests, crashes, faults and failed writes,   *)
(* with and without host ports, and with either driver.                    *)
(***************************************************************************)
EXTENDS DeployTransition, TLAPS

\* A pipeline runs, a transition is journaled, its lease is the pipeline's.
Busy == run.at # "idle"
Open == journal.dep # None
Owned == journal.owner = "run"

Building == {"building", "handed", "started"}
Unwinding == {"unwind", "discarding", "reviving", "settling"}
Before == {"opening", "verifying", "ready"}
Routing == {"flip", "ack", "routed", "restoring", "reverting"}
Late == {"lateCancel", "lateSettle"}
Retirement == {"retire", "removing"}
Forward == {"first", "second"}

-----------------------------------------------------------------------------
(* The inductive invariant                                                 *)

\* Deployments are claimed in order, one at a time, and a container is one's
\* that was claimed.
InOrder ==
    /\ \A d, e \in Deployments : e < d /\ row[d] # "waiting" => row[e] # "waiting"
    /\ \A c \in Deployments : box[c] # "absent" => row[c] # "waiting"
    /\ Busy => \A e \in Deployments : row[e] \in Active => e = run.dep
    /\ Open => \A e \in Deployments : row[e] \in Active => e = journal.dep

\* A journal is one transition's, between two generations; while its pipeline
\* lives, it was not interrupted.
Journaled ==
    /\ ~Open => journal = NoJournal
    /\ Open => journal.prev # journal.dep /\ row[journal.dep] # "waiting"
    /\ Open /\ Busy => journal.dep = run.dep /\ journal.prev = run.prev /\ ~journal.interrupted
    /\ Owned => Open /\ Busy /\ (run.leased \/ run.at = "opening")
    /\ journal.owner = "recovery" => Open /\ rec.at # "idle"
    /\ rec.at # "idle" => Open /\ ~Owned

\* What each stage of the pipeline has.
Staged ==
    /\ ~Busy => run = IdleRun
    /\ Busy => run.dep # None /\ run.prev # run.dep /\ row[run.dep] # "waiting"
    /\ run.cand \in {None, run.dep}
    /\ run.at \in {"building", "handed"} => run.cand = None
    /\ run.at \in {"started", "opening", "discarding"} \/ run.leased \/ run.retain
          => run.cand = run.dep
    /\ run.at \in Building => ~Open
    /\ run.at \in Building \cup {"opening"} => ~run.leased /\ ~run.retain
    /\ run.at \notin Building \cup Unwinding \cup {"idle", "opening", "exiting"} => run.leased
    /\ run.retain => ~run.leased /\ run.at # "discarding"
    /\ ~run.leased => run.belief = NoBelief
    /\ ~run.leased /\ ~run.retain /\ Open /\ Busy => run.at = "opening"
    /\ run.then = "lateCancel" => run.at \in Late \cup Retirement \cup {"exiting"}
    /\ run.at \in Late => run.then = "lateCancel"
    /\ run.at \in Building \cup Before \cup {"finalized"} => run.flip = "first"
    /\ run.at \in Retirement => run.victim \in {run.prev, run.dep} \ {None}

\* What the journal says at each stage of the pipeline that has its lease.
Phased ==
    Owned => /\ run.at \in Before => journal.phase = "ready" /\ ~journal.touched
             /\ run.at \in Unwinding => ~journal.touched
             /\ run.at \in Routing \cup {"finalized", "retire"}
                   => journal.phase = "routing" /\ journal.touched
             /\ run.at \in Late \cup {"removing"} => journal.touched

\* Which generation the service row names.
Named ==
    /\ Open => svc.runtime \in {journal.prev, journal.dep}
    /\ journal.phase = "retiring" => journal.desired = svc.runtime
    /\ Busy /\ ~run.leased => svc.runtime = run.prev
    /\ Owned => /\ run.at \in Before \cup Unwinding \cup Late \cup {"finalized"}
                      => svc.runtime = run.prev
                /\ run.at \in Retirement /\ run.then = "lateCancel" => svc.runtime = run.prev
                /\ run.at \in {"routed", "restoring", "reverting"} => svc.runtime = run.dep
                /\ run.at \in {"flip", "ack"}
                      => svc.runtime = IF run.flip \in Forward THEN run.dep ELSE run.prev

\* Both generations are kept until one is retired.
Exists(c) == c # None => box[c] # "absent"
BothKept ==
    Owned /\ run.at \in Before \cup Routing \cup {"finalized"}
        => Exists(run.dep) /\ (run.flip # "revert" => Exists(run.prev))

\* What is about to be removed is neither named nor routed, nor will it be.
Aside(c) == /\ c \notin {None, svc.runtime, proxy.file, proxy.loaded}
            /\ Open => journal.phase = "retiring"
Removing ==
    /\ run.at = "removing" => Aside(run.victim)
    /\ run.at = "discarding" => Aside(run.cand)

Routes(c) == proxy.file = c /\ proxy.loaded = c

\* What the pipeline believes of the proxy is so.
Believed ==
    /\ run.at = "reverting" => run.flip = "second"
    /\ Owned => /\ run.at \in Before \cup {"finalized"} => run.belief = NoBelief
                /\ run.at \in {"flip", "ack", "reverting"} /\ run.flip # "restore"
                      => run.belief = NoBelief
                /\ run.at = "ack" => run.seen.runtime = svc.runtime /\ proxy.file = svc.runtime
                /\ run.at \in {"routed", "restoring"} => run.belief.runtime = run.dep
                /\ run.belief # NoBelief /\ run.belief.runtime = svc.runtime
                      => Routes(svc.runtime)

\* Without a transition, or before it touched the routes, they are the service's;
\* so they are once the recovery has confirmed them.
Routed ==
    /\ ~Open \/ (Owned /\ ~journal.touched)
          => Routes(svc.runtime)
    /\ rec.at \in {"ack", "draining", "removing", "completing"} => proxy.file = svc.runtime
    /\ rec.at \in {"draining", "removing", "completing"} => proxy.loaded = svc.runtime
    /\ rec.at \in {"removing", "completing"} => journal.phase = "retiring"

\* A container that was stopped is not a deployment's in progress.
Over(c) == c # None => row[c] \notin Active \cup {"waiting"}
Stopped ==
    /\ \A c \in Deployments : box[c] = "exited" => Over(c)
    /\ req.kind = "stop" => Over(req.target)

Inv == /\ TypeOK /\ InOrder /\ Journaled /\ Staged /\ Phased /\ Named /\ BothKept /\ Removing
       /\ Believed /\ Routed /\ Stopped /\ ServingExists

-----------------------------------------------------------------------------
(* The types, and what a step does to each part of the state               *)

\* The fields of a pipeline but its stage and its flags.
SameOne(r, s) == r.dep = s.dep /\ r.prev = s.prev
SameHold(r, s) == r.cand = s.cand /\ r.leased = s.leased /\ r.retain = s.retain
SameAim(r, s) == r.victim = s.victim /\ r.then = s.then
SameFlip(r, s) == r.flip = s.flip /\ r.seen = s.seen /\ r.belief = s.belief
Alike(r, s) == SameOne(r, s) /\ SameHold(r, s) /\ SameAim(r, s) /\ SameFlip(r, s)
Moves(s) == run'.at = s /\ Alike(run', run) /\ run' \in Pipelines

\* A step that only goes on to the next stage keeps the rest of the record.
LEMMA GotoMoves == ASSUME TypeOK, NEW s \in RunStages, Goto(s) PROVE Moves(s)
BY DEF TypeOK, Pipelines, Goto, Moves, Alike, SameOne, SameHold, SameAim,
       SameFlip

\* Ids, None, and the records that stand for nothing.
LEMMA Constants ==
    /\ Deployments \subseteq Nat /\ None \notin Deployments /\ None \in Runtimes
    /\ NoBelief \in Beliefs /\ NoBelief \notin Services
    /\ IdleRun \in Pipelines /\ IdleRec \in Recoveries /\ NoJournal \in Journals
    /\ NoRequest \in Requests
<1>1. Deployments \subseteq Nat /\ None \notin Deployments /\ None \in Runtimes
  BY DeploymentsAssumption DEF Runtimes
<1>2. NoBelief \in Beliefs /\ NoBelief \notin Services
  BY DEF Beliefs, NoBelief, Services, ServiceStates
<1>3. IdleRun \in Pipelines
  BY <1>1, <1>2 DEF IdleRun, Pipelines, RunStages, Flips
<1>4. IdleRec \in Recoveries /\ NoJournal \in Journals /\ NoRequest \in Requests
  BY <1>1, <1>2 DEF IdleRec, Recoveries, RecStages, RowStates, NoJournal, Journals, NoRequest,
                    Requests, ServiceStates
<1> QED
  BY <1>1, <1>2, <1>3, <1>4

\* The fields of the records, typed.
LEMMA Types ==
    ASSUME TypeOK
    PROVE  /\ run.dep \in Runtimes /\ run.prev \in Runtimes /\ run.cand \in Runtimes
           /\ run.victim \in Runtimes /\ run.at \in RunStages
           /\ journal.dep \in Runtimes /\ journal.prev \in Runtimes /\ journal.desired \in Runtimes
           /\ svc.runtime \in Runtimes /\ svc.status \in ServiceStates
           /\ proxy.file \in Runtimes /\ proxy.loaded \in Runtimes
           /\ rec.at \in RecStages /\ rec.job \in RowStates /\ req.target \in Runtimes
BY DEF TypeOK, Pipelines, Journals, Services, Recoveries, Requests

\* Spending keeps the budgets, and never refills one.
LEMMA Spending ==
    ASSUME TypeOK, NEW k \in Kinds, Spend(k) \/ UNCHANGED budget
    PROVE  budget' \in [Kinds -> Nat] /\ \A j \in Kinds : budget'[j] <= budget[j]
BY DEF TypeOK, Spend

\* The lease is held exactly as long as the journal says so.
LEMMA HeldIsOwned ==
    Inv => /\ Held("run") <=> Owned
           /\ Held("recovery") <=> journal.owner = "recovery"
BY DEF Inv, Named, Journaled, Held, Owned

\* The generations that are known by name, and the records that are none.
LEMMA Ids ==
    ASSUME Inv
    PROVE  /\ Busy => run.dep \in Deployments
           /\ Open => journal.dep \in Deployments
           /\ run.prev \in Deployments \cup {None} /\ svc.runtime \in Deployments \cup {None}
           /\ req.target \in Deployments \cup {None} /\ None \notin Deployments
           /\ run.then \in {"exiting", "lateCancel"} /\ svc # NoBelief
<1>1. TypeOK /\ run.then \in {"exiting", "lateCancel"} /\ svc \in Services
  BY DEF Inv, TypeOK, Pipelines
<1> QED  BY <1>1, Types, Constants DEF Inv, Staged, Journaled, Open, Runtimes

\* What each step of the pipeline makes of its record.
LEMMA ClaimMoves ==
    ASSUME TypeOK, NEW d \in Deployments, Claim(d)
    PROVE  /\ run' \in Pipelines /\ run'.at = "building" /\ run'.dep = d /\ run'.prev = svc.runtime
           /\ SameHold(run', IdleRun) /\ SameAim(run', IdleRun) /\ SameFlip(run', IdleRun)
<1>1. run' = [IdleRun EXCEPT !.at = "building", !.dep = d, !.prev = svc.runtime]
  BY DEF Claim
<1>2. IdleRun \in Pipelines /\ d \in Runtimes /\ svc.runtime \in Runtimes
  BY Constants, Types DEF Runtimes
<1> QED  BY <1>1, <1>2 DEF Pipelines, RunStages, SameHold, SameAim, SameFlip

\* The candidate is the run's own container.
LEMMA StartMoves ==
    ASSUME TypeOK, StartCandidate
    PROVE  /\ run' \in Pipelines /\ run'.at = "started" /\ run'.cand = run.dep
           /\ run'.leased = run.leased /\ run'.retain = run.retain
           /\ SameOne(run', run) /\ SameAim(run', run) /\ SameFlip(run', run)
BY DEF TypeOK, Pipelines, RunStages, StartCandidate, SameOne, SameAim, SameFlip

\* captureIdentities succeeds: the pipeline has its lease.
LEMMA CaptureMoves ==
    ASSUME TypeOK, CaptureIdentities
    PROVE  /\ run' \in Pipelines /\ run'.at = "verifying" /\ run'.leased
           /\ run'.cand = run.cand /\ run'.retain = run.retain
           /\ SameOne(run', run) /\ SameAim(run', run) /\ SameFlip(run', run)
<1>1. run \in Pipelines /\ run' = [run EXCEPT !.at = "verifying", !.leased = TRUE]
  BY DEF TypeOK, CaptureIdentities
<1> QED  BY <1>1 DEF Pipelines, RunStages, SameOne, SameAim, SameFlip

\* captureIdentities fails: the pipeline retains whatever there is.
LEMMA CaptureFailsMoves ==
    ASSUME TypeOK, CaptureFails
    PROVE  /\ run' \in Pipelines /\ run'.at = "unwind" /\ run'.retain
           /\ run'.cand = run.cand /\ run'.leased = run.leased
           /\ SameOne(run', run) /\ SameAim(run', run) /\ SameFlip(run', run)
<1>1. run \in Pipelines /\ run' = [run EXCEPT !.at = "unwind", !.retain = TRUE]
  BY DEF TypeOK, CaptureFails
<1> QED  BY <1>1 DEF Pipelines, RunStages, SameOne, SameAim, SameFlip

\* The finalize goes on to the routing, or to the retirement of a cancelled candidate.
LEMMA FinalizeMoves ==
    ASSUME TypeOK, Finalize
    PROVE  \/ Moves("finalized") /\ row[run.dep] = "building"
           \/ /\ run' \in Pipelines /\ run'.at = "retire" /\ run'.victim = run.dep
              /\ run'.then = "lateCancel" /\ row[run.dep] # "building"
              /\ SameOne(run', run) /\ SameHold(run', run) /\ SameFlip(run', run)
<1>1. CASE row[run.dep] = "building"
  BY <1>1, GotoMoves DEF Finalize, RunStages
<1>2. CASE row[run.dep] # "building"
  <2>1. run \in Pipelines /\ run' = [run EXCEPT !.at = "retire", !.victim = run.dep,
                                             !.then = "lateCancel"]
    BY <1>2 DEF TypeOK, Finalize
  <2> QED  BY <1>2, <2>1 DEF Pipelines, RunStages, SameOne, SameHold, SameFlip
<1> QED  BY <1>1, <1>2

\* The service row is taken over, or the candidate of a stopped service retired.
LEMMA PersistMoves ==
    ASSUME TypeOK, Persist
    PROVE  \/ Moves("flip") /\ svc.status # "stopped"
           \/ /\ run' \in Pipelines /\ run'.at = "retire" /\ run'.victim = run.dep
              /\ run'.then = run.then /\ svc.status = "stopped"
              /\ SameOne(run', run) /\ SameHold(run', run) /\ SameFlip(run', run)
<1>1. CASE svc.status # "stopped"
  BY <1>1, GotoMoves DEF Persist, RunStages, Goto
<1>2. CASE svc.status = "stopped"
  BY <1>2 DEF TypeOK, Pipelines, RunStages, Persist, SameOne, SameHold, SameFlip
<1> QED  BY <1>1, <1>2

\* A written file is waited for, as the service row it was rendered from.
LEMMA FlipWriteMoves ==
    ASSUME TypeOK, FlipWrite
    PROVE  /\ run' \in Pipelines /\ run'.at = "ack" /\ run'.seen = svc /\ run'.flip = run.flip
           /\ run'.belief = run.belief
           /\ SameOne(run', run) /\ SameHold(run', run) /\ SameAim(run', run)
BY DEF TypeOK, Pipelines, RunStages, FlipWrite, SameOne, SameHold, SameAim, Beliefs

\* A failed flip: the second attempt, the rollback, the end.
LEMMA FlipFailedMoves ==
    ASSUME TypeOK, NEW u \in BOOLEAN, FlipFailed(u)
    PROVE  /\ run' \in Pipelines
           /\ \/ run.flip = "first" /\ run'.at = "flip" /\ run'.flip = "second"
              \/ run.flip = "second" /\ run'.at = "reverting" /\ run'.flip = "second"
              \/ run.flip \notin Forward /\ run'.at = "exiting" /\ run'.flip = run.flip
           /\ run'.belief = run.belief
           /\ SameOne(run', run) /\ SameHold(run', run) /\ SameAim(run', run)
<1>1. run \in Pipelines /\ run.flip \in Flips /\ NoBelief \in Beliefs
  BY Constants DEF TypeOK, Pipelines
<1>2. PICK s, f, v : /\ \/ run.flip = "first" /\ s = "flip" /\ f = "second"
                        \/ run.flip = "second" /\ s = "reverting" /\ f = "second"
                        \/ run.flip \notin Forward /\ s = "exiting" /\ f = run.flip
                     /\ v \in BOOLEAN
                     /\ run' = [run EXCEPT !.at = s, !.flip = f, !.uncertain = v, !.seen = NoBelief]
  <2>1. run.uncertain \/ u \in BOOLEAN
    BY <1>1 DEF Pipelines
  <2> QED  BY <2>1 DEF FlipFailed, Forward
<1>3. s \in RunStages /\ f \in Flips
  BY <1>1, <1>2 DEF RunStages, Flips
<1>4. /\ run' \in Pipelines /\ run'.at = s /\ run'.flip = f /\ run'.belief = run.belief
      /\ SameOne(run', run) /\ SameHold(run', run) /\ SameAim(run', run)
  BY <1>1, <1>2, <1>3 DEF Pipelines, SameOne, SameHold, SameAim
<1> QED  BY <1>2, <1>4

\* An acknowledged flip counts if the service row is still the one it showed.
LEMMA FlipAckMoves ==
    ASSUME TypeOK, FlipAck
    PROVE  \/ svc # run.seen /\ FlipFailed(FALSE)
           \/ /\ svc = run.seen /\ run' \in Pipelines /\ run'.belief = svc /\ run'.flip = run.flip
              /\ \/ run.flip \in Forward /\ run'.at = "routed"
                 \/ run.flip \notin Forward /\ run'.at = "retire" /\ run'.victim = run.dep
              /\ run'.then = run.then /\ SameOne(run', run) /\ SameHold(run', run)
<1>1. CASE svc # run.seen
  BY <1>1 DEF FlipAck
<1>2. run \in Pipelines /\ svc \in Beliefs /\ NoBelief \in Beliefs
  BY Constants DEF TypeOK, Beliefs
<1>3. CASE svc = run.seen /\ run.flip \in Forward
  <2>1. run' = [run EXCEPT !.at = "routed", !.victim = run.victim, !.seen = NoBelief, !.belief = svc]
    BY <1>3 DEF FlipAck, Forward
  <2> QED  BY <1>2, <1>3, <2>1 DEF Pipelines, RunStages, SameOne, SameHold
<1>4. CASE svc = run.seen /\ run.flip \notin Forward
  <2>1. run' = [run EXCEPT !.at = "retire", !.victim = run.dep, !.seen = NoBelief, !.belief = svc]
    BY <1>4 DEF FlipAck, Forward
  <2> QED  BY <1>2, <1>4, <2>1 DEF Pipelines, RunStages, SameOne, SameHold
<1> QED  BY <1>1, <1>3, <1>4

\* The rollback names the previous release, or leaves a row that changed hands.
LEMMA RevertMoves ==
    ASSUME TypeOK, Revert
    PROVE  /\ run' \in Pipelines /\ run'.victim = run.dep /\ run'.flip = "revert"
           /\ \/ svc' = svc /\ run'.at = "exiting"
              \/ /\ run'.at \in {"flip", "retire"} /\ svc'.runtime = run.prev
                 /\ svc'.status \in {"error", "running"} /\ svc.status = "running"
                 /\ svc' \in Services
           /\ run'.then = run.then /\ run'.seen = run.seen /\ run'.belief = run.belief
           /\ SameOne(run', run) /\ SameHold(run', run)
<1> DEFINE owned == svc = [status |-> "running", runtime |-> run.dep]
           stays == ~owned \/ (run.prev = None /\ run.uncertain)
           next == IF stays THEN "exiting" ELSE IF run.uncertain THEN "flip" ELSE "retire"
<1>1. run \in Pipelines /\ run' = [run EXCEPT !.at = next, !.victim = run.dep, !.flip = "revert"]
  BY DEF TypeOK, Revert
<1>2. next \in RunStages
  BY DEF RunStages
<1>3. IF stays THEN svc' = svc /\ next = "exiting"
      ELSE /\ svc' = [status |-> IF run.prev = None THEN "error" ELSE "running",
                      runtime |-> run.prev]
           /\ next \in {"flip", "retire"} /\ owned
  BY DEF Revert
<1>4. ~stays => svc'.runtime = run.prev /\ svc'.status \in {"error", "running"} /\ svc' \in Services
  BY <1>3, Types DEF Services, ServiceStates
<1>5. owned => svc.status = "running"
  OBVIOUS
<1> HIDE DEF owned, stays, next
<1>6. /\ run' \in Pipelines /\ run'.victim = run.dep /\ run'.flip = "revert" /\ run'.at = next
      /\ run'.then = run.then /\ run'.seen = run.seen /\ run'.belief = run.belief
      /\ SameOne(run', run) /\ SameHold(run', run)
  BY <1>1, <1>2 DEF Pipelines, Flips, SameOne, SameHold
<1> QED
  BY <1>3, <1>4, <1>5, <1>6

\* The success write decides which generation is retired.
LEMMA PromoteMoves ==
    ASSUME TypeOK, Promote
    PROVE  /\ run' \in Pipelines
           /\ \/ run'.at = "restoring"
              \/ run'.at = "exiting" /\ run.prev = None
              \/ run'.at = "retire" /\ run'.victim = run.prev /\ run.prev # None
           /\ run'.then = run.then
           /\ SameOne(run', run) /\ SameHold(run', run) /\ SameFlip(run', run)
<1> DEFINE won == row[run.dep] = "deploying" /\ svc = [status |-> "running", runtime |-> run.dep]
           next == IF ~won THEN "restoring" ELSE IF run.prev = None THEN "exiting" ELSE "retire"
           aim == IF won THEN run.prev ELSE run.victim
<1>1. run \in Pipelines /\ run' = [run EXCEPT !.at = next, !.victim = aim]
  BY DEF TypeOK, Promote
<1>2. next \in RunStages /\ aim \in Runtimes
  BY Types DEF RunStages
<1>3. \/ next = "restoring"
      \/ next = "exiting" /\ run.prev = None
      \/ next = "retire" /\ aim = run.prev /\ run.prev # None
  OBVIOUS
<1> HIDE DEF won, next, aim
<1>4. /\ run' \in Pipelines /\ run'.victim = aim /\ run'.at = next /\ run'.then = run.then
      /\ SameOne(run', run) /\ SameHold(run', run) /\ SameFlip(run', run)
  BY <1>1, <1>2 DEF Pipelines, SameOne, SameHold, SameFlip
<1> QED
  BY <1>3, <1>4

\* A cancel during the transition routes the previous release again.
LEMMA RestoreMoves ==
    ASSUME TypeOK, Restore
    PROVE  \/ Moves("exiting") /\ svc' = svc
           \/ /\ run' \in Pipelines /\ run'.at = "flip" /\ run'.flip = "restore" /\ Up(run.prev)
              /\ svc'.status = "running" /\ svc'.runtime = run.prev /\ UNCHANGED budget
              /\ run'.seen = run.seen /\ run'.belief = run.belief
              /\ SameOne(run', run) /\ SameHold(run', run) /\ SameAim(run', run)
<1>1. CASE Goto("exiting") /\ UNCHANGED svc
  BY <1>1, GotoMoves DEF RunStages
<1>2. CASE /\ Up(run.prev) /\ svc' = [status |-> "running", runtime |-> run.prev]
           /\ UNCHANGED budget
           /\ run' = [run EXCEPT !.at = "flip", !.flip = "restore"]
  BY <1>2 DEF TypeOK, Pipelines, RunStages, Flips, SameOne, SameHold, SameAim
<1> QED  BY <1>1, <1>2, Zenon DEF Restore

\* The unwinding discards the candidate or spares it.
LEMMA UnwindMoves == ASSUME TypeOK, Unwind PROVE Moves("reviving") \/ Moves("discarding")
<1>1. PICK s \in {"reviving", "discarding"}, b \in BOOLEAN :
         run' = [run EXCEPT !.at = s, !.cancelled = b]
  BY Zenon DEF Unwind
<1>2. run \in Pipelines /\ s \in RunStages
  BY DEF TypeOK, RunStages
<1>3. Moves(s)
  BY <1>1, <1>2 DEF Pipelines, Moves, Alike, SameOne, SameHold, SameAim, SameFlip
<1> QED  BY <1>3

\* Cancelling one in progress only marks it.
LEMMA CancelMoves ==
    ASSUME TypeOK, NEW d \in Deployments, Cancel(d) PROVE Moves(run.at)
BY DEF TypeOK, Pipelines, Cancel, Aborted, Moves, Alike, SameOne, SameHold, SameAim, SameFlip

\* The steps of the pipeline that only change its stage.
LEMMA PlainMoves ==
    ASSUME TypeOK
    PROVE  /\ HandPorts => Moves("handed")
           /\ BuildFails \/ ProbeFails => Moves("unwind")
           /\ OpenJournal => Moves("opening")
           /\ Verify => Moves("ready")
           /\ Retire => \/ Moves("removing") /\ Held("run") /\ MayRetire(run.victim, run.belief)
                           /\ journal' = Retiring
                        \/ Moves(run.then) /\ journal' = journal
           /\ Remove => Moves(run.then)
           /\ Discard => Moves("reviving")
           /\ Revive => Moves("settling")
           /\ SettleFailure \/ LateSettle => Moves("exiting")
           /\ LateCancel => Moves("lateSettle")
<1>1. {"handed", "unwind", "opening", "ready", "removing", "reviving", "settling", "exiting",
       "lateSettle", "lateCancel"} \subseteq RunStages /\ run.then \in {"exiting", "lateCancel"}
  BY DEF RunStages, TypeOK, Pipelines
<1>2. run.then \in RunStages
  BY <1>1
<1> QED
  BY <1>1, <1>2, GotoMoves, Zenon
     DEF HandPorts, BuildFails, ProbeFails, OpenJournal, Verify, Retire, Remove, Discard, Revive,
         SettleFailure, LateSettle, LateCancel

-----------------------------------------------------------------------------
(* The journal                                                             *)

SameTransition == UNCHANGED <<journal.dep, journal.prev, journal.interrupted>>
SameRoute == UNCHANGED <<journal.phase, journal.touched, journal.desired>>

\* The retirement is committed to what the service row names.
Commits == /\ journal' \in Journals /\ SameTransition /\ journal'.owner = journal.owner
           /\ journal'.phase = "retiring" /\ journal'.desired = svc.runtime
           /\ journal'.touched = journal.touched

\* The journal of a retirement names the generation of the service row.
LEMMA RetiringCommits == ASSUME TypeOK, journal' = Retiring PROVE Commits
BY DEF TypeOK, Journals, Services, Retiring, Commits, SameTransition

\* The lease is handed over, or over.
Passes(o) == journal' \in Journals /\ SameTransition /\ SameRoute /\ journal'.owner = o

\* Giving a lease away changes nothing else in the journal.
LEMMA OwnerPasses ==
    ASSUME TypeOK, NEW o \in {"nobody", "run", "recovery"}, journal' = [journal EXCEPT !.owner = o]
    PROVE  Passes(o)
BY DEF TypeOK, Journals, Passes, SameTransition, SameRoute

\* The journal of a service without a transition.
LEMMA NoJournalIs ==
    /\ NoJournal.dep = None /\ NoJournal.prev = None /\ NoJournal.phase = "ready"
    /\ ~NoJournal.touched /\ NoJournal.owner = "nobody" /\ NoJournal \in Journals
    /\ ~NoJournal.interrupted
BY Constants DEF NoJournal

\* What each step that writes the journal makes of it.
LEMMA JournalMoves ==
    ASSUME TypeOK
    PROVE  /\ OpenJournal => /\ journal' \in Journals /\ journal'.dep = run.dep
                             /\ journal'.prev = run.prev /\ journal'.phase = "ready"
                             /\ ~journal'.touched /\ ~journal'.interrupted /\ journal'.owner = "run"
           /\ Finalize => /\ journal' \in Journals /\ SameTransition /\ journal'.phase = "routing"
                          /\ journal'.touched /\ journal'.owner = journal.owner
           /\ Retire => Commits \/ journal' = journal
           /\ Unwind => Commits \/ journal' = journal
           /\ RecDrain => Commits
           /\ CaptureFails => \/ journal.owner = "run" /\ Passes("nobody")
                              \/ journal.owner # "run" /\ journal' = journal
           /\ RecHold => \/ journal.owner = "recovery" /\ Passes("nobody")
                         \/ journal.owner # "recovery" /\ journal' = journal
           /\ Exit => \/ journal' = journal /\ (~run.leased \/ journal.owner # "run")
                      \/ run.leased /\ Held("run") /\ MayComplete(run.belief) /\ journal' = NoJournal
                      \/ run.leased /\ journal.owner = "run" /\ Passes("nobody")
           /\ RecClaim => Passes("recovery")
           /\ RecSelect => \/ journal' = journal /\ rec'.at = "flip"
                           \/ Passes("nobody") /\ rec' = IdleRec /\ svc' = svc
           /\ RecComplete => journal' = NoJournal
           /\ LeaseExpires => Passes("nobody")
           /\ Restart => /\ journal' \in Journals /\ SameRoute /\ journal'.owner = "nobody"
                         /\ journal'.dep = journal.dep /\ journal'.prev = journal.prev
                         /\ journal.dep = None => journal'.interrupted = journal.interrupted
<1>t. journal \in Journals /\ rec \in Recoveries /\ run.dep \in Runtimes /\ run.prev \in Runtimes
  BY Types DEF TypeOK
<1>1. OpenJournal => /\ journal' \in Journals /\ journal'.dep = run.dep
                     /\ journal'.prev = run.prev /\ journal'.phase = "ready"
                     /\ ~journal'.touched /\ ~journal'.interrupted /\ journal'.owner = "run"
  BY <1>t DEF OpenJournal, Journals, NoJournal
<1>2. Finalize => /\ journal' \in Journals /\ SameTransition /\ journal'.phase = "routing"
                  /\ journal'.touched /\ journal'.owner = journal.owner
  <2> SUFFICES ASSUME Finalize
               PROVE  /\ journal' \in Journals /\ SameTransition /\ journal'.phase = "routing"
                      /\ journal'.touched /\ journal'.owner = journal.owner
    OBVIOUS
  <2>1. journal' = [journal EXCEPT !.phase = "routing", !.touched = TRUE, !.desired = run.dep]
    BY DEF Finalize
  <2> QED  BY <2>1, <1>t DEF Journals, SameTransition
<1>3. /\ Retire \/ Unwind => Commits \/ journal' = journal
      /\ RecDrain => Commits
  BY RetiringCommits, Zenon DEF Retire, Unwind, RecDrain
<1>4. /\ CaptureFails => \/ journal.owner = "run" /\ Passes("nobody")
                         \/ journal.owner # "run" /\ journal' = journal
      /\ RecHold => \/ journal.owner = "recovery" /\ Passes("nobody")
                    \/ journal.owner # "recovery" /\ journal' = journal
      /\ RecClaim => Passes("recovery")
      /\ LeaseExpires => Passes("nobody")
  BY OwnerPasses, ZenonT(20) DEF CaptureFails, RecHold, RecClaim, LeaseExpires
<1>5. Exit => \/ journal' = journal /\ (~run.leased \/ journal.owner # "run")
              \/ run.leased /\ Held("run") /\ MayComplete(run.belief) /\ journal' = NoJournal
              \/ run.leased /\ journal.owner = "run" /\ Passes("nobody")
  BY OwnerPasses, ZenonT(20) DEF Exit
<1>6. RecSelect => \/ journal' = journal /\ rec'.at = "flip"
                   \/ Passes("nobody") /\ rec' = IdleRec /\ svc' = svc
  <2>1. \A s : rec' = [rec EXCEPT !.at = "flip", !.seen = s] => rec'.at = "flip"
    BY <1>t DEF Recoveries
  <2> QED  BY <2>1, OwnerPasses, ZenonT(20) DEF RecSelect
<1>7. RecComplete => journal' = NoJournal
  BY DEF RecComplete
<1>8. Restart => /\ journal' \in Journals /\ SameRoute /\ journal'.owner = "nobody"
                 /\ journal'.dep = journal.dep /\ journal'.prev = journal.prev
                 /\ journal.dep = None => journal'.interrupted = journal.interrupted
  <2> SUFFICES ASSUME Restart
               PROVE  /\ journal' \in Journals /\ SameRoute /\ journal'.owner = "nobody"
                      /\ journal'.dep = journal.dep /\ journal'.prev = journal.prev
                      /\ journal.dep = None => journal'.interrupted = journal.interrupted
    OBVIOUS
  <2>1. PICK i : i = (journal.interrupted \/ (journal.dep # None /\ row[journal.dep] \in Active))
    OBVIOUS
  <2>2. journal' = [journal EXCEPT !.owner = "nobody", !.interrupted = i]
    BY <2>1, Zenon DEF Restart
  <2>3. i \in BOOLEAN /\ (journal.dep = None => i = journal.interrupted)
    BY <2>1, <1>t DEF Journals
  <2> QED  BY <1>t, <2>2, <2>3 DEF Journals, SameRoute
<1> QED
  BY <1>1, <1>2, <1>3, <1>4, <1>5, <1>6, <1>7, <1>8

-----------------------------------------------------------------------------
(* The recovery                                                            *)

RecGoes(s) == rec'.at = s /\ rec'.seen = rec.seen /\ rec'.job = rec.job /\ rec' \in Recoveries

\* What each step of the recovery makes of its record.
LEMMA RecMoves ==
    ASSUME Inv
    PROVE  /\ RecClaim => /\ rec'.at = "probing" /\ rec'.seen = svc /\ rec'.job = row[journal.dep]
                          /\ rec' \in Recoveries
           /\ RecSelect => \/ rec' = IdleRec
                           \/ /\ rec'.at = "flip" /\ rec'.seen = svc' /\ rec'.job = rec.job
                              /\ svc' \in Services => rec' \in Recoveries
           /\ RecFlip => RecGoes("ack")
           /\ RecAck => /\ rec'.at = "draining" /\ rec'.seen = rec.seen
                        /\ row' \in [Deployments -> RowStates] => rec' \in Recoveries
           /\ RecDrain => RecGoes("removing")
           /\ RecRemove => RecGoes("completing")
           /\ RecComplete \/ RecHold \/ Restart => rec' = IdleRec
<1>t. rec \in Recoveries /\ svc \in Services /\ row \in [Deployments -> RowStates]
      /\ journal.dep \in Runtimes /\ svc \in Beliefs
  BY Types DEF Inv, TypeOK, Beliefs
<1>1. ASSUME RecClaim
      PROVE  /\ rec'.at = "probing" /\ rec'.seen = svc /\ rec'.job = row[journal.dep]
             /\ rec' \in Recoveries
  <2>1. journal.dep \in Deployments
    BY <1>1, <1>t, Constants DEF RecClaim, Inv, Journaled, Open, Runtimes
  <2>2. rec' = [IdleRec EXCEPT !.at = "probing", !.job = row[journal.dep], !.seen = svc]
    BY <1>1 DEF RecClaim
  <2> QED  BY <1>t, <2>1, <2>2, Constants DEF Recoveries, RecStages
<1>2. ASSUME RecSelect
      PROVE  \/ rec' = IdleRec
             \/ /\ rec'.at = "flip" /\ rec'.seen = svc' /\ rec'.job = rec.job
                /\ svc' \in Services => rec' \in Recoveries
  <2>1. rec' = IdleRec \/ rec' = [rec EXCEPT !.at = "flip", !.seen = svc']
    BY <1>2, Zenon DEF RecSelect
  <2> QED  BY <1>t, <2>1 DEF Recoveries, RecStages, Beliefs
<1>3. /\ RecFlip => RecGoes("ack")
      /\ RecDrain => RecGoes("removing")
      /\ RecRemove => RecGoes("completing")
  <2>1. \A s \in RecStages : rec' = [rec EXCEPT !.at = s] => RecGoes(s)
    BY <1>t DEF Recoveries, RecGoes
  <2>2. {"ack", "removing", "completing"} \subseteq RecStages
    BY DEF RecStages
  <2> QED  BY <2>1, <2>2, Zenon DEF RecFlip, RecDrain, RecRemove
<1>4. ASSUME RecAck
      PROVE  /\ rec'.at = "draining" /\ rec'.seen = rec.seen
             /\ row' \in [Deployments -> RowStates] => rec' \in Recoveries
  <2>1. journal.dep \in Deployments
    BY <1>4, <1>t, Constants DEF RecAck, Inv, Journaled, Open, Runtimes
  <2>2. rec' = [rec EXCEPT !.at = "draining", !.belief = svc, !.job = row'[journal.dep]]
    BY <1>4 DEF RecAck
  <2> QED  BY <1>t, <2>1, <2>2 DEF Recoveries, RecStages
<1>5. RecComplete \/ RecHold \/ Restart => rec' = IdleRec
  BY Zenon DEF RecComplete, RecHold, Restart
<1> QED
  BY <1>1, <1>2, <1>3, <1>4, <1>5

\* The recovery and the pipeline between two runs.
LEMMA IdleRecIs == IdleRec.at = "idle" /\ IdleRec \in Recoveries
BY Constants DEF IdleRec

\* No pipeline runs.
LEMMA IdleRunIs ==
    /\ IdleRun \in Pipelines /\ IdleRun.at = "idle" /\ IdleRun.dep = None /\ IdleRun.prev = None
    /\ IdleRun.cand = None /\ ~IdleRun.leased /\ ~IdleRun.retain /\ IdleRun.flip = "first"
    /\ IdleRun.victim = None /\ IdleRun.then = "exiting" /\ IdleRun.belief = NoBelief
    /\ IdleRun.seen = NoBelief
BY Constants DEF IdleRun

\* What starts, stops and removes containers.
LEMMA BoxSteps ==
    ASSUME [Next]_vars
    PROVE  \/ box' = box
           \/ StartCandidate \/ HandPorts \/ Revive \/ LateCancel \/ Remove \/ Discard
           \/ RecRemove \/ StopDone \/ StartDone \/ Restart
BY ZenonT(40) DEF Next, vars, RunStep, RecStep, RequestEnds, Loads, Claim, BuildFails,
   ProbeFails, OpenJournal, CaptureIdentities, CaptureFails, Verify, Finalize, Persist,
   FlipWrite, FlipWriteFails, FlipAck, FlipTimeout, Revert, Promote, Restore, Retire, Unwind,
   SettleFailure, LateSettle, Exit, LoseLease, RecClaim, RecSelect, RecFlip, RecAck, RecDrain,
   RecComplete, RecHold, LeaseExpires, Cancel, Stop, Start, Render, Load

\* Who writes a deployment's row.
LEMMA RowSteps ==
    ASSUME [Next]_vars
    PROVE  \/ row' = row
           \/ (\E d \in Deployments : Claim(d)) \/ Finalize \/ Revert \/ Promote \/ SettleFailure
           \/ RecAck \/ (\E d \in Deployments : Cancel(d)) \/ Stop \/ Restart
BY ZenonT(40) DEF Next, vars, RunStep, RecStep, RequestEnds, Loads, HandPorts, StartCandidate,
   BuildFails, ProbeFails, OpenJournal, CaptureIdentities, CaptureFails, Verify, Persist,
   FlipWrite, FlipWriteFails, FlipAck, FlipTimeout, Restore, Retire, Remove, Unwind, Discard,
   Revive, LateCancel, LateSettle, Exit, LoseLease, RecClaim, RecSelect, RecFlip, RecDrain,
   RecRemove, RecComplete, RecHold, LeaseExpires, StopDone, Start, StartDone, Render, Load

\* Who writes the service row.
LEMMA SvcSteps ==
    ASSUME [Next]_vars
    PROVE  \/ svc' = svc
           \/ (\E d \in Deployments : Claim(d)) \/ Persist \/ Revert \/ Restore \/ SettleFailure
           \/ LateSettle \/ RecSelect \/ Stop \/ StopDone \/ StartDone \/ Restart
BY ZenonT(40) DEF Next, vars, RunStep, RecStep, RequestEnds, Loads, HandPorts, StartCandidate,
   BuildFails, ProbeFails, OpenJournal, CaptureIdentities, CaptureFails, Verify, Finalize,
   FlipWrite, FlipWriteFails, FlipAck, FlipTimeout, Promote, Retire, Remove, Unwind, Discard,
   Revive, LateCancel, Exit, LoseLease, RecClaim, RecFlip, RecAck, RecDrain, RecRemove,
   RecComplete, RecHold, LeaseExpires, Cancel, Start, Render, Load

\* Who writes the routing file, and who loads it.
LEMMA ProxySteps ==
    ASSUME [Next]_vars
    PROVE  \/ proxy' = proxy
           \/ FlipWrite \/ RecFlip \/ Render \/ Load
BY ZenonT(40) DEF Next, vars, RunStep, RecStep, RequestEnds, Loads, Claim, HandPorts,
   StartCandidate, BuildFails, ProbeFails, OpenJournal, CaptureIdentities, CaptureFails, Verify,
   Finalize, Persist, FlipWriteFails, FlipAck, FlipTimeout, Revert, Promote, Restore, Retire,
   Remove, Unwind, Discard, Revive, SettleFailure, LateCancel, LateSettle, Exit, LoseLease,
   RecClaim, RecSelect, RecAck, RecDrain, RecRemove, RecComplete, RecHold, LeaseExpires, Cancel,
   Stop, StopDone, Start, StartDone, Restart

\* Who writes the journal.
LEMMA JournalSteps ==
    ASSUME [Next]_vars
    PROVE  \/ journal' = journal
           \/ OpenJournal \/ CaptureFails \/ Finalize \/ Retire \/ Unwind \/ Exit \/ RecClaim
           \/ RecSelect \/ RecDrain \/ RecComplete \/ RecHold \/ LeaseExpires \/ Restart
BY ZenonT(40) DEF Next, vars, RunStep, RecStep, RequestEnds, Loads, Claim, HandPorts,
   StartCandidate, BuildFails, ProbeFails, CaptureIdentities, Verify, Persist, FlipWrite,
   FlipWriteFails, FlipAck, FlipTimeout, Revert, Promote, Restore, Remove, Discard, Revive,
   SettleFailure, LateCancel, LateSettle, LoseLease, RecFlip, RecAck, RecRemove, Cancel, Stop,
   StopDone, Start, StartDone, Render, Load

\* Who changes the pipeline, and the recovery.
LEMMA RecSteps ==
    ASSUME [Next]_vars
    PROVE  \/ rec' = rec
           \/ RecClaim \/ RecSelect \/ RecFlip \/ RecAck \/ RecDrain \/ RecRemove \/ RecComplete
           \/ RecHold \/ Restart
BY ZenonT(40) DEF Next, vars, RunStep, RecStep, RequestEnds, Loads, Claim, HandPorts,
   StartCandidate, BuildFails, ProbeFails, OpenJournal, CaptureIdentities, CaptureFails, Verify,
   Finalize, Persist, FlipWrite, FlipWriteFails, FlipAck, FlipTimeout, Revert, Promote, Restore,
   Retire, Remove, Unwind, Discard, Revive, SettleFailure, LateCancel, LateSettle, Exit,
   LoseLease, LeaseExpires, Cancel, Stop, StopDone, Start, StartDone, Render, Load

\* The user's requests.
LEMMA ReqSteps ==
    ASSUME [Next]_vars
    PROVE  \/ req' = req
           \/ Stop \/ StopDone \/ Start \/ StartDone \/ Restart
BY ZenonT(40) DEF Next, vars, RunStep, RecStep, RequestEnds, Loads, Claim, HandPorts,
   StartCandidate, BuildFails, ProbeFails, OpenJournal, CaptureIdentities, CaptureFails, Verify,
   Finalize, Persist, FlipWrite, FlipWriteFails, FlipAck, FlipTimeout, Revert, Promote, Restore,
   Retire, Remove, Unwind, Discard, Revive, SettleFailure, LateCancel, LateSettle, Exit,
   LoseLease, RecClaim, RecSelect, RecFlip, RecAck, RecDrain, RecRemove, RecComplete, RecHold,
   LeaseExpires, Cancel, Render, Load

\* Spending.
LEMMA BudgetSteps ==
    ASSUME [Next]_vars
    PROVE  \/ budget' = budget
           \/ \E k \in Kinds : Spend(k)
BY ZenonT(40) DEF Next, vars, RunStep, RecStep, RequestEnds, Loads, Claim, HandPorts,
   StartCandidate, BuildFails, ProbeFails, OpenJournal, CaptureIdentities, CaptureFails, Verify,
   Finalize, Persist, FlipWrite, FlipWriteFails, FlipAck, FlipTimeout, Revert, Promote, Restore,
   Retire, Remove, Unwind, Discard, Revive, SettleFailure, LateCancel, LateSettle, Exit,
   LoseLease, RecClaim, RecSelect, RecFlip, RecAck, RecDrain, RecRemove, RecComplete, RecHold,
   LeaseExpires, Cancel, Stop, StopDone, Start, StartDone, Render, Load, Restart, Kinds

\* A step of the pipeline that neither begins nor ends it.
Works ==
    \/ HandPorts \/ StartCandidate \/ BuildFails \/ ProbeFails \/ OpenJournal
    \/ CaptureIdentities \/ CaptureFails \/ Verify \/ Finalize \/ Persist \/ FlipWrite
    \/ FlipWriteFails \/ FlipAck \/ FlipTimeout \/ Revert \/ Promote \/ Restore \/ Retire
    \/ Remove \/ Unwind \/ Discard \/ Revive \/ SettleFailure \/ LateCancel \/ LateSettle

\* Who changes the pipeline's record.
LEMMA RunSteps ==
    ASSUME [Next]_vars
    PROVE  \/ run' = run \/ Works
           \/ (\E d \in Deployments : Claim(d)) \/ (\E d \in Deployments : Cancel(d))
           \/ run' = IdleRun /\ (Exit \/ LoseLease \/ Restart)
BY ZenonT(40) DEF Next, vars, RunStep, RecStep, RequestEnds, Loads, Works, Exit, LoseLease, RecClaim,
   RecSelect, RecFlip, RecAck, RecDrain, RecRemove, RecComplete, RecHold, LeaseExpires, Stop,
   StopDone, Start, StartDone, Render, Load, Restart

-----------------------------------------------------------------------------
(* Rows and containers                                                     *)

\* A pipeline writes its outcome only over a row that is still in progress.
LEMMA SettleRows ==
    ASSUME TypeOK, NEW o \in RowStates \ (Active \cup {"waiting"}), SettleRow(o)
    PROVE  /\ row' \in [Deployments -> RowStates]
           /\ \A e \in Deployments : row'[e] = row[e] \/ (row[e] \in Active /\ row'[e] = o)
BY DEF TypeOK, SettleRow

\* A success ends one deployment and supersedes another; it begins none.
LEMMA SucceededRows ==
    ASSUME TypeOK, NEW d \in Deployments, row[d] \in Active, row' = Succeeded(d)
    PROVE  /\ row' \in [Deployments -> RowStates]
           /\ \A e \in Deployments :
                 \/ row'[e] = row[e]
                 \/ e = d /\ row'[e] = "running"
                 \/ row[e] = "running" /\ row'[e] = "superseded"
BY DEF TypeOK, Succeeded, RowStates, Active

RowsKept == \A e \in Deployments : /\ row'[e] = "waiting" <=> row[e] = "waiting"
                                   /\ row'[e] \in Active => row[e] \in Active

\* Only a claim begins a deployment; nothing that is over is taken up again.
LEMMA RowMoves ==
    ASSUME Inv, [Next]_vars, ~(\E d \in Deployments : Claim(d))
    PROVE  row' \in [Deployments -> RowStates] /\ RowsKept
<1> USE DEF RowsKept
<1>t. TypeOK /\ row \in [Deployments -> RowStates] /\ journal.dep \in Runtimes /\ run.dep \in Runtimes
  BY Types DEF Inv, TypeOK
<1>s. {"failed", "cancelled"} \subseteq RowStates \ (Active \cup {"waiting"}) /\ "deploying" \in Active
  BY DEF RowStates, Active
<1>1. CASE row' = row
  BY <1>1, <1>t
<1>2. CASE Finalize
  BY <1>2, <1>t, <1>s DEF Finalize, Active, RowStates
<1>3. CASE Revert
  BY <1>3, <1>t, <1>s, SettleRows DEF Revert, Active
<1>4. CASE Promote
  <2>1. CASE SettleRow("cancelled")
    BY <2>1, <1>t, <1>s, SettleRows DEF Active
  <2>2. CASE row[run.dep] = "deploying" /\ row' = Succeeded(run.dep)
    <3>1. run.dep \in Deployments
      <4>1. Busy
        BY <1>4 DEF Promote, Busy
      <4> QED  BY <4>1, <1>t DEF Inv, Staged, Runtimes
    <3> QED  BY <2>2, <3>1, <1>t, <1>s, SucceededRows DEF Active
  <2> QED  BY <1>4, <2>1, <2>2 DEF Promote
<1>5. CASE SettleFailure
  <2>1. SettleRow("failed") \/ row' = row
    BY <1>5, Zenon DEF SettleFailure
  <2> QED  BY <2>1, <1>t, <1>s, SettleRows DEF Active
<1>6. CASE RecAck
  <2>1. journal.dep \in Deployments
    BY <1>6, <1>t DEF RecAck, Inv, Journaled, Runtimes, Open
  <2>2. row' = row \/ (row[journal.dep] \in Active /\ row' = Succeeded(journal.dep))
        \/ \E o \in {"failed", "cancelled"} :
              row[journal.dep] \in Active /\ row' = [row EXCEPT ![journal.dep] = o]
    BY <1>6 DEF RecAck, Interrupted, StillCurrent
  <2>3. CASE row[journal.dep] \in Active /\ row' = Succeeded(journal.dep)
    BY <2>1, <2>3, <1>t, SucceededRows DEF Active
  <2>4. ASSUME NEW o \in {"failed", "cancelled"}, row[journal.dep] \in Active,
               row' = [row EXCEPT ![journal.dep] = o]
        PROVE  /\ row' \in [Deployments -> RowStates]
               /\ \A e \in Deployments : /\ row'[e] = "waiting" <=> row[e] = "waiting"
                                         /\ row'[e] \in Active => row[e] \in Active
    BY <2>1, <2>4, <1>t, <1>s DEF Active
  <2> QED  BY <1>1, <2>2, <2>3, <2>4
<1>7. CASE \E d \in Deployments : Cancel(d)
  BY <1>7, <1>t, <1>s DEF Cancel, Active
<1>8. CASE Stop
  <2>1. row' = [d \in Deployments |-> IF row[d] \in Active THEN "cancelled" ELSE row[d]]
    BY <1>8 DEF Stop
  <2> QED  BY <2>1, <1>t, <1>s DEF Active
<1>9. CASE Restart
  <2>1. PICK lost : lost = {d \in Deployments : row[d] \in Active /\ journal.dep # d}
    OBVIOUS
  <2>2. row' = [d \in Deployments |-> IF d \in lost THEN "failed" ELSE row[d]]
    BY <1>9, <2>1, Zenon DEF Restart
  <2> QED  BY <2>1, <2>2, <1>t, <1>s DEF Active
<1> QED
  BY <1>1, <1>2, <1>3, <1>4, <1>5, <1>6, <1>7, <1>8, <1>9, RowSteps

\* A container that comes up without having existed is the candidate's.
LEMMA BoxMoves ==
    ASSUME Inv, [Next]_vars
    PROVE  /\ box' \in [Deployments -> BoxStates]
           /\ \A c \in Deployments :
                 box'[c] # "absent" => box[c] # "absent" \/ (StartCandidate /\ c = run.dep)
<1>t. TypeOK /\ box \in [Deployments -> BoxStates] /\ BoxStates = {"absent", "up", "exited"}
  BY DEF Inv, TypeOK, BoxStates
<1> DEFINE Kept == /\ box' \in [Deployments -> BoxStates]
                   /\ \A c \in Deployments : box'[c] # "absent" => box[c] # "absent"
<1>1. CASE StartCandidate
  BY <1>1, <1>t DEF StartCandidate, SetBox
<1>2. CASE HandPorts \/ StopDone
  <2>1. box' = box \/ \E c \in Runtimes : Up(c) /\ box' = [box EXCEPT ![c] = "exited"]
    BY <1>2, <1>t, Types, Zenon DEF HandPorts, StopDone
  <2> QED  BY <2>1, <1>t DEF Up
<1>r. \A c : Revived(c, box) = box \/ (box[c] = "exited" /\ Revived(c, box) = [box EXCEPT ![c] = "up"])
  BY Zenon DEF Revived
<1>3. CASE Revive \/ LateCancel
  BY <1>3, <1>r, <1>t DEF Revive, LateCancel
<1>4. CASE StartDone
  <2>1. box' = box \/ (box[req.target] # "absent" /\ box' = [box EXCEPT ![req.target] = "up"])
    BY <1>4, Zenon DEF StartDone, SetBox
  <2> QED  BY <2>1, <1>t
<1>5. CASE Remove \/ Discard
  <2>1. box' = box \/ \E c : box' = [box EXCEPT ![c] = "absent"]
    BY <1>5, Zenon DEF Remove, Discard, SetBox
  <2> QED  BY <2>1, <1>t
<1>6. CASE RecRemove
  BY <1>6, <1>t DEF RecRemove
<1>7. CASE Restart
  <2>1. PICK b : b = Cleared({d \in Deployments : row[d] \in Active /\ journal.dep # d})
    OBVIOUS
  <2>2. b \in [Deployments -> BoxStates] /\ \A c \in Deployments : b[c] # "absent" => box[c] # "absent"
    BY <2>1, <1>t DEF Cleared
  <2>3. box' = box \/ box' = Revived(svc.runtime, b)
    BY <1>7, <2>1, Zenon DEF Restart
  <2>4. Revived(svc.runtime, b) = b
        \/ (b[svc.runtime] = "exited" /\ Revived(svc.runtime, b) = [b EXCEPT ![svc.runtime] = "up"])
    BY Zenon DEF Revived
  <2> QED  BY <2>2, <2>3, <2>4, <1>t
<1> QED
  BY <1>1, <1>2, <1>3, <1>4, <1>5, <1>6, <1>7, <1>t, BoxSteps

\* Between its claim and its end a pipeline stays that of one deployment.
LEMMA WorkMoves ==
    ASSUME TypeOK, Works
    PROVE  /\ run' \in Pipelines /\ SameOne(run', run)
           /\ run.at # "idle" /\ run'.at # "idle"
<1>1. CASE \/ HandPorts \/ BuildFails \/ ProbeFails \/ OpenJournal \/ Verify \/ Discard
           \/ Revive \/ SettleFailure \/ LateSettle \/ LateCancel
  BY <1>1, PlainMoves, Zenon
     DEF HandPorts, BuildFails, ProbeFails, OpenJournal, Verify, Discard, Revive, SettleFailure,
         LateSettle, LateCancel, Moves, Alike
<1>2. CASE Retire \/ Remove
  BY <1>2, PlainMoves DEF Retire, Remove, Moves, Alike, TypeOK, Pipelines
<1>3. CASE FlipWriteFails \/ FlipAck \/ FlipTimeout
  BY <1>3, FlipFailedMoves, FlipAckMoves DEF FlipWriteFails, FlipAck, FlipTimeout
<1>4. CASE Finalize \/ Persist \/ FlipWrite
  BY <1>4, FinalizeMoves, PersistMoves, FlipWriteMoves
     DEF Finalize, Persist, FlipWrite, Moves, Alike
<1>5. CASE Revert \/ Promote \/ Restore
  BY <1>5, RevertMoves, PromoteMoves, RestoreMoves DEF Revert, Promote, Restore, Moves, Alike
<1>6. CASE StartCandidate \/ CaptureIdentities \/ CaptureFails \/ Unwind
  BY <1>6, StartMoves, CaptureMoves, CaptureFailsMoves, UnwindMoves
     DEF StartCandidate, CaptureIdentities, CaptureFails, Unwind, Moves, Alike
<1> QED
  BY <1>1, <1>2, <1>3, <1>4, <1>5, <1>6 DEF Works

\* The types are kept.
LEMMA StepType == ASSUME Inv, [Next]_vars PROVE TypeOK'
<1>t. TypeOK
  BY DEF Inv
<1>1. row' \in [Deployments -> RowStates] /\ box' \in [Deployments -> BoxStates]
  <2>1. CASE \E d \in Deployments : Claim(d)
    BY <2>1, <1>t DEF TypeOK, Claim, RowStates, Active
  <2> QED  BY <2>1, RowMoves, BoxMoves
<1>2. svc' \in Services
  <2>1. CASE \E d \in Deployments : Claim(d)
    BY <2>1, <1>t DEF TypeOK, Claim, Services, ServiceStates
  <2>2. CASE Persist \/ RecSelect
    <3>1. svc' = svc \/ \E c \in Runtimes : svc' = [status |-> "running", runtime |-> c]
      <4>1. CASE Persist
        BY <4>1, <1>t, Types, Zenon DEF Persist, UnlessStopped
      <4>2. \A h : Selected(h) \in {journal.prev, journal.dep, None}
        BY DEF Selected
      <4>3. \A h : Selected(h) \in Runtimes
        BY <4>2, <1>t, Types, Constants
      <4>4. CASE RecSelect
        BY <4>3, <4>4, Zenon DEF RecSelect
      <4> QED  BY <2>2, <4>1, <4>4
    <3> QED  BY <3>1, <1>t DEF TypeOK, Services, ServiceStates
  <2>3. CASE Revert \/ Restore
    BY <2>3, <1>t, Types, RevertMoves DEF TypeOK, Restore, Services, ServiceStates
  <2>4. CASE SettleFailure \/ LateSettle
    <3>1. \/ svc' = svc
          \/ \E s \in {"running", "idle"} : svc' = [svc EXCEPT !.status = s]
          \/ \E s \in {"running", "error"} : svc' = [status |-> s, runtime |-> run.prev]
      BY <2>4, ZenonT(30) DEF SettleFailure, LateSettle, UnlessStopped
    <3> QED  BY <3>1, <1>t, Types DEF TypeOK, Services, ServiceStates
  <2>5. CASE Stop \/ StopDone \/ StartDone \/ Restart
    <3>1. svc' = svc \/ \E s \in ServiceStates : svc' = [svc EXCEPT !.status = s]
      <4>1. {"stopped", "error", "running", req.old} \subseteq ServiceStates
        BY <1>t DEF ServiceStates, TypeOK, Requests
      <4>2. CASE Stop \/ StopDone \/ StartDone
        BY <2>5, <4>1, <4>2, ZenonT(30) DEF Stop, StopDone, StartDone
      <4>3. CASE Restart
        <5>1. svc' = svc \/ \E s \in {"error", "running"} : svc' = [svc EXCEPT !.status = s]
          BY <4>3, ZenonT(30) DEF Restart
        <5> QED  BY <5>1, <4>1
      <4> QED  BY <2>5, <4>2, <4>3
    <3> QED  BY <3>1, <1>t DEF TypeOK, Services
  <2> QED  BY <2>1, <2>2, <2>3, <2>4, <2>5, <1>t, SvcSteps DEF TypeOK
<1>3. proxy' \in [file : Runtimes, loaded : Runtimes]
  BY <1>t, Types, ProxySteps DEF TypeOK, FlipWrite, RecFlip, Render, Load
<1>4. journal' \in Journals
  <2>1. RecSelect => journal' \in Journals
    BY <1>t, JournalMoves DEF Passes, TypeOK
  <2> QED
    BY <1>t, <2>1, JournalMoves, JournalSteps, NoJournalIs DEF TypeOK, Passes, Commits
<1>5. run' \in Pipelines
  <2>1. \A d \in Deployments : Claim(d) \/ Cancel(d) => run' \in Pipelines
    BY <1>t, ClaimMoves, CancelMoves DEF Moves
  <2> QED  BY <1>t, <2>1, RunSteps, WorkMoves, IdleRunIs DEF TypeOK
<1>6. rec' \in Recoveries
  BY <1>t, <1>1, <1>2, RecMoves, RecSteps, IdleRecIs DEF TypeOK, RecGoes
<1>7. req' \in Requests
  <2>1. CASE Stop \/ Start
    BY <2>1, <1>t, Types DEF Stop, Start, Requests
  <2>2. CASE StopDone \/ StartDone \/ Restart
    BY <2>2, Constants DEF StopDone, StartDone, Restart
  <2> QED  BY <2>1, <2>2, <1>t, ReqSteps DEF TypeOK
<1>8. hostPorts' \in PortModes /\ budget' \in [Kinds -> Nat]
  <2>1. hostPorts' = hostPorts
    BY DEF Next, RunStep, RecStep, RequestEnds, Loads, vars
  <2> QED  BY <1>t, <2>1, BudgetSteps, Spending DEF TypeOK
<1> QED
  BY <1>1, <1>2, <1>3, <1>4, <1>5, <1>6, <1>7, <1>8 DEF TypeOK

-----------------------------------------------------------------------------
(* What a step does, field by field                                        *)

Spent(k) == UNCHANGED budget \/ Spend(k)
BoxBut(c, s) == \A e \in Deployments : box'[e] = IF e = c THEN s ELSE box[e]

\* Setting one container leaves the others as they are.
LEMMA BoxSet ==
    ASSUME TypeOK, NEW c, NEW s, box' = [box EXCEPT ![c] = s] PROVE BoxBut(c, s)
BY DEF TypeOK, BoxBut

\* The previous generation hands its ports over.
LEMMA HandPortsDoes ==
    ASSUME Inv, HandPorts
    PROVE  /\ run.at = "building" /\ hostPorts /\ Moves("handed")
           /\ (~Up(run.prev) /\ box' = box) \/ (Up(run.prev) /\ BoxBut(run.prev, "exited"))
           /\ UNCHANGED <<row, svc, proxy, journal, rec, req, budget>>
BY PlainMoves, BoxSet, Zenon DEF HandPorts, Inv

\* The candidate starts.
LEMMA StartCandidateDoes ==
    ASSUME Inv, StartCandidate
    PROVE  /\ run.at \in {"building", "handed"} /\ run'.at = "started" /\ run'.cand = run.dep
           /\ run'.leased = run.leased /\ run'.retain = run.retain
           /\ SameOne(run', run) /\ SameAim(run', run) /\ SameFlip(run', run)
           /\ BoxBut(run.dep, "up") /\ ~PortTaken(run.dep)
           /\ UNCHANGED <<row, svc, proxy, journal, rec, req, budget>>
<1>1. BoxBut(run.dep, "up")
  BY BoxSet DEF StartCandidate, SetBox, Inv
<1> QED  BY <1>1, StartMoves DEF StartCandidate, Inv

\* A step of the build or a probe fails.
LEMMA FailsDoes ==
    ASSUME Inv, BuildFails \/ ProbeFails
    PROVE  /\ \/ BuildFails /\ run.at \in {"building", "handed"}
              \/ ProbeFails /\ run.at \in {"started", "verifying"}
           /\ Moves("unwind") /\ Spent("fault")
           /\ UNCHANGED <<row, svc, box, proxy, journal, rec, req>>
BY PlainMoves, Zenon DEF BuildFails, ProbeFails, Inv, Spent

\* The transition is journaled before anything is routed.
LEMMA OpenJournalDoes ==
    ASSUME Inv, OpenJournal
    PROVE  /\ run.at = "started" /\ Moves("opening") /\ Up(run.cand)
           /\ journal'.dep = run.dep /\ journal'.prev = run.prev /\ journal'.phase = "ready"
           /\ ~journal'.touched /\ ~journal'.interrupted /\ journal'.owner = "run"
           /\ UNCHANGED <<row, svc, box, proxy, rec, req, budget>>
<1>1. UNCHANGED <<row, svc, box, proxy, rec, req, budget>> /\ run.at = "started" /\ Up(run.cand)
  BY DEF OpenJournal
<1> QED  BY <1>1, PlainMoves, JournalMoves DEF Inv

\* The identities of both generations are known.
LEMMA CaptureIdentitiesDoes ==
    ASSUME Inv, CaptureIdentities
    PROVE  /\ run.at = "opening" /\ Owned /\ run'.at = "verifying" /\ run'.leased
           /\ run'.retain = run.retain /\ run'.cand = run.cand
           /\ SameOne(run', run) /\ SameAim(run', run) /\ SameFlip(run', run)
           /\ UNCHANGED <<row, svc, box, proxy, journal, rec, req, budget>>
BY CaptureMoves, HeldIsOwned DEF CaptureIdentities, Inv

\* The identities are unknown, and the lease is given up.
LEMMA CaptureFailsDoes ==
    ASSUME Inv, CaptureFails
    PROVE  /\ run.at = "opening" /\ run'.at = "unwind" /\ run'.retain /\ run'.leased = run.leased
           /\ run'.cand = run.cand
           /\ SameOne(run', run) /\ SameAim(run', run) /\ SameFlip(run', run)
           /\ \/ Owned /\ Spend("fault") /\ Passes("nobody")
              \/ ~Owned /\ UNCHANGED budget /\ journal' = journal
           /\ UNCHANGED <<row, svc, box, proxy, rec, req>>
<1>1. /\ run.at = "opening" /\ UNCHANGED <<row, svc, box, proxy, rec, req>>
      /\ (Owned /\ Spend("fault")) \/ (~Owned /\ UNCHANGED budget)
  BY HeldIsOwned DEF CaptureFails
<1>2. (Owned /\ Passes("nobody")) \/ (~Owned /\ journal' = journal)
  BY JournalMoves DEF Inv, Owned
<1> QED  BY <1>1, <1>2, CaptureFailsMoves DEF Inv

\* The last probe before the routing.
LEMMA VerifyDoes ==
    ASSUME Inv, Verify
    PROVE  /\ run.at = "verifying" /\ Owned /\ Moves("ready") /\ Up(run.cand)
           /\ UNCHANGED <<row, svc, box, proxy, journal, rec, req, budget>>
BY PlainMoves, HeldIsOwned, Zenon DEF Verify, Inv

\* The intent to route is journaled.
LEMMA FinalizeDoes ==
    ASSUME Inv, Finalize
    PROVE  /\ run.at = "ready" /\ Owned
           /\ \/ Moves("finalized")
              \/ /\ run'.at = "retire" /\ run'.victim = run.dep /\ run'.then = "lateCancel"
                 /\ SameOne(run', run) /\ SameHold(run', run) /\ SameFlip(run', run)
           /\ SameTransition /\ journal'.phase = "routing" /\ journal'.touched
           /\ journal'.owner = journal.owner
           /\ UNCHANGED <<svc, box, proxy, rec, req, budget>>
<1>1. run.at = "ready" /\ Owned /\ UNCHANGED <<svc, box, proxy, rec, req, budget>>
  BY HeldIsOwned DEF Finalize
<1> QED  BY <1>1, FinalizeMoves, JournalMoves DEF Inv

\* The service row names the candidate.
LEMMA PersistDoes ==
    ASSUME Inv, Persist
    PROVE  /\ run.at = "finalized" /\ Owned
           /\ \/ /\ Moves("flip") /\ svc.status # "stopped"
                 /\ svc'.status = "running" /\ svc'.runtime = run.dep
              \/ /\ run'.at = "retire" /\ run'.victim = run.dep /\ run'.then = run.then
                 /\ SameOne(run', run) /\ SameHold(run', run) /\ SameFlip(run', run)
                 /\ svc' = svc /\ svc.status = "stopped"
           /\ UNCHANGED <<row, box, proxy, journal, rec, req, budget>>
<1>1. /\ run.at = "finalized" /\ Owned /\ UNCHANGED <<row, box, proxy, journal, rec, req, budget>>
      /\ svc.status = "stopped" => svc' = svc
      /\ svc.status # "stopped" => svc'.status = "running" /\ svc'.runtime = run.dep
  BY HeldIsOwned DEF Persist, UnlessStopped
<1> QED  BY <1>1, PersistMoves DEF Inv

\* The routing file is written.
LEMMA FlipWriteDoes ==
    ASSUME Inv, FlipWrite
    PROVE  /\ run.at = "flip" /\ Owned /\ rec.at # "ack"
           /\ run'.at = "ack" /\ run'.seen = svc /\ run'.flip = run.flip /\ run'.belief = run.belief
           /\ SameOne(run', run) /\ SameHold(run', run) /\ SameAim(run', run)
           /\ proxy'.file = svc.runtime /\ proxy'.loaded = proxy.loaded
           /\ UNCHANGED <<row, svc, box, journal, rec, req, budget>>
<1>1. /\ run.at = "flip" /\ Owned /\ rec.at # "ack"
      /\ UNCHANGED <<row, svc, box, journal, rec, req, budget>>
  BY HeldIsOwned DEF FlipWrite
<1>2. proxy'.file = svc.runtime /\ proxy'.loaded = proxy.loaded
  BY DEF FlipWrite, Inv, TypeOK
<1> QED  BY <1>1, <1>2, FlipWriteMoves DEF Inv

\* A failed flip is tried again, reverted or given up.
FlipGoes ==
    /\ \/ run.flip = "first" /\ run'.at = "flip" /\ run'.flip = "second"
       \/ run.flip = "second" /\ run'.at = "reverting" /\ run'.flip = "second"
       \/ run.flip \notin Forward /\ run'.at = "exiting" /\ run'.flip = run.flip
    /\ run'.belief = run.belief
    /\ SameOne(run', run) /\ SameHold(run', run) /\ SameAim(run', run)

\* The routing file could not be written, or nobody loaded it in time.
LEMMA FlipFailsDoes ==
    ASSUME Inv, FlipWriteFails \/ FlipTimeout
    PROVE  /\ run.at \in {"flip", "ack"} /\ Owned /\ FlipGoes
           /\ FlipWriteFails => Spend("write")
           /\ FlipTimeout => run.at = "ack" /\ Spend("fault")
           /\ UNCHANGED <<row, svc, box, proxy, journal, rec, req>>
<1>1. /\ run.at \in {"flip", "ack"} /\ Owned /\ UNCHANGED <<row, svc, box, proxy, journal, rec, req>>
      /\ FlipWriteFails => Spend("write")
      /\ FlipTimeout => run.at = "ack" /\ Spend("fault")
  BY HeldIsOwned DEF FlipWriteFails, FlipTimeout
<1>2. FlipFailed(TRUE) \/ FlipFailed(FALSE)
  BY Zenon DEF FlipWriteFails, FlipTimeout
<1> QED  BY <1>1, <1>2, FlipFailedMoves DEF Inv, FlipGoes

\* The routes are loaded.
LEMMA FlipAckDoes ==
    ASSUME Inv, FlipAck
    PROVE  /\ run.at = "ack" /\ Owned /\ proxy.loaded = proxy.file
           /\ \/ svc # run.seen /\ FlipGoes
              \/ /\ svc = run.seen /\ run'.belief = svc /\ run'.flip = run.flip
                 /\ \/ run.flip \in Forward /\ run'.at = "routed"
                    \/ run.flip \notin Forward /\ run'.at = "retire" /\ run'.victim = run.dep
                 /\ run'.then = run.then /\ SameOne(run', run) /\ SameHold(run', run)
           /\ UNCHANGED <<row, svc, box, proxy, journal, rec, req, budget>>
<1>1. /\ run.at = "ack" /\ Owned /\ proxy.loaded = proxy.file
      /\ UNCHANGED <<row, svc, box, proxy, journal, rec, req, budget>>
  BY HeldIsOwned DEF FlipAck
<1>2. FlipFailed(FALSE) => FlipGoes
  BY FlipFailedMoves DEF Inv, FlipGoes
<1> QED  BY <1>1, <1>2, FlipAckMoves DEF Inv

\* Both flips failed.
LEMMA RevertDoes ==
    ASSUME Inv, Revert
    PROVE  /\ run.at = "reverting" /\ Owned /\ run'.victim = run.dep /\ run'.flip = "revert"
           /\ \/ svc' = svc /\ run'.at = "exiting"
              \/ /\ run'.at \in {"flip", "retire"} /\ svc'.runtime = run.prev
                 /\ svc'.status \in {"error", "running"} /\ svc.status = "running"
           /\ run'.then = run.then /\ run'.seen = run.seen /\ run'.belief = run.belief
           /\ SameOne(run', run) /\ SameHold(run', run)
           /\ UNCHANGED <<box, proxy, journal, rec, req, budget>>
<1>1. run.at = "reverting" /\ Owned /\ UNCHANGED <<box, proxy, journal, rec, req, budget>>
  BY HeldIsOwned DEF Revert
<1> QED  BY <1>1, RevertMoves DEF Inv

\* The success write.
LEMMA PromoteDoes ==
    ASSUME Inv, Promote
    PROVE  /\ run.at = "routed" /\ Owned
           /\ \/ run'.at = "restoring"
              \/ run'.at = "exiting" /\ run.prev = None
              \/ run'.at = "retire" /\ run'.victim = run.prev /\ run.prev # None
           /\ run'.then = run.then
           /\ SameOne(run', run) /\ SameHold(run', run) /\ SameFlip(run', run)
           /\ UNCHANGED <<svc, box, proxy, journal, rec, req, budget>>
<1>1. run.at = "routed" /\ Owned /\ UNCHANGED <<svc, box, proxy, journal, rec, req, budget>>
  BY HeldIsOwned DEF Promote
<1> QED  BY <1>1, PromoteMoves DEF Inv

\* A cancelled deployment's previous release is named again, if it is up.
LEMMA RestoreDoes ==
    ASSUME Inv, Restore
    PROVE  /\ run.at = "restoring" /\ Owned /\ Spent("fault")
           /\ \/ Moves("exiting") /\ svc' = svc
              \/ /\ run'.at = "flip" /\ run'.flip = "restore" /\ Up(run.prev)
                 /\ svc'.status = "running" /\ svc'.runtime = run.prev
                 /\ run'.seen = run.seen /\ run'.belief = run.belief
                 /\ SameOne(run', run) /\ SameHold(run', run) /\ SameAim(run', run)
           /\ UNCHANGED <<row, box, proxy, journal, rec, req>>
<1>1. /\ run.at = "restoring" /\ Owned /\ Spent("fault")
      /\ UNCHANGED <<row, box, proxy, journal, rec, req>>
  BY HeldIsOwned, Zenon DEF Restore, Spent
<1> QED  BY <1>1, RestoreMoves DEF Inv

\* A retirement is committed, or refused.
LEMMA RetireDoes ==
    ASSUME Inv, Retire
    PROVE  /\ run.at = "retire"
           /\ \/ Owned /\ MayRetire(run.victim, run.belief) /\ Moves("removing") /\ Commits
              \/ /\ ~Owned \/ ~MayRetire(run.victim, run.belief)
                 /\ Moves(run.then) /\ journal' = journal
           /\ UNCHANGED <<row, svc, box, proxy, rec, req, budget>>
<1>1. run.at = "retire" /\ UNCHANGED <<row, svc, box, proxy, rec, req, budget>>
  BY DEF Retire
<1>2. CASE Owned /\ MayRetire(run.victim, run.belief)
  <2>1. Goto("removing") /\ journal' = Retiring
    BY <1>2, HeldIsOwned, Zenon DEF Retire
  <2> QED  BY <1>1, <1>2, <2>1, GotoMoves, RetiringCommits DEF RunStages, Inv
<1>3. CASE ~Owned \/ ~MayRetire(run.victim, run.belief)
  <2>1. Goto(run.then) /\ journal' = journal
    BY <1>3, HeldIsOwned, Zenon DEF Retire
  <2>2. run.then \in RunStages
    BY DEF Inv, TypeOK, Pipelines, RunStages
  <2> QED  BY <1>1, <1>3, <2>1, <2>2, GotoMoves DEF Inv
<1> QED  BY <1>2, <1>3

\* The retired generation is removed, unless docker fails.
LEMMA RemoveDoes ==
    ASSUME Inv, Remove
    PROVE  /\ run.at = "removing" /\ Moves(run.then)
           /\ \/ BoxBut(run.victim, "absent") /\ UNCHANGED budget
              \/ Spend("fault") /\ box' = box
              \/ ~Owned /\ box' = box /\ UNCHANGED budget
           /\ UNCHANGED <<row, svc, proxy, journal, rec, req>>
BY PlainMoves, BoxSet, HeldIsOwned, Zenon DEF Remove, SetBox, Inv

\* A failed pipeline discards its candidate, through the lease if it has one.
LEMMA UnwindDoes ==
    ASSUME Inv, Unwind
    PROVE  /\ run.at = "unwind" /\ (run.leased => Owned)
           /\ \/ /\ Moves("reviving") /\ journal' = journal
                 /\ (run.cand = None \/ run.retain \/ run.leased)
              \/ /\ Moves("discarding") /\ run.cand # None /\ ~run.retain
                 /\ \/ run.leased /\ MayRetire(run.cand, run.belief) /\ Commits
                    \/ ~run.leased /\ journal' = journal
           /\ UNCHANGED <<row, svc, box, proxy, rec, req, budget>>
<1> DEFINE spared == run.cand = None \/ run.retain
           refused == run.leased /\ ~MayRetire(run.cand, run.belief)
           next == IF spared \/ refused THEN "reviving" ELSE "discarding"
<1>1. /\ run.at = "unwind" /\ UNCHANGED <<row, svc, box, proxy, rec, req, budget>>
      /\ run.leased => Owned
      /\ journal' = IF run.leased /\ ~spared /\ ~refused THEN Retiring ELSE journal
      /\ run' = [run EXCEPT !.at = next, !.cancelled = row[run.dep] = "cancelled"]
  BY HeldIsOwned, Zenon DEF Unwind, Fenced
<1>2. next \in RunStages
  BY DEF RunStages
<1>3. Moves(next)
  <2>1. PICK b \in BOOLEAN : b = (row[run.dep] = "cancelled")
    OBVIOUS
  <2>2. run \in Pipelines /\ run' = [run EXCEPT !.at = next, !.cancelled = b]
    BY <1>1, <2>1 DEF Inv, TypeOK
  <2> HIDE DEF next
  <2> QED  BY <1>2, <2>2 DEF Pipelines, Moves, Alike, SameOne, SameHold, SameAim, SameFlip
<1>4. CASE spared \/ refused
  <2>1. next = "reviving" /\ journal' = journal
    BY <1>1, <1>4
  <2> QED  BY <1>1, <1>3, <1>4, <2>1
<1>5. CASE ~spared /\ ~refused
  <2>1. next = "discarding"
    BY <1>5
  <2>2. run.leased => Commits
    BY <1>1, <1>5, RetiringCommits DEF Inv
  <2> QED  BY <1>1, <1>3, <1>5, <2>1, <2>2
<1> QED  BY <1>4, <1>5

\* The candidate is removed, unless docker fails.
LEMMA DiscardDoes ==
    ASSUME Inv, Discard
    PROVE  /\ run.at = "discarding" /\ Moves("reviving")
           /\ \/ BoxBut(run.cand, "absent") /\ UNCHANGED budget
              \/ Spend("fault") /\ box' = box
              \/ run.leased /\ ~Owned /\ box' = box /\ UNCHANGED budget
           /\ UNCHANGED <<row, svc, proxy, journal, rec, req>>
BY PlainMoves, BoxSet, HeldIsOwned, Zenon DEF Discard, SetBox, Inv, Fenced

\* A generation is started again, unless it is gone, up, or its ports are taken.
LEMMA RevivedIs ==
    ASSUME NEW b \in [Deployments -> BoxStates], NEW c \in Runtimes
    PROVE  \/ /\ Revived(c, b) = b
              /\ b[c] # "exited" \/ (hostPorts /\ \E d \in Deployments : b[d] = "up") \/ c = None
           \/ /\ c # None /\ b[c] = "exited"
              /\ \A e \in Deployments : Revived(c, b)[e] = IF e = c THEN "up" ELSE b[e]
BY DEF Revived

\* A failed pipeline starts the previous generation again.
LEMMA ReviveDoes ==
    ASSUME Inv, Revive \/ LateCancel
    PROVE  /\ \/ Revive /\ run.at = "reviving" /\ Moves("settling")
              \/ LateCancel /\ run.at = "lateCancel" /\ Moves("lateSettle")
           /\ \/ box' = box /\ \/ run.retain \/ run.prev = None \/ box[run.prev] # "exited"
                               \/ hostPorts /\ \E d \in Deployments : box[d] = "up"
              \/ box[run.prev] = "exited" /\ run.prev # None /\ BoxBut(run.prev, "up")
           /\ UNCHANGED <<row, svc, proxy, journal, rec, req, budget>>
<1>1. /\ \/ Revive /\ run.at = "reviving" /\ Moves("settling")
         \/ LateCancel /\ run.at = "lateCancel" /\ Moves("lateSettle")
      /\ UNCHANGED <<row, svc, proxy, journal, rec, req, budget>>
  BY PlainMoves, Zenon DEF Revive, LateCancel, Inv
<1>2. box' = Revived(run.prev, box) \/ (run.retain /\ box' = box)
  BY Zenon DEF Revive, LateCancel
<1>3. box \in [Deployments -> BoxStates] /\ run.prev \in Runtimes
  BY Types DEF Inv, TypeOK
<1> QED  BY <1>1, <1>2, <1>3, RevivedIs DEF BoxBut

\* A failed pipeline writes `running` only over a previous generation it found up.
LEMMA SettleFailureDoes ==
    ASSUME Inv, SettleFailure
    PROVE  /\ run.at = "settling" /\ Moves("exiting") /\ Spent("fault")
           /\ \/ svc' = svc
              \/ /\ ~run.leased \/ Owned
                 /\ \/ svc'.runtime = svc.runtime
                       /\ \/ svc'.status = "running" /\ Up(run.prev)
                          \/ svc'.status = "idle"
                    \/ svc'.runtime = run.prev /\ svc'.status = "error"
           /\ svc.status # "stopped" /\ (~run.leased \/ Owned) => svc'.status # "deploying"
           /\ UNCHANGED <<box, proxy, journal, rec, req>>
<1>1. /\ run.at = "settling" /\ Moves("exiting") /\ Spent("fault")
      /\ UNCHANGED <<box, proxy, journal, rec, req>>
  BY PlainMoves, Zenon DEF SettleFailure, Inv, Spent
<1>2. \/ svc' = svc /\ (svc.status = "stopped" \/ (run.leased /\ ~Owned))
      \/ /\ ~run.leased \/ Owned
         /\ \/ svc' = [svc EXCEPT !.status = "running"] /\ Up(run.prev)
            \/ svc' = [svc EXCEPT !.status = "idle"]
            \/ svc' = [status |-> "error", runtime |-> run.prev]
  BY HeldIsOwned, ZenonT(30) DEF SettleFailure, Fenced, UnlessStopped
<1>3. svc \in Services
  BY DEF Inv, TypeOK
<1> QED  BY <1>1, <1>2, <1>3 DEF Services

\* A late cancel puts the previous generation back.
LEMMA LateSettleDoes ==
    ASSUME Inv, LateSettle
    PROVE  /\ run.at = "lateSettle" /\ Moves("exiting")
           /\ \/ svc' = svc
              \/ /\ ~run.leased \/ Owned
                 /\ \/ svc'.runtime = svc.runtime /\ svc'.status = "idle"
                    \/ svc'.runtime = run.prev /\ svc'.status = "running" /\ run.prev # None
           /\ UNCHANGED <<row, box, proxy, journal, rec, req, budget>>
<1>1. /\ run.at = "lateSettle" /\ Moves("exiting")
      /\ UNCHANGED <<row, box, proxy, journal, rec, req, budget>>
  BY PlainMoves, Zenon DEF LateSettle, Inv
<1>2. \/ svc' = svc
      \/ /\ ~run.leased \/ Owned
         /\ \/ svc' = [svc EXCEPT !.status = "idle"]
            \/ svc' = [status |-> "running", runtime |-> run.prev] /\ run.prev # None
  BY HeldIsOwned, ZenonT(30) DEF LateSettle, Fenced, UnlessStopped
<1>3. svc \in Services
  BY DEF Inv, TypeOK
<1> QED  BY <1>1, <1>2, <1>3 DEF Services

\* The end of a run closes the journal or hands it over.
LEMMA ExitDoes ==
    ASSUME Inv, Exit
    PROVE  /\ run.at = "exiting" /\ run' = IdleRun
           /\ \/ journal' = journal /\ ~Owned
              \/ Owned /\ MayComplete(run.belief) /\ journal' = NoJournal
              \/ Owned /\ Passes("nobody")
           /\ UNCHANGED <<row, svc, box, proxy, rec, req, budget>>
<1>1. run.at = "exiting" /\ run' = IdleRun /\ UNCHANGED <<row, svc, box, proxy, rec, req, budget>>
  BY DEF Exit
<1>2. Owned => run.leased
  BY <1>1 DEF Inv, Journaled
<1> QED  BY <1>1, <1>2, HeldIsOwned, JournalMoves, Zenon DEF Inv, Owned

\* A pipeline that lost its lease just ends.
LEMMA LoseLeaseDoes ==
    ASSUME Inv, LoseLease
    PROVE  /\ run.leased /\ ~Owned /\ run' = IdleRun
           /\ UNCHANGED <<row, svc, box, proxy, journal, rec, req, budget>>
BY HeldIsOwned DEF LoseLease

\* The recovery takes a lease that is over.
LEMMA RecClaimDoes ==
    ASSUME Inv, RecClaim
    PROVE  /\ rec.at = "idle" /\ Open /\ journal.owner = "nobody" /\ Passes("recovery")
           /\ rec'.at = "probing" /\ rec'.seen = svc /\ rec'.job = row[journal.dep]
           /\ UNCHANGED <<row, svc, box, proxy, run, req, budget>>
<1>1. /\ rec.at = "idle" /\ journal # NoJournal /\ journal.owner = "nobody"
      /\ UNCHANGED <<row, svc, box, proxy, run, req, budget>>
  BY DEF RecClaim
<1> QED  BY <1>1, RecMoves, JournalMoves DEF Inv, Journaled

\* A selection is one of the two generations, healthy, and the committed one if
\* a retirement was committed.
LEMMA SelectedIs ==
    ASSUME NEW healthy, Selected(healthy) # None
    PROVE  /\ Selected(healthy) \in healthy \cap {journal.prev, journal.dep}
           /\ journal.phase = "retiring" => rec.seen.runtime = journal.desired
           /\ ~journal.interrupted /\ rec.seen.runtime \in {journal.prev, journal.dep}
                => Selected(healthy) \in {rec.seen.runtime, journal.prev}
BY DEF Selected, Interrupted

\* The recovery names a healthy generation, or gives up for this cycle.
LEMMA RecSelectDoes ==
    ASSUME Inv, RecSelect
    PROVE  /\ rec.at = "probing" /\ journal.owner = "recovery" /\ Spent("fault")
           /\ \/ Passes("nobody") /\ rec' = IdleRec /\ svc' = svc
              \/ /\ journal' = journal /\ rec'.at = "flip" /\ rec'.seen = svc' /\ rec'.job = rec.job
                 /\ journal.phase = "retiring" => svc'.runtime = svc.runtime
                 /\ \/ svc' = svc /\ svc.status = "stopped"
                    \/ /\ svc'.status = "running" /\ Up(svc'.runtime)
                       /\ svc'.runtime \in {journal.prev, journal.dep}
                       /\ ~journal.interrupted => svc'.runtime \in {svc.runtime, journal.prev}
           /\ UNCHANGED <<row, box, proxy, run, req>>
<1>1. /\ rec.at = "probing" /\ journal.owner = "recovery" /\ UNCHANGED <<row, box, proxy, run, req>>
  BY HeldIsOwned DEF RecSelect
<1>2. Spent("fault")
  BY ZenonT(20) DEF RecSelect, Spent
<1>3. /\ journal.phase = "retiring" => journal.desired = svc.runtime
      /\ svc.runtime \in {journal.prev, journal.dep}
  BY <1>1 DEF Inv, Named, Journaled
<1>4. \/ Passes("nobody") /\ rec' = IdleRec /\ svc' = svc
      \/ /\ journal' = journal /\ StillCurrent
         /\ \E healthy : /\ healthy \subseteq {c \in {journal.prev, journal.dep} : Up(c)}
                         /\ \/ rec.seen.status = "stopped" /\ svc' = svc
                            \/ /\ Selected(healthy) # None
                               /\ svc' = [status |-> "running", runtime |-> Selected(healthy)]
         /\ rec'.at = "flip"
  <2>1. CASE journal' = [journal EXCEPT !.owner = "nobody"]
    BY <2>1, JournalMoves, OwnerPasses, Zenon DEF RecSelect, Inv
  <2> QED  BY <2>1, JournalMoves, ZenonT(30) DEF RecSelect, Inv
<1>5. rec' = IdleRec \/ (rec'.at = "flip" /\ rec'.seen = svc' /\ rec'.job = rec.job)
  BY RecMoves
<1>6. CASE Passes("nobody") /\ rec' = IdleRec /\ svc' = svc
  BY <1>1, <1>2, <1>6
<1>7. CASE /\ journal' = journal /\ StillCurrent /\ rec'.at = "flip"
           /\ rec.seen.status = "stopped" /\ svc' = svc
  BY <1>1, <1>2, <1>5, <1>7, IdleRecIs DEF StillCurrent
<1>8. ASSUME NEW healthy, journal' = journal, StillCurrent, rec'.at = "flip",
             healthy \subseteq {c \in {journal.prev, journal.dep} : Up(c)},
             Selected(healthy) # None, svc' = [status |-> "running", runtime |-> Selected(healthy)]
      PROVE  /\ journal' = journal /\ rec'.at = "flip" /\ rec'.seen = svc' /\ rec'.job = rec.job
             /\ journal.phase = "retiring" => svc'.runtime = svc.runtime
             /\ svc'.status = "running" /\ Up(svc'.runtime)
             /\ svc'.runtime \in {journal.prev, journal.dep}
             /\ ~journal.interrupted => svc'.runtime \in {svc.runtime, journal.prev}
  <2>1. rec.seen = svc
    BY <1>8 DEF StillCurrent
  <2>2. svc'.status = "running" /\ svc'.runtime = Selected(healthy)
    BY <1>8
  <2>3. journal.phase = "retiring" => Selected(healthy) = svc.runtime
    BY <1>3, <1>8, <2>1 DEF Selected
  <2> QED  BY <1>3, <1>5, <1>8, <2>1, <2>2, <2>3, SelectedIs, IdleRecIs
<1> QED
  BY <1>1, <1>2, <1>4, <1>6, <1>7, <1>8

\* The recovery writes the routing file.
LEMMA RecFlipDoes ==
    ASSUME Inv, RecFlip
    PROVE  /\ rec.at = "flip" /\ journal.owner = "recovery" /\ run.at # "ack" /\ RecGoes("ack")
           /\ proxy'.file = svc.runtime /\ proxy'.loaded = proxy.loaded
           /\ UNCHANGED <<row, svc, box, journal, run, req, budget>>
<1>1. proxy'.file = svc.runtime /\ proxy'.loaded = proxy.loaded
  BY DEF RecFlip, Inv, TypeOK
<1> QED  BY <1>1, RecMoves, HeldIsOwned DEF RecFlip

\* The recovery sees the routes loaded.
LEMMA RecAckDoes ==
    ASSUME Inv, RecAck
    PROVE  /\ rec.at = "ack" /\ journal.owner = "recovery" /\ proxy.loaded = proxy.file
           /\ rec'.at = "draining" /\ rec'.seen = rec.seen
           /\ UNCHANGED <<svc, box, proxy, journal, run, req, budget>>
<1>1. /\ rec.at = "ack" /\ journal.owner = "recovery" /\ proxy.loaded = proxy.file
      /\ UNCHANGED <<svc, box, proxy, journal, run, req, budget>>
  BY HeldIsOwned DEF RecAck
<1> QED  BY <1>1, RecMoves

\* The recovery commits to the retirement of the other generation.
LEMMA RecDrainDoes ==
    ASSUME Inv, RecDrain
    PROVE  /\ rec.at = "draining" /\ journal.owner = "recovery" /\ RecGoes("removing") /\ Commits
           /\ UNCHANGED <<row, svc, box, proxy, run, req, budget>>
<1>1. /\ rec.at = "draining" /\ journal.owner = "recovery"
      /\ UNCHANGED <<row, svc, box, proxy, run, req, budget>>
  BY HeldIsOwned DEF RecDrain
<1> QED  BY <1>1, RecMoves, JournalMoves DEF Inv

\* The recovery removes what the service row does not name.
LEMMA RecRemoveDoes ==
    ASSUME Inv, RecRemove
    PROVE  /\ rec.at = "removing" /\ RecGoes("completing")
           /\ \A c \in Deployments :
                 box'[c] = IF c \in {journal.prev, journal.dep} /\ c # svc.runtime THEN "absent"
                           ELSE box[c]
           /\ UNCHANGED <<row, svc, proxy, journal, run, req, budget>>
<1>1. \A c \in Deployments :
         box'[c] = IF c \in {journal.prev, journal.dep} /\ c # svc.runtime THEN "absent" ELSE box[c]
  BY Constants DEF RecRemove, Obsolete
<1>2. rec.at = "removing" /\ UNCHANGED <<row, svc, proxy, journal, run, req, budget>>
  BY DEF RecRemove
<1> QED  BY <1>1, <1>2, RecMoves

\* The recovery closes the journal.
LEMMA RecCompleteDoes ==
    ASSUME Inv, RecComplete
    PROVE  /\ rec.at = "completing" /\ journal.owner = "recovery" /\ MayComplete(rec.belief)
           /\ journal' = NoJournal /\ rec' = IdleRec
           /\ UNCHANGED <<row, svc, box, proxy, run, req, budget>>
BY HeldIsOwned DEF RecComplete

\* The recovery gives its lease back.
LEMMA RecHoldDoes ==
    ASSUME Inv, RecHold
    PROVE  /\ rec.at # "idle" /\ rec' = IdleRec
           /\ \/ journal.owner = "recovery" /\ Passes("nobody")
              \/ journal.owner # "recovery" /\ journal' = journal
           /\ Spent("fault")
           /\ UNCHANGED <<row, svc, box, proxy, run, req>>
<1>1. /\ rec.at # "idle" /\ rec' = IdleRec /\ Spent("fault")
      /\ UNCHANGED <<row, svc, box, proxy, run, req>>
  BY Zenon DEF RecHold, Spent
<1> QED  BY <1>1, JournalMoves DEF Inv

\* Nobody has the lease.
LEMMA LeaseExpiresDoes ==
    ASSUME Inv, LeaseExpires
    PROVE  /\ journal.owner # "nobody" /\ Passes("nobody") /\ Spend("fault")
           /\ UNCHANGED <<row, svc, box, proxy, run, rec, req>>
BY JournalMoves, Zenon DEF LeaseExpires, Inv

\* A claim begins a deployment of a service at rest.
LEMMA ClaimDoes ==
    ASSUME Inv, NEW d \in Deployments, Claim(d)
    PROVE  /\ ~Busy /\ ~Open /\ row[d] = "waiting"
           /\ \A e \in Deployments : e < d => row[e] \notin Active \cup {"waiting"}
           /\ \A e \in Deployments : row'[e] = IF e = d THEN "building" ELSE row[e]
           /\ svc'.status = "deploying" /\ svc'.runtime = svc.runtime
           /\ run'.at = "building" /\ run'.dep = d /\ run'.prev = svc.runtime
           /\ SameHold(run', IdleRun) /\ SameAim(run', IdleRun) /\ SameFlip(run', IdleRun)
           /\ UNCHANGED <<box, proxy, journal, rec, req, budget>>
<1>1. /\ ~Busy /\ ~Open /\ row[d] = "waiting"
      /\ \A e \in Deployments : e < d => row[e] \notin Active \cup {"waiting"}
      /\ UNCHANGED <<box, proxy, journal, rec, req, budget>>
  BY NoJournalIs DEF Claim, Busy, Open
<1>2. /\ \A e \in Deployments : row'[e] = IF e = d THEN "building" ELSE row[e]
      /\ svc'.status = "deploying" /\ svc'.runtime = svc.runtime
  BY DEF Claim, Inv, TypeOK, Services
<1> QED  BY <1>1, <1>2, ClaimMoves DEF Inv

\* The routes, and the restart.  None but the restart touches a transition.
LEMMA CancelDoes ==
    ASSUME Inv, NEW d \in Deployments, Cancel(d)
    PROVE  /\ Moves(run.at) /\ (~Busy => run' = run) /\ Spend("cancel")
           /\ \A e \in Deployments : row'[e] = IF e = d THEN "cancelled" ELSE row[e]
           /\ UNCHANGED <<svc, box, proxy, journal, rec, req>>
<1>1. ASSUME ~Busy PROVE run' = run
  <2>1. run = IdleRun /\ d # None
    BY <1>1, Constants DEF Inv, Staged
  <2>2. run' = run \/ run' = [run EXCEPT !.aborted = @ \/ run.dep = d]
    BY DEF Cancel, Aborted
  <2> QED  BY <2>1, <2>2 DEF IdleRun
<1> QED  BY <1>1, CancelMoves DEF Cancel, Inv, TypeOK

\* The stop route marks the row and cancels what is in progress.
LEMMA StopDoes ==
    ASSUME Inv, Stop
    PROVE  /\ svc.runtime # None /\ svc'.status = "stopped" /\ svc'.runtime = svc.runtime
           /\ req'.kind = "stop" /\ req'.target = svc.runtime /\ Spend("request")
           /\ \A e \in Deployments : row'[e] = IF row[e] \in Active THEN "cancelled" ELSE row[e]
           /\ UNCHANGED <<box, proxy, journal, run, rec>>
<1>1. svc'.status = "stopped" /\ svc'.runtime = svc.runtime
  BY DEF Stop, Inv, TypeOK, Services
<1> QED  BY <1>1 DEF Stop

\* The container the stop route had read is stopped, or the row is put back.
LEMMA StopDoneDoes ==
    ASSUME Inv, StopDone
    PROVE  /\ req.kind = "stop" /\ req' = NoRequest /\ svc'.runtime = svc.runtime
           /\ \/ box' = box
              \/ Up(req.target) /\ BoxBut(req.target, "exited") /\ svc' = svc
           /\ svc' = svc \/ svc'.status = req.old
           /\ UNCHANGED <<row, proxy, journal, run, rec>>
<1>1. /\ req.kind = "stop" /\ req' = NoRequest /\ UNCHANGED <<row, proxy, journal, run, rec>>
      /\ svc' = svc \/ (svc' = [svc EXCEPT !.status = req.old] /\ box' = box)
      /\ box' = box \/ (Up(req.target) /\ box' = [box EXCEPT ![req.target] = "exited"])
  BY ZenonT(20) DEF StopDone
<1>2. svc \in Services /\ TypeOK
  BY DEF Inv, TypeOK
<1> QED  BY <1>1, <1>2, BoxSet DEF Services

\* The start route reads the runtime.
LEMMA StartDoes ==
    ASSUME Inv, Start
    PROVE  /\ svc.runtime # None /\ req'.kind = "start" /\ req'.target = svc.runtime
           /\ Spend("request") /\ UNCHANGED <<row, svc, box, proxy, journal, run, rec>>
BY DEF Start

\* The start route starts it, if it is there and its ports are free.
LEMMA StartDoneDoes ==
    ASSUME Inv, StartDone
    PROVE  /\ req.kind = "start" /\ req' = NoRequest /\ svc'.runtime = svc.runtime
           /\ box' = box \/ (box[req.target] # "absent" /\ BoxBut(req.target, "up"))
           /\ UNCHANGED <<row, proxy, journal, run, rec, budget>>
<1>1. /\ req.kind = "start" /\ req' = NoRequest /\ UNCHANGED <<row, proxy, journal, run, rec, budget>>
      /\ svc' = svc \/ \E s : svc' = [svc EXCEPT !.status = s]
      /\ box' = box \/ (box[req.target] # "absent" /\ box' = [box EXCEPT ![req.target] = "up"])
  BY ZenonT(20) DEF StartDone, SetBox
<1>2. svc \in Services /\ TypeOK
  BY DEF Inv, TypeOK
<1> QED  BY <1>1, <1>2, BoxSet DEF Services

\* The routing file is rendered again, or loaded.
LEMMA ProxyDoes ==
    ASSUME Inv, Render \/ Load
    PROVE  /\ \/ /\ Render /\ "ack" \notin {run.at, rec.at} /\ proxy.file # svc.runtime
                 /\ proxy'.file = svc.runtime /\ proxy'.loaded = proxy.loaded
              \/ Load /\ proxy'.file = proxy.file /\ proxy'.loaded = proxy.file
           /\ UNCHANGED <<row, svc, box, journal, run, rec, req, budget>>
BY DEF Render, Load, Inv, TypeOK

\* A restart ends pipeline and recovery, fails what no journal covers, removes
\* its candidates and starts the service's own runtime again.
LEMMA RestartDoes ==
    ASSUME Inv, Restart
    PROVE  /\ run' = IdleRun /\ rec' = IdleRec /\ req' = NoRequest /\ Spend("crash")
           /\ journal'.dep = journal.dep /\ journal'.prev = journal.prev /\ SameRoute
           /\ journal'.owner = "nobody" /\ (~Open => journal' = NoJournal)
           /\ \A d \in Deployments :
                 row'[d] = IF row[d] \in Active /\ journal.dep # d THEN "failed" ELSE row[d]
           /\ svc'.runtime = svc.runtime
           /\ svc' = svc \/ (svc.status = "deploying" /\ ~Open)
           /\ proxy' = proxy
           /\ \A c \in Deployments :
                 \/ box'[c] = box[c]
                 \/ box'[c] = "absent" /\ c # svc.runtime /\ ~Open
                 \/ box[c] = "exited" /\ box'[c] = "up" /\ c = svc.runtime
<1> DEFINE lost == {d \in Deployments : row[d] \in Active /\ journal.dep # d}
<1>1. /\ run' = IdleRun /\ rec' = IdleRec /\ req' = NoRequest /\ Spend("crash") /\ proxy' = proxy
      /\ row' = [d \in Deployments |-> IF d \in lost THEN "failed" ELSE row[d]]
      /\ svc' = svc \/ (lost # {} /\ svc.status = "deploying"
                          /\ \E s : svc' = [svc EXCEPT !.status = s])
  BY ZenonT(30) DEF Restart
<1>2. lost # {} => ~Open
  BY DEF Inv, InOrder
<1>3. /\ journal'.dep = journal.dep /\ journal'.prev = journal.prev /\ SameRoute
      /\ journal'.owner = "nobody"
  BY JournalMoves DEF Inv
<1>4. ~Open => journal' = NoJournal
  <2>1. ASSUME ~Open PROVE journal' = NoJournal
    <3>1. journal = NoJournal /\ journal.dep = None
      BY <2>1 DEF Inv, Journaled, Open
    <3>2. journal' = [journal EXCEPT !.owner = "nobody", !.interrupted =
                         @ \/ (journal.dep # None /\ row[journal.dep] \in Active)]
      BY Zenon DEF Restart
    <3> QED  BY <3>1, <3>2 DEF NoJournal
  <2> QED  BY <2>1
<1>5. svc \in Services
  BY DEF Inv, TypeOK
<1>6. \A c \in Deployments :
         \/ box'[c] = box[c]
         \/ box'[c] = "absent" /\ c # svc.runtime /\ ~Open
         \/ box[c] = "exited" /\ box'[c] = "up" /\ c = svc.runtime
  <2>1. box \in [Deployments -> BoxStates] /\ svc.runtime \in Runtimes
    BY Types DEF Inv, TypeOK
  <2>2. CASE lost = {}
    <3>1. box' = box
      BY <2>2, Zenon DEF Restart
    <3> QED  BY <3>1
  <2>3. CASE lost # {}
    <3>1. PICK b : b = Cleared(lost)
      OBVIOUS
    <3>2. box' = Revived(svc.runtime, b)
      BY <2>3, <3>1, Zenon DEF Restart
    <3>3. /\ b \in [Deployments -> BoxStates]
          /\ \A c \in Deployments : b[c] = box[c] \/ (b[c] = "absent" /\ c # svc.runtime)
      BY <2>1, <3>1 DEF Cleared, BoxStates
    <3>4. svc.runtime # None => b[svc.runtime] = box[svc.runtime]
      BY <2>1, <3>3 DEF Runtimes
    <3> HIDE DEF lost
    <3> QED  BY <1>2, <2>1, <2>3, <3>2, <3>3, <3>4, RevivedIs
  <2> QED  BY <2>2, <2>3
<1> QED  BY <1>1, <1>2, <1>3, <1>4, <1>5, <1>6 DEF Services

-----------------------------------------------------------------------------
(* The invariant is kept                                                   *)

Claims == \E d \in Deployments : Claim(d)

\* A step that is no claim.
Other ==
    \/ Works \/ Exit \/ LoseLease
    \/ RecClaim \/ RecSelect \/ RecFlip \/ RecAck \/ RecDrain \/ RecRemove \/ RecComplete
    \/ RecHold \/ LeaseExpires \/ (\E d \in Deployments : Cancel(d))
    \/ Stop \/ StopDone \/ Start \/ StartDone \/ Render \/ Load \/ Restart
    \/ UNCHANGED vars

\* A step that is no claim is one of those.
LEMMA Actions == ASSUME [Next]_vars, ~Claims PROVE Other
BY Zenon DEF Next, RunStep, RecStep, RequestEnds, Loads, Works, Claims, Other

\* The journal follows the pipeline and the recovery: one owner, one transition.
LEMMA StepJournaled ==
    ASSUME Inv, RowsKept, [Next]_vars, ~Claims
    PROVE  (Journaled /\ Staged)'
<1>a. Other
  BY Actions
<1> USE IdleRunIs, IdleRecIs, NoJournalIs, Ids
    DEF Inv, Busy, Open, Owned, Building,
        Unwinding, Before, Routing, Late, Retirement, Forward, Moves, Alike, SameOne,
        SameHold, SameAim, SameFlip, Passes, Commits, SameTransition, SameRoute,
        RecGoes, FlipGoes, RowsKept, Journaled, Staged
<1>1. HandPorts => (Journaled /\ Staged)'
  BY HandPortsDoes
<1>2. StartCandidate => (Journaled /\ Staged)'
  BY StartCandidateDoes
<1>3. BuildFails \/ ProbeFails => (Journaled /\ Staged)'
  BY FailsDoes
<1>4. OpenJournal => (Journaled /\ Staged)'
  BY OpenJournalDoes
<1>5. CaptureIdentities => (Journaled /\ Staged)'
  BY CaptureIdentitiesDoes
<1>6. CaptureFails => (Journaled /\ Staged)'
  BY CaptureFailsDoes
<1>7. Verify => (Journaled /\ Staged)'
  BY VerifyDoes
<1>8. Finalize => (Journaled /\ Staged)'
  BY FinalizeDoes
<1>9. Persist => (Journaled /\ Staged)'
  BY PersistDoes
<1>10. FlipWrite => (Journaled /\ Staged)'
  BY FlipWriteDoes
<1>11. FlipWriteFails \/ FlipTimeout => (Journaled /\ Staged)'
  BY FlipFailsDoes
<1>12. FlipAck => (Journaled /\ Staged)'
  BY FlipAckDoes
<1>13. Revert => (Journaled /\ Staged)'
  BY RevertDoes
<1>14. Promote => (Journaled /\ Staged)'
  BY PromoteDoes
<1>15. Restore => (Journaled /\ Staged)'
  BY RestoreDoes
<1>16. Retire => (Journaled /\ Staged)'
  BY RetireDoes
<1>17. Remove => (Journaled /\ Staged)'
  BY RemoveDoes
<1>18. Unwind => (Journaled /\ Staged)'
  BY UnwindDoes
<1>19. Discard => (Journaled /\ Staged)'
  BY DiscardDoes
<1>20. Revive \/ LateCancel => (Journaled /\ Staged)'
  BY ReviveDoes
<1>21. SettleFailure => (Journaled /\ Staged)'
  BY SettleFailureDoes
<1>22. LateSettle => (Journaled /\ Staged)'
  BY LateSettleDoes
<1>23. Exit => (Journaled /\ Staged)'
  BY ExitDoes
<1>24. LoseLease => (Journaled /\ Staged)'
  BY LoseLeaseDoes
<1>25. RecClaim => (Journaled /\ Staged)'
  BY RecClaimDoes
<1>26. RecSelect => (Journaled /\ Staged)'
  BY RecSelectDoes
<1>27. RecFlip => (Journaled /\ Staged)'
  BY RecFlipDoes
<1>28. RecAck => (Journaled /\ Staged)'
  BY RecAckDoes
<1>29. RecDrain => (Journaled /\ Staged)'
  BY RecDrainDoes
<1>30. RecRemove => (Journaled /\ Staged)'
  BY RecRemoveDoes
<1>31. RecComplete => (Journaled /\ Staged)'
  BY RecCompleteDoes
<1>32. RecHold => (Journaled /\ Staged)'
  BY RecHoldDoes
<1>33. LeaseExpires => (Journaled /\ Staged)'
  BY LeaseExpiresDoes
<1>34. (\E d \in Deployments : Cancel(d)) => (Journaled /\ Staged)'
  BY CancelDoes
<1>35. Stop => (Journaled /\ Staged)'
  BY StopDoes
<1>36. StopDone => (Journaled /\ Staged)'
  BY StopDoneDoes
<1>37. Start => (Journaled /\ Staged)'
  BY StartDoes
<1>38. StartDone => (Journaled /\ Staged)'
  BY StartDoneDoes
<1>39. Render \/ Load => (Journaled /\ Staged)'
  BY ProxyDoes
<1>40. Restart => (Journaled /\ Staged)'
  BY RestartDoes
<1>41. UNCHANGED vars => (Journaled /\ Staged)'
  BY DEF vars, InOrder, RowsKept
<1> QED
  BY ONLY <1>a, <1>1, <1>2, <1>3, <1>4, <1>5, <1>6, <1>7, <1>8, <1>9, <1>10, <1>11, <1>12,
     <1>13, <1>14, <1>15, <1>16, <1>17, <1>18, <1>19, <1>20, <1>21, <1>22, <1>23, <1>24, <1>25,
     <1>26, <1>27, <1>28, <1>29, <1>30, <1>31, <1>32, <1>33, <1>34, <1>35, <1>36, <1>37, <1>38,
     <1>39, <1>40, <1>41, Zenon DEF Other, Works

\* The service row names what the stage of its owner says.
LEMMA StepNamed ==
    ASSUME Inv, RowsKept, [Next]_vars, ~Claims
    PROVE  (Phased /\ Named)'
<1>a. Other
  BY Actions
<1> USE IdleRunIs, IdleRecIs, NoJournalIs, Ids
    DEF Inv, Busy, Open, Owned, Building,
        Unwinding, Before, Routing, Late, Retirement, Forward, Moves, Alike, SameOne,
        SameHold, SameAim, SameFlip, Passes, Commits, SameTransition, SameRoute,
        RecGoes, FlipGoes, RowsKept, Journaled, Staged, Phased, Named
<1>1. HandPorts => (Phased /\ Named)'
  BY HandPortsDoes
<1>2. StartCandidate => (Phased /\ Named)'
  BY StartCandidateDoes
<1>3. BuildFails \/ ProbeFails => (Phased /\ Named)'
  BY FailsDoes
<1>4. OpenJournal => (Phased /\ Named)'
  BY OpenJournalDoes
<1>5. CaptureIdentities => (Phased /\ Named)'
  BY CaptureIdentitiesDoes
<1>6. CaptureFails => (Phased /\ Named)'
  BY CaptureFailsDoes
<1>7. Verify => (Phased /\ Named)'
  BY VerifyDoes
<1>8. Finalize => (Phased /\ Named)'
  BY FinalizeDoes
<1>9. Persist => (Phased /\ Named)'
  BY PersistDoes
<1>10. FlipWrite => (Phased /\ Named)'
  BY FlipWriteDoes
<1>11. FlipWriteFails \/ FlipTimeout => (Phased /\ Named)'
  BY FlipFailsDoes
<1>12. FlipAck => (Phased /\ Named)'
  BY FlipAckDoes
<1>13. Revert => (Phased /\ Named)'
  BY RevertDoes
<1>14. Promote => (Phased /\ Named)'
  BY PromoteDoes
<1>15. Restore => (Phased /\ Named)'
  BY RestoreDoes
<1>16. Retire => (Phased /\ Named)'
  BY RetireDoes
<1>17. Remove => (Phased /\ Named)'
  BY RemoveDoes
<1>18. Unwind => (Phased /\ Named)'
  BY UnwindDoes
<1>19. Discard => (Phased /\ Named)'
  BY DiscardDoes
<1>20. Revive \/ LateCancel => (Phased /\ Named)'
  BY ReviveDoes
<1>21. SettleFailure => (Phased /\ Named)'
  BY SettleFailureDoes
<1>22. LateSettle => (Phased /\ Named)'
  BY LateSettleDoes
<1>23. Exit => (Phased /\ Named)'
  BY ExitDoes
<1>24. LoseLease => (Phased /\ Named)'
  BY LoseLeaseDoes
<1>25. RecClaim => (Phased /\ Named)'
  BY RecClaimDoes
<1>26. RecSelect => (Phased /\ Named)'
  BY RecSelectDoes
<1>27. RecFlip => (Phased /\ Named)'
  BY RecFlipDoes
<1>28. RecAck => (Phased /\ Named)'
  BY RecAckDoes
<1>29. RecDrain => (Phased /\ Named)'
  BY RecDrainDoes
<1>30. RecRemove => (Phased /\ Named)'
  BY RecRemoveDoes
<1>31. RecComplete => (Phased /\ Named)'
  BY RecCompleteDoes
<1>32. RecHold => (Phased /\ Named)'
  BY RecHoldDoes
<1>33. LeaseExpires => (Phased /\ Named)'
  BY LeaseExpiresDoes
<1>34. (\E d \in Deployments : Cancel(d)) => (Phased /\ Named)'
  BY CancelDoes
<1>35. Stop => (Phased /\ Named)'
  BY StopDoes
<1>36. StopDone => (Phased /\ Named)'
  BY StopDoneDoes
<1>37. Start => (Phased /\ Named)'
  BY StartDoes
<1>38. StartDone => (Phased /\ Named)'
  BY StartDoneDoes
<1>39. Render \/ Load => (Phased /\ Named)'
  BY ProxyDoes
<1>40. Restart => (Phased /\ Named)'
  BY RestartDoes
<1>41. UNCHANGED vars => (Phased /\ Named)'
  BY DEF vars, InOrder, RowsKept
<1> QED
  BY ONLY <1>a, <1>1, <1>2, <1>3, <1>4, <1>5, <1>6, <1>7, <1>8, <1>9, <1>10, <1>11, <1>12,
     <1>13, <1>14, <1>15, <1>16, <1>17, <1>18, <1>19, <1>20, <1>21, <1>22, <1>23, <1>24, <1>25,
     <1>26, <1>27, <1>28, <1>29, <1>30, <1>31, <1>32, <1>33, <1>34, <1>35, <1>36, <1>37, <1>38,
     <1>39, <1>40, <1>41, Zenon DEF Other, Works

\* A removal is decided for a generation nobody names or routes, and stays so.
LEMMA StepRemoving ==
    ASSUME Inv, RowsKept, [Next]_vars, ~Claims
    PROVE  Removing'
<1>a. Other
  BY Actions
<1> USE IdleRunIs, IdleRecIs, NoJournalIs, Ids
    DEF Inv, Busy, Open, Owned, Building,
        Unwinding, Before, Routing, Late, Retirement, Forward, Moves, Alike, SameOne,
        SameHold, SameAim, SameFlip, Passes, Commits, SameTransition, SameRoute,
        RecGoes, FlipGoes, Journaled, Staged, Phased, Named, Removing, Aside, MayRetire,
        Routed, Routes
<1>1. HandPorts => Removing'
  BY HandPortsDoes
<1>2. StartCandidate => Removing'
  BY StartCandidateDoes
<1>3. BuildFails \/ ProbeFails => Removing'
  BY FailsDoes
<1>4. OpenJournal => Removing'
  BY OpenJournalDoes
<1>5. CaptureIdentities => Removing'
  BY CaptureIdentitiesDoes
<1>6. CaptureFails => Removing'
  BY CaptureFailsDoes
<1>7. Verify => Removing'
  BY VerifyDoes
<1>8. Finalize => Removing'
  BY FinalizeDoes
<1>9. Persist => Removing'
  BY PersistDoes
<1>10. FlipWrite => Removing'
  BY FlipWriteDoes
<1>11. FlipWriteFails \/ FlipTimeout => Removing'
  BY FlipFailsDoes
<1>12. FlipAck => Removing'
  BY FlipAckDoes
<1>13. Revert => Removing'
  BY RevertDoes
<1>14. Promote => Removing'
  BY PromoteDoes
<1>15. Restore => Removing'
  BY RestoreDoes
<1>16. Retire => Removing'
  BY RetireDoes DEF Believed
<1>17. Remove => Removing'
  BY RemoveDoes
<1>18. Unwind => Removing'
  BY UnwindDoes
<1>19. Discard => Removing'
  BY DiscardDoes
<1>20. Revive \/ LateCancel => Removing'
  BY ReviveDoes
<1>21. SettleFailure => Removing'
  BY SettleFailureDoes
<1>22. LateSettle => Removing'
  BY LateSettleDoes
<1>23. Exit => Removing'
  BY ExitDoes
<1>24. LoseLease => Removing'
  BY LoseLeaseDoes
<1>25. RecClaim => Removing'
  BY RecClaimDoes
<1>26. RecSelect => Removing'
  BY RecSelectDoes
<1>27. RecFlip => Removing'
  BY RecFlipDoes
<1>28. RecAck => Removing'
  BY RecAckDoes
<1>29. RecDrain => Removing'
  BY RecDrainDoes
<1>30. RecRemove => Removing'
  BY RecRemoveDoes
<1>31. RecComplete => Removing'
  BY RecCompleteDoes
<1>32. RecHold => Removing'
  BY RecHoldDoes
<1>33. LeaseExpires => Removing'
  BY LeaseExpiresDoes
<1>34. (\E d \in Deployments : Cancel(d)) => Removing'
  BY CancelDoes
<1>35. Stop => Removing'
  BY StopDoes
<1>36. StopDone => Removing'
  BY StopDoneDoes
<1>37. Start => Removing'
  BY StartDoes
<1>38. StartDone => Removing'
  BY StartDoneDoes
<1>39. Render \/ Load => Removing'
  BY ProxyDoes
<1>40. Restart => Removing'
  BY RestartDoes
<1>41. UNCHANGED vars => Removing'
  BY DEF vars, InOrder, RowsKept
<1> QED
  BY ONLY <1>a, <1>1, <1>2, <1>3, <1>4, <1>5, <1>6, <1>7, <1>8, <1>9, <1>10, <1>11, <1>12,
     <1>13, <1>14, <1>15, <1>16, <1>17, <1>18, <1>19, <1>20, <1>21, <1>22, <1>23, <1>24, <1>25,
     <1>26, <1>27, <1>28, <1>29, <1>30, <1>31, <1>32, <1>33, <1>34, <1>35, <1>36, <1>37, <1>38,
     <1>39, <1>40, <1>41, Zenon DEF Other, Works

\* What the pipeline saw loaded is loaded as long as it owns the lease.
LEMMA StepBelieved ==
    ASSUME Inv, RowsKept, [Next]_vars, ~Claims
    PROVE  Believed'
<1>a. Other
  BY Actions
<1> USE IdleRunIs, IdleRecIs, NoJournalIs, Ids
    DEF Inv, Busy, Open, Owned, Building,
        Unwinding, Before, Routing, Late, Retirement, Forward, Moves, Alike, SameOne,
        SameHold, SameAim, SameFlip, Passes, Commits, SameTransition, SameRoute,
        RecGoes, FlipGoes, Journaled, Staged, Named, Believed, Routed, Routes
<1>1. HandPorts => Believed'
  BY HandPortsDoes
<1>2. StartCandidate => Believed'
  BY StartCandidateDoes
<1>3. BuildFails \/ ProbeFails => Believed'
  BY FailsDoes
<1>4. OpenJournal => Believed'
  BY OpenJournalDoes
<1>5. CaptureIdentities => Believed'
  BY CaptureIdentitiesDoes
<1>6. CaptureFails => Believed'
  BY CaptureFailsDoes
<1>7. Verify => Believed'
  BY VerifyDoes
<1>8. Finalize => Believed'
  BY FinalizeDoes
<1>9. Persist => Believed'
  BY PersistDoes
<1>10. FlipWrite => Believed'
  BY FlipWriteDoes
<1>11. FlipWriteFails \/ FlipTimeout => Believed'
  BY FlipFailsDoes
<1>12. FlipAck => Believed'
  BY FlipAckDoes
<1>13. Revert => Believed'
  BY RevertDoes
<1>14. Promote => Believed'
  BY PromoteDoes
<1>15. Restore => Believed'
  BY RestoreDoes
<1>16. Retire => Believed'
  BY RetireDoes
<1>17. Remove => Believed'
  BY RemoveDoes
<1>18. Unwind => Believed'
  BY UnwindDoes
<1>19. Discard => Believed'
  BY DiscardDoes
<1>20. Revive \/ LateCancel => Believed'
  BY ReviveDoes
<1>21. SettleFailure => Believed'
  BY SettleFailureDoes
<1>22. LateSettle => Believed'
  BY LateSettleDoes
<1>23. Exit => Believed'
  BY ExitDoes
<1>24. LoseLease => Believed'
  BY LoseLeaseDoes
<1>25. RecClaim => Believed'
  BY RecClaimDoes
<1>26. RecSelect => Believed'
  BY RecSelectDoes
<1>27. RecFlip => Believed'
  BY RecFlipDoes
<1>28. RecAck => Believed'
  BY RecAckDoes
<1>29. RecDrain => Believed'
  BY RecDrainDoes
<1>30. RecRemove => Believed'
  BY RecRemoveDoes
<1>31. RecComplete => Believed'
  BY RecCompleteDoes
<1>32. RecHold => Believed'
  BY RecHoldDoes
<1>33. LeaseExpires => Believed'
  BY LeaseExpiresDoes
<1>34. (\E d \in Deployments : Cancel(d)) => Believed'
  BY CancelDoes
<1>35. Stop => Believed'
  BY StopDoes
<1>36. StopDone => Believed'
  BY StopDoneDoes
<1>37. Start => Believed'
  BY StartDoes
<1>38. StartDone => Believed'
  BY StartDoneDoes
<1>39. Render \/ Load => Believed'
  BY ProxyDoes
<1>40. Restart => Believed'
  BY RestartDoes
<1>41. UNCHANGED vars => Believed'
  BY DEF vars, InOrder, RowsKept
<1> QED
  BY ONLY <1>a, <1>1, <1>2, <1>3, <1>4, <1>5, <1>6, <1>7, <1>8, <1>9, <1>10, <1>11, <1>12,
     <1>13, <1>14, <1>15, <1>16, <1>17, <1>18, <1>19, <1>20, <1>21, <1>22, <1>23, <1>24, <1>25,
     <1>26, <1>27, <1>28, <1>29, <1>30, <1>31, <1>32, <1>33, <1>34, <1>35, <1>36, <1>37, <1>38,
     <1>39, <1>40, <1>41, Zenon DEF Other, Works

\* The routes follow the service row outside a transition.
LEMMA StepRouted ==
    ASSUME Inv, RowsKept, [Next]_vars, ~Claims
    PROVE  Routed'
<1>a. Other
  BY Actions
<1> USE IdleRunIs, IdleRecIs, NoJournalIs, Ids
    DEF Inv, Busy, Open, Owned, Building,
        Unwinding, Before, Routing, Late, Retirement, Forward, Moves, Alike, SameOne,
        SameHold, SameAim, SameFlip, Passes, Commits, SameTransition, SameRoute,
        RecGoes, FlipGoes, Journaled, Named, Routed, Routes
<1>1. HandPorts => Routed'
  BY HandPortsDoes
<1>2. StartCandidate => Routed'
  BY StartCandidateDoes
<1>3. BuildFails \/ ProbeFails => Routed'
  BY FailsDoes
<1>4. OpenJournal => Routed'
  BY OpenJournalDoes DEF Staged
<1>5. CaptureIdentities => Routed'
  BY CaptureIdentitiesDoes
<1>6. CaptureFails => Routed'
  BY CaptureFailsDoes
<1>7. Verify => Routed'
  BY VerifyDoes
<1>8. Finalize => Routed'
  BY FinalizeDoes
<1>9. Persist => Routed'
  BY PersistDoes DEF Phased
<1>10. FlipWrite => Routed'
  BY FlipWriteDoes
<1>11. FlipWriteFails \/ FlipTimeout => Routed'
  BY FlipFailsDoes
<1>12. FlipAck => Routed'
  BY FlipAckDoes
<1>13. Revert => Routed'
  BY RevertDoes DEF Phased
<1>14. Promote => Routed'
  BY PromoteDoes
<1>15. Restore => Routed'
  BY RestoreDoes DEF Phased
<1>16. Retire => Routed'
  BY RetireDoes
<1>17. Remove => Routed'
  BY RemoveDoes
<1>18. Unwind => Routed'
  BY UnwindDoes
<1>19. Discard => Routed'
  BY DiscardDoes
<1>20. Revive \/ LateCancel => Routed'
  BY ReviveDoes
<1>21. SettleFailure => Routed'
  BY SettleFailureDoes
<1>22. LateSettle => Routed'
  BY LateSettleDoes
<1>23. Exit => Routed'
  BY ExitDoes DEF Staged, Phased, Believed, MayComplete
<1>24. LoseLease => Routed'
  BY LoseLeaseDoes
<1>25. RecClaim => Routed'
  BY RecClaimDoes
<1>26. RecSelect => Routed'
  BY RecSelectDoes
<1>27. RecFlip => Routed'
  BY RecFlipDoes
<1>28. RecAck => Routed'
  BY RecAckDoes
<1>29. RecDrain => Routed'
  BY RecDrainDoes
<1>30. RecRemove => Routed'
  BY RecRemoveDoes
<1>31. RecComplete => Routed'
  BY RecCompleteDoes
<1>32. RecHold => Routed'
  BY RecHoldDoes
<1>33. LeaseExpires => Routed'
  BY LeaseExpiresDoes
<1>34. (\E d \in Deployments : Cancel(d)) => Routed'
  BY CancelDoes
<1>35. Stop => Routed'
  BY StopDoes
<1>36. StopDone => Routed'
  BY StopDoneDoes
<1>37. Start => Routed'
  BY StartDoes
<1>38. StartDone => Routed'
  BY StartDoneDoes
<1>39. Render \/ Load => Routed'
  BY ProxyDoes
<1>40. Restart => Routed'
  BY RestartDoes
<1>41. UNCHANGED vars => Routed'
  BY DEF vars, InOrder, RowsKept
<1> QED
  BY ONLY <1>a, <1>1, <1>2, <1>3, <1>4, <1>5, <1>6, <1>7, <1>8, <1>9, <1>10, <1>11, <1>12,
     <1>13, <1>14, <1>15, <1>16, <1>17, <1>18, <1>19, <1>20, <1>21, <1>22, <1>23, <1>24, <1>25,
     <1>26, <1>27, <1>28, <1>29, <1>30, <1>31, <1>32, <1>33, <1>34, <1>35, <1>36, <1>37, <1>38,
     <1>39, <1>40, <1>41, Zenon DEF Other, Works

\* No step removes what the service row names, nor what it may go back to.
LEMMA StepServing ==
    ASSUME Inv, RowsKept, [Next]_vars, ~Claims
    PROVE  (BothKept /\ ServingExists)'
<1>a. Other
  BY Actions
<1> USE IdleRunIs, IdleRecIs, NoJournalIs, Ids
    DEF Inv, Busy, Open, Owned, Building,
        Unwinding, Before, Routing, Late, Retirement, Forward, Moves, Alike, SameOne,
        SameHold, SameAim, SameFlip, Passes, Commits, SameTransition, SameRoute,
        RecGoes, FlipGoes, Journaled, Staged, Named, BothKept, Exists, BoxBut, Up,
        ServingExists, Removing, Aside
<1>1. HandPorts => (BothKept /\ ServingExists)'
  BY HandPortsDoes
<1>2. StartCandidate => (BothKept /\ ServingExists)'
  BY StartCandidateDoes
<1>3. BuildFails \/ ProbeFails => (BothKept /\ ServingExists)'
  BY FailsDoes
<1>4. OpenJournal => (BothKept /\ ServingExists)'
  BY OpenJournalDoes
<1>5. CaptureIdentities => (BothKept /\ ServingExists)'
  BY CaptureIdentitiesDoes
<1>6. CaptureFails => (BothKept /\ ServingExists)'
  BY CaptureFailsDoes
<1>7. Verify => (BothKept /\ ServingExists)'
  BY VerifyDoes
<1>8. Finalize => (BothKept /\ ServingExists)'
  BY FinalizeDoes
<1>9. Persist => (BothKept /\ ServingExists)'
  BY PersistDoes
<1>10. FlipWrite => (BothKept /\ ServingExists)'
  BY FlipWriteDoes
<1>11. FlipWriteFails \/ FlipTimeout => (BothKept /\ ServingExists)'
  BY FlipFailsDoes
<1>12. FlipAck => (BothKept /\ ServingExists)'
  BY FlipAckDoes
<1>13. Revert => (BothKept /\ ServingExists)'
  BY RevertDoes DEF Believed
<1>14. Promote => (BothKept /\ ServingExists)'
  BY PromoteDoes
<1>15. Restore => (BothKept /\ ServingExists)'
  BY RestoreDoes
<1>16. Retire => (BothKept /\ ServingExists)'
  BY RetireDoes
<1>17. Remove => (BothKept /\ ServingExists)'
  BY RemoveDoes
<1>18. Unwind => (BothKept /\ ServingExists)'
  BY UnwindDoes
<1>19. Discard => (BothKept /\ ServingExists)'
  BY DiscardDoes
<1>20. Revive \/ LateCancel => (BothKept /\ ServingExists)'
  BY ReviveDoes
<1>21. SettleFailure => (BothKept /\ ServingExists)'
  BY SettleFailureDoes
<1>22. LateSettle => (BothKept /\ ServingExists)'
  BY LateSettleDoes
<1>23. Exit => (BothKept /\ ServingExists)'
  BY ExitDoes
<1>24. LoseLease => (BothKept /\ ServingExists)'
  BY LoseLeaseDoes
<1>25. RecClaim => (BothKept /\ ServingExists)'
  BY RecClaimDoes
<1>26. RecSelect => (BothKept /\ ServingExists)'
  BY RecSelectDoes
<1>27. RecFlip => (BothKept /\ ServingExists)'
  BY RecFlipDoes
<1>28. RecAck => (BothKept /\ ServingExists)'
  BY RecAckDoes
<1>29. RecDrain => (BothKept /\ ServingExists)'
  BY RecDrainDoes
<1>30. RecRemove => (BothKept /\ ServingExists)'
  BY RecRemoveDoes
<1>31. RecComplete => (BothKept /\ ServingExists)'
  BY RecCompleteDoes
<1>32. RecHold => (BothKept /\ ServingExists)'
  BY RecHoldDoes
<1>33. LeaseExpires => (BothKept /\ ServingExists)'
  BY LeaseExpiresDoes
<1>34. (\E d \in Deployments : Cancel(d)) => (BothKept /\ ServingExists)'
  BY CancelDoes
<1>35. Stop => (BothKept /\ ServingExists)'
  BY StopDoes
<1>36. StopDone => (BothKept /\ ServingExists)'
  BY StopDoneDoes
<1>37. Start => (BothKept /\ ServingExists)'
  BY StartDoes
<1>38. StartDone => (BothKept /\ ServingExists)'
  BY StartDoneDoes
<1>39. Render \/ Load => (BothKept /\ ServingExists)'
  BY ProxyDoes
<1>40. Restart => (BothKept /\ ServingExists)'
  BY RestartDoes
<1>41. UNCHANGED vars => (BothKept /\ ServingExists)'
  BY DEF vars, InOrder, RowsKept
<1> QED
  BY ONLY <1>a, <1>1, <1>2, <1>3, <1>4, <1>5, <1>6, <1>7, <1>8, <1>9, <1>10, <1>11, <1>12,
     <1>13, <1>14, <1>15, <1>16, <1>17, <1>18, <1>19, <1>20, <1>21, <1>22, <1>23, <1>24, <1>25,
     <1>26, <1>27, <1>28, <1>29, <1>30, <1>31, <1>32, <1>33, <1>34, <1>35, <1>36, <1>37, <1>38,
     <1>39, <1>40, <1>41, Zenon DEF Other, Works

\* What the stop route stops is no deployment's in progress.
LEMMA StepStopped ==
    ASSUME Inv, RowsKept, [Next]_vars, ~Claims
    PROVE  Stopped'
<1>a. Other
  BY Actions
<1> USE IdleRunIs, IdleRecIs, NoJournalIs, Ids
    DEF Inv, Busy, Open, Owned, Building,
        Unwinding, Before, Routing, Late, Retirement, Forward, Moves, Alike, SameOne,
        SameHold, SameAim, SameFlip, Passes, Commits, SameTransition, SameRoute,
        RecGoes, FlipGoes, RowsKept, InOrder, Journaled, Staged, Stopped, Over, BoxBut,
        Up, Active, NoRequest, ServingExists
<1>1. HandPorts => Stopped'
  BY HandPortsDoes
<1>2. StartCandidate => Stopped'
  BY StartCandidateDoes
<1>3. BuildFails \/ ProbeFails => Stopped'
  BY FailsDoes
<1>4. OpenJournal => Stopped'
  BY OpenJournalDoes
<1>5. CaptureIdentities => Stopped'
  BY CaptureIdentitiesDoes
<1>6. CaptureFails => Stopped'
  BY CaptureFailsDoes
<1>7. Verify => Stopped'
  BY VerifyDoes
<1>8. Finalize => Stopped'
  BY FinalizeDoes
<1>9. Persist => Stopped'
  BY PersistDoes
<1>10. FlipWrite => Stopped'
  BY FlipWriteDoes
<1>11. FlipWriteFails \/ FlipTimeout => Stopped'
  BY FlipFailsDoes
<1>12. FlipAck => Stopped'
  BY FlipAckDoes
<1>13. Revert => Stopped'
  BY RevertDoes
<1>14. Promote => Stopped'
  BY PromoteDoes
<1>15. Restore => Stopped'
  BY RestoreDoes
<1>16. Retire => Stopped'
  BY RetireDoes
<1>17. Remove => Stopped'
  BY RemoveDoes
<1>18. Unwind => Stopped'
  BY UnwindDoes
<1>19. Discard => Stopped'
  BY DiscardDoes
<1>20. Revive \/ LateCancel => Stopped'
  BY ReviveDoes
<1>21. SettleFailure => Stopped'
  BY SettleFailureDoes
<1>22. LateSettle => Stopped'
  BY LateSettleDoes
<1>23. Exit => Stopped'
  BY ExitDoes
<1>24. LoseLease => Stopped'
  BY LoseLeaseDoes
<1>25. RecClaim => Stopped'
  BY RecClaimDoes
<1>26. RecSelect => Stopped'
  BY RecSelectDoes
<1>27. RecFlip => Stopped'
  BY RecFlipDoes
<1>28. RecAck => Stopped'
  BY RecAckDoes
<1>29. RecDrain => Stopped'
  BY RecDrainDoes
<1>30. RecRemove => Stopped'
  BY RecRemoveDoes
<1>31. RecComplete => Stopped'
  BY RecCompleteDoes
<1>32. RecHold => Stopped'
  BY RecHoldDoes
<1>33. LeaseExpires => Stopped'
  BY LeaseExpiresDoes
<1>34. (\E d \in Deployments : Cancel(d)) => Stopped'
  BY CancelDoes
<1>35. Stop => Stopped'
  BY StopDoes
<1>36. StopDone => Stopped'
  BY StopDoneDoes
<1>37. Start => Stopped'
  BY StartDoes
<1>38. StartDone => Stopped'
  BY StartDoneDoes
<1>39. Render \/ Load => Stopped'
  BY ProxyDoes
<1>40. Restart => Stopped'
  BY RestartDoes
<1>41. UNCHANGED vars => Stopped'
  BY DEF vars, InOrder, RowsKept
<1> QED
  BY ONLY <1>a, <1>1, <1>2, <1>3, <1>4, <1>5, <1>6, <1>7, <1>8, <1>9, <1>10, <1>11, <1>12,
     <1>13, <1>14, <1>15, <1>16, <1>17, <1>18, <1>19, <1>20, <1>21, <1>22, <1>23, <1>24, <1>25,
     <1>26, <1>27, <1>28, <1>29, <1>30, <1>31, <1>32, <1>33, <1>34, <1>35, <1>36, <1>37, <1>38,
     <1>39, <1>40, <1>41, Zenon DEF Other, Works

\* The order of the claims.
LEMMA StepInOrder ==
    ASSUME Inv, RowsKept, [Next]_vars, ~Claims PROVE InOrder'
<1>t. /\ box' \in [Deployments -> BoxStates]
      /\ \A c \in Deployments :
            box'[c] # "absent" => box[c] # "absent" \/ (StartCandidate /\ c = run.dep)
  BY BoxMoves
<1>1. Busy' => Busy /\ run'.dep = run.dep
  <2>1. CASE Works
    BY <2>1, WorkMoves DEF Inv, Busy, SameOne
  <2>2. CASE \E d \in Deployments : Cancel(d)
    BY <2>2, CancelDoes DEF Inv, Busy, Moves, Alike, SameOne
  <2> QED  BY <2>1, <2>2, RunSteps, IdleRunIs DEF Claims, Busy
<1>2. Open' => journal'.dep = journal.dep \/ (OpenJournal /\ Busy /\ journal'.dep = run.dep)
  <2>1. CASE OpenJournal
    BY <2>1, OpenJournalDoes DEF Busy
  <2>2. CASE RecSelect
    BY <2>2, JournalMoves DEF Inv, Passes, SameTransition
  <2> QED  BY <2>1, <2>2, JournalSteps, JournalMoves, NoJournalIs
           DEF Inv, Open, Passes, Commits, SameTransition
<1>3. StartCandidate => row[run.dep] # "waiting"
  BY StartCandidateDoes DEF Inv, Staged, Busy
<1> QED
  BY <1>t, <1>1, <1>2, <1>3 DEF Inv, InOrder, RowsKept, Open

\* A claim finds the service at rest: nothing pending, no transition open.
LEMMA StepClaim == ASSUME Inv, NEW d \in Deployments, Claim(d), TypeOK' PROVE Inv'
<1>c. /\ ~Busy /\ ~Open /\ row[d] = "waiting" /\ d # None
      /\ \A e \in Deployments : e < d => row[e] \notin Active \cup {"waiting"}
      /\ \A e \in Deployments : row'[e] = IF e = d THEN "building" ELSE row[e]
      /\ svc'.status = "deploying" /\ svc'.runtime = svc.runtime
      /\ run'.at = "building" /\ run'.dep = d /\ run'.prev = svc.runtime
      /\ SameHold(run', IdleRun) /\ SameAim(run', IdleRun) /\ SameFlip(run', IdleRun)
      /\ UNCHANGED <<box, proxy, journal, rec, req, budget>>
  BY ClaimDoes, Ids
<1>d. svc.runtime # d
  BY <1>c DEF Inv, ServingExists, InOrder
<1>1. InOrder'
  <2>1. \A e, f \in Deployments : f < e /\ row'[e] # "waiting" => row'[f] # "waiting"
    BY <1>c DEF Inv, InOrder
  <2>2. \A c \in Deployments : box'[c] # "absent" => row'[c] # "waiting"
    BY <1>c DEF Inv, InOrder
  <2>3. \A e \in Deployments : row'[e] \in Active => e = d
    <3>1. ASSUME NEW e \in Deployments, e # d PROVE row'[e] \notin Active
      <4>1. e < d \/ d < e
        BY <3>1, Constants
      <4>2. d < e => row[e] = "waiting"
        BY <1>c DEF Inv, InOrder
      <4> QED  BY <1>c, <3>1, <4>1, <4>2 DEF Active
    <3> QED  BY <3>1
  <2> QED  BY <1>c, <2>1, <2>2, <2>3 DEF InOrder, Open, Busy
<1>2. (Journaled /\ Staged)'
  BY <1>c, <1>d, IdleRunIs
     DEF Inv, Journaled, Staged, Busy, Open, Owned, Building, Unwinding, Before, Late, Retirement,
         SameHold, SameAim, SameFlip
<1>3. (Phased /\ Named /\ BothKept)'
  BY <1>c, IdleRunIs, NoJournalIs
     DEF Inv, Journaled, Phased, Named, BothKept, Open, Busy, Owned, SameHold
<1>4. (Removing /\ Believed /\ Routed)'
  BY <1>c, IdleRunIs, NoJournalIs
     DEF Inv, Journaled, Removing, Believed, Routed, Routes, Open, Busy, Owned
<1>5. (Stopped /\ ServingExists)'
  BY <1>c, Ids DEF Inv, InOrder, Stopped, Over, ServingExists, Active
<1> QED  BY <1>1, <1>2, <1>3, <1>4, <1>5 DEF Inv

\* The first state.
LEMMA InitInv == Init => Inv
<1> SUFFICES ASSUME Init PROVE Inv
  OBVIOUS
<1>1. TypeOK
  BY Constants, BoundsAssumption
     DEF Init, TypeOK, RowStates, Services, ServiceStates, BoxStates, Runtimes, Kinds
<1>2. run = IdleRun /\ rec = IdleRec /\ journal = NoJournal /\ req.kind = "none"
      /\ svc.runtime = None /\ proxy.file = None /\ proxy.loaded = None
      /\ \A d \in Deployments : row[d] = "waiting" /\ box[d] = "absent"
  BY DEF Init, NoRequest
<1>3. InOrder /\ Journaled /\ Staged
  BY <1>2, IdleRunIs, IdleRecIs, NoJournalIs
     DEF InOrder, Journaled, Staged, Busy, Open, Owned, Active, Building, Unwinding,
         Before, Late, Retirement
<1>4. Phased /\ Named /\ BothKept /\ Removing /\ Believed /\ Routed /\ Stopped /\ ServingExists
  BY <1>2, IdleRunIs, IdleRecIs, NoJournalIs
     DEF Phased, Named, BothKept, Removing, Believed, Routed, Routes, Stopped, ServingExists,
         Busy, Open, Owned
<1> QED  BY <1>1, <1>3, <1>4 DEF Inv

\* Every step keeps the invariant.
LEMMA StepInv == Inv /\ [Next]_vars => Inv'
<1> SUFFICES ASSUME Inv, [Next]_vars PROVE Inv'
  OBVIOUS
<1>1. CASE Claims
  BY <1>1, StepType, StepClaim DEF Claims
<1>2. CASE ~Claims
  <2>1. RowsKept
    BY <1>2, RowMoves DEF Claims
  <2> QED
    BY <1>2, <2>1, StepType, StepInOrder, StepJournaled, StepNamed, StepRemoving,
       StepBelieved, StepRouted, StepServing,
       StepStopped DEF Inv
<1> QED  BY <1>1, <1>2

\* The inductive invariant of the service row, containers, proxy, journal,
\* pipeline and recovery.
THEOREM InvHolds == Spec => []Inv
BY InitInv, StepInv, PTL DEF Spec

\* Every variable of the transition stays in its type.
THEOREM TypeCorrect == Spec => []TypeOK
<1>1. Inv => TypeOK
  BY DEF Inv
<1> QED  BY <1>1, InvHolds, PTL

\* The service row never names a container that was removed, whichever actor
\* removes: pipeline, recovery or restart.
THEOREM ServingExistsHolds == Spec => []ServingExists
<1>1. Inv => ServingExists
  BY DEF Inv
<1> QED  BY <1>1, InvHolds, PTL

-----------------------------------------------------------------------------
(* What a step may not do                                                  *)

\* Once a retirement is journaled, no step but one that ends the transition
\* makes the service row name another generation.
LEMMA StepFinal ==
    ASSUME Inv, [Next]_vars, journal.phase = "retiring", journal'.dep = journal.dep
    PROVE  svc'.runtime = journal.desired
<1>0. Open /\ journal.desired = svc.runtime
  BY NoJournalIs DEF Inv, Named, Journaled
<1>1. CASE Claims
  BY <1>0, <1>1, ClaimDoes DEF Claims
<1>2. CASE Persist
  BY <1>0, <1>2, PersistDoes DEF Inv, Phased
<1>3. CASE Revert
  BY <1>0, <1>3, RevertDoes DEF Inv, Phased, Routing
<1>4. CASE Restore
  BY <1>0, <1>4, RestoreDoes DEF Inv, Phased, Routing
<1>5. CASE SettleFailure
  BY <1>0, <1>5, SettleFailureDoes DEF Inv, Named, Staged, Owned, Unwinding, Busy
<1>6. CASE LateSettle
  BY <1>0, <1>6, LateSettleDoes DEF Inv, Named, Staged, Owned, Late, Busy
<1>7. CASE RecSelect
  BY <1>0, <1>7, RecSelectDoes
<1>8. CASE Stop \/ StopDone \/ StartDone \/ Restart
  BY <1>0, <1>8, StopDoes, StopDoneDoes, StartDoneDoes, RestartDoes
<1> QED
  BY <1>0, <1>1, <1>2, <1>3, <1>4, <1>5, <1>6, <1>7, <1>8, SvcSteps DEF Claims

\* No step removes the container that Traefik routes to.
LEMMA StepKept ==
    ASSUME Inv, [Next]_vars, NEW c \in Deployments, box[c] # "absent", box'[c] = "absent"
    PROVE  proxy.loaded # c
<1>1. CASE StartCandidate \/ HandPorts \/ Revive \/ LateCancel
  BY <1>1, StartCandidateDoes, HandPortsDoes, ReviveDoes DEF BoxBut
<1>2. CASE Remove
  BY <1>2, RemoveDoes DEF Inv, Removing, Aside, BoxBut
<1>3. CASE Discard
  BY <1>3, DiscardDoes DEF Inv, Removing, Aside, BoxBut
<1>4. CASE RecRemove
  BY <1>4, RecRemoveDoes DEF Inv, Routed
<1>5. CASE StopDone \/ StartDone
  BY <1>5, StopDoneDoes, StartDoneDoes DEF BoxBut
<1>6. CASE Restart
  BY <1>6, RestartDoes DEF Inv, Routed, Routes
<1> QED
  BY <1>1, <1>2, <1>3, <1>4, <1>5, <1>6, BoxSteps

\* A success is recorded by the pipeline or by the recovery, over a routing
\* that was acknowledged, for a container that nobody stopped.
LEMMA StepSuccess ==
    ASSUME Inv, [Next]_vars, NEW d \in Deployments, row[d] # "running", row'[d] = "running"
    PROVE  proxy.loaded = d /\ svc.runtime = d /\ box[d] = "up"
<1>t. row \in [Deployments -> RowStates] /\ box[d] \in BoxStates
  BY DEF Inv, TypeOK
<1>1. CASE Promote
  <2>1. row' = Succeeded(run.dep) /\ row[run.dep] = "deploying"
    <3>1. SettleRow("cancelled") => row'[d] # "running"
      BY <1>t DEF SettleRow
    <3> QED  BY <1>1, <3>1 DEF Promote
  <2>2. d = run.dep
    BY <2>1 DEF Succeeded
  <2>3. run.at = "routed" /\ Owned
    BY <1>1, PromoteDoes
  <2>4. svc.runtime = d /\ proxy.loaded = d /\ box[d] # "absent"
    BY <2>2, <2>3, Constants
       DEF Inv, Named, Believed, Routes, ServingExists, BothKept, Exists, Routing, NoBelief
  <2> QED  BY <1>t, <2>1, <2>2, <2>4, Constants DEF Inv, Stopped, Over, Active, BoxStates
<1>2. CASE RecAck
  <2>1. rec.at = "ack" /\ proxy.loaded = proxy.file
    BY <1>2, RecAckDoes
  <2>2. journal.dep \in Deployments
    BY <2>1, Ids DEF Inv, Journaled
  <2>3. /\ row' = Succeeded(journal.dep) /\ svc.runtime = journal.dep
        /\ row[journal.dep] \in Active
    BY <1>2, <1>t, <2>2 DEF RecAck, Interrupted, StillCurrent
  <2>4. d = journal.dep
    BY <2>3 DEF Succeeded
  <2>5. proxy.loaded = d /\ box[d] # "absent"
    BY <2>1, <2>2, <2>3, <2>4, Constants DEF Inv, Routed, ServingExists
  <2> QED  BY <1>t, <2>3, <2>4, <2>5, Constants DEF Inv, Stopped, Over, Active, BoxStates
<1>3. CASE Claims
  BY <1>3, ClaimDoes DEF Claims
<1>4. CASE Finalize
  BY <1>4, <1>t DEF Finalize
<1>5. CASE Revert \/ SettleFailure
  BY <1>5, <1>t DEF Revert, SettleFailure, SettleRow
<1>6. CASE (\E e \in Deployments : Cancel(e)) \/ Stop \/ Restart
  BY <1>6, CancelDoes, StopDoes, RestartDoes
<1> QED
  BY <1>1, <1>2, <1>3, <1>4, <1>5, <1>6, RowSteps DEF Claims

\* No step of pipeline, recovery, routes or restart leaves the generation a
\* journaled retirement committed to.
THEOREM CommitIsFinalHolds == Spec => CommitIsFinal
<1>1. Inv /\ [Next]_vars
        => (journal.phase = "retiring" /\ journal'.dep = journal.dep => svc'.runtime = journal.desired)
  BY StepFinal
<1> QED  BY <1>1, InvHolds, PTL DEF Spec, CommitIsFinal

\* Blue-green: no actor removes a container that Traefik routes to.
THEOREM RoutedIsKeptHolds == Spec => RoutedIsKept
<1>1. Inv /\ [Next]_vars
        => \A c \in Deployments : box[c] # "absent" /\ box'[c] = "absent" => proxy.loaded # c
  BY StepKept
<1> QED  BY <1>1, InvHolds, PTL DEF Spec, RoutedIsKept

\* A deployment becomes `running` only with its container up, named by the
\* service row and loaded by the proxy.
THEOREM SuccessIsRealHolds == Spec => SuccessIsReal
<1>1. Inv /\ [Next]_vars
        => \A d \in Deployments :
              row[d] # "running" /\ row'[d] = "running"
                => proxy.loaded = d /\ svc.runtime = d /\ box[d] = "up"
  BY StepSuccess
<1> QED  BY <1>1, InvHolds, PTL DEF Spec, SuccessIsReal

\* At rest the routing file names the service's runtime.
LEMMA RoutesFollow == Inv => RoutingFollows
BY NoJournalIs DEF Inv, Routed, Routes, RoutingFollows, AtRest, Open

-----------------------------------------------------------------------------
(* What is left at rest                                                    *)

\* The budgets are never refilled, and what was not spent is as at the start.
Most(k) == CASE k = "cancel" -> MaxCancels [] k = "request" -> MaxRequests
             [] k = "crash" -> MaxCrashes [] k = "fault" -> MaxFaults
             [] OTHER -> MaxWriteFailures
Within == \A k \in Kinds : budget[k] <= Most(k)

\* An allowance is unspent if all of it is left.
LEMMA Unspends == \A k \in Kinds : Unspent(k) <=> budget[k] = Most(k)
BY DEF Unspent, Most

\* The allowances are numbers.
LEMMA MostIs ==
    /\ \A k \in Kinds : Most(k) \in Nat
    /\ Most("fault") = MaxFaults
BY BoundsAssumption DEF Most, Kinds

\* No step refills one, and a step that spends leaves it spent for good.
LEMMA StepWithin ==
    ASSUME Inv, Within, [Next]_vars
    PROVE  /\ Within'
           /\ \A k \in Kinds : Unspent(k)' => Unspent(k) /\ ~Spend(k)
<1>1. \A k \in Kinds : budget[k] \in Nat /\ budget'[k] \in Nat /\ budget'[k] <= budget[k]
  BY BudgetSteps, Spending DEF Inv, TypeOK, Kinds
<1>2. Within'
  BY <1>1, MostIs DEF Within, Most
<1>3. ASSUME NEW k \in Kinds, Unspent(k)' PROVE Unspent(k) /\ ~Spend(k)
  <2>1. budget'[k] = Most(k)
    BY <1>3 DEF Unspent, Most
  <2>2. budget[k] = Most(k)
    BY <1>1, <2>1, MostIs DEF Within
  <2>3. Spend(k) => budget'[k] = budget[k] - 1
    BY DEF Spend, Inv, TypeOK
  <2> QED  BY <1>1, <2>1, <2>2, <2>3, Unspends
<1> QED  BY <1>2, <1>3

\* No step failed, and the process never died.
Calm == Unspent("fault") /\ Unspent("crash")

\* Then the pipeline that opened a transition owns it, and each container is
\* one that somebody still has to deal with.
Tracked ==
    /\ run.leased \/ run.at = "opening" => Owned
    /\ ~run.retain
    /\ \A c \in Deployments : box[c] # "absent"
          => c \in {svc.runtime, run.prev, run.cand, journal.prev, journal.dep}
    /\ ~run.leased /\ run.at \in {"reviving", "settling", "exiting"} /\ run.cand # None
          => box[run.cand] = "absent"

\* No step without a failure forgets a container.
LEMMA StepTracked ==
    ASSUME Inv, Inv', [Next]_vars, Tracked, ~Spend("fault"), ~Spend("crash")
    PROVE  Tracked'
<1>a. Claims \/ Other
  BY Actions
<1> USE IdleRunIs, IdleRecIs, NoJournalIs, Ids
    DEF Inv, Busy, Open, Owned, Building,
        Unwinding, Before, Routing, Late, Retirement, Forward, Moves, Alike, SameOne,
        SameHold, SameAim, SameFlip, Passes, Commits, SameTransition, SameRoute,
        RecGoes, FlipGoes, Journaled, Staged, Named, BoxBut, Tracked, Spent, MayRetire,
        MayComplete, Removing, Aside, Up
<1>1. Claims => Tracked'
  BY ClaimDoes DEF Claims
<1>2. HandPorts => Tracked'
  BY HandPortsDoes
<1>3. StartCandidate => Tracked'
  BY StartCandidateDoes
<1>4. BuildFails \/ ProbeFails => Tracked'
  BY FailsDoes
<1>5. OpenJournal => Tracked'
  BY OpenJournalDoes
<1>6. CaptureIdentities => Tracked'
  BY CaptureIdentitiesDoes
<1>7. CaptureFails => Tracked'
  BY CaptureFailsDoes
<1>8. Verify => Tracked'
  BY VerifyDoes
<1>9. Finalize => Tracked'
  BY FinalizeDoes
<1>10. Persist => Tracked'
  BY PersistDoes
<1>11. FlipWrite => Tracked'
  BY FlipWriteDoes
<1>12. FlipWriteFails \/ FlipTimeout => Tracked'
  BY FlipFailsDoes
<1>13. FlipAck => Tracked'
  BY FlipAckDoes
<1>14. Revert => Tracked'
  BY RevertDoes
<1>15. Promote => Tracked'
  BY PromoteDoes
<1>16. Restore => Tracked'
  BY RestoreDoes
<1>17. Retire => Tracked'
  BY RetireDoes
<1>18. Remove => Tracked'
  BY RemoveDoes
<1>19. Unwind => Tracked'
  BY UnwindDoes
<1>20. Discard => Tracked'
  BY DiscardDoes
<1>21. Revive \/ LateCancel => Tracked'
  BY ReviveDoes
<1>22. SettleFailure => Tracked'
  BY SettleFailureDoes
<1>23. LateSettle => Tracked'
  BY LateSettleDoes
<1>24. Exit => Tracked'
  BY ExitDoes
<1>25. LoseLease => Tracked'
  BY LoseLeaseDoes
<1>26. RecClaim => Tracked'
  BY RecClaimDoes
<1>27. RecSelect => Tracked'
  BY RecSelectDoes
<1>28. RecFlip => Tracked'
  BY RecFlipDoes
<1>29. RecAck => Tracked'
  BY RecAckDoes
<1>30. RecDrain => Tracked'
  BY RecDrainDoes
<1>31. RecRemove => Tracked'
  BY RecRemoveDoes
<1>32. RecComplete => Tracked'
  BY RecCompleteDoes
<1>33. RecHold => Tracked'
  BY RecHoldDoes
<1>34. LeaseExpires => Tracked'
  BY LeaseExpiresDoes
<1>35. (\E d \in Deployments : Cancel(d)) => Tracked'
  BY CancelDoes
<1>36. Stop => Tracked'
  BY StopDoes
<1>37. StopDone => Tracked'
  BY StopDoneDoes
<1>38. Start => Tracked'
  BY StartDoes
<1>39. StartDone => Tracked'
  BY StartDoneDoes
<1>40. Render \/ Load => Tracked'
  BY ProxyDoes
<1>41. Restart => Tracked'
  BY RestartDoes
<1>42. UNCHANGED vars => Tracked'
  BY DEF vars, InOrder, RowsKept
<1> QED
  BY ONLY <1>a, <1>1, <1>2, <1>3, <1>4, <1>5, <1>6, <1>7, <1>8, <1>9, <1>10, <1>11, <1>12,
     <1>13, <1>14, <1>15, <1>16, <1>17, <1>18, <1>19, <1>20, <1>21, <1>22, <1>23, <1>24, <1>25,
     <1>26, <1>27, <1>28, <1>29, <1>30, <1>31, <1>32, <1>33, <1>34, <1>35, <1>36, <1>37, <1>38,
     <1>39, <1>40, <1>41, <1>42, Zenon DEF Other, Works

Left == Within /\ (Calm => Tracked)

\* What is tracked stays so in every step without a failure or a crash.
LEMMA StepLeft == Inv /\ Inv' /\ Left /\ [Next]_vars => Left'
<1> SUFFICES ASSUME Inv, Inv', Left, [Next]_vars PROVE Left'
  OBVIOUS
<1>1. Within' /\ (Calm' => Calm /\ ~Spend("fault") /\ ~Spend("crash"))
  BY StepWithin DEF Left, Calm, Kinds
<1>2. Calm' => Tracked'
  BY <1>1, StepTracked DEF Left
<1> QED  BY <1>1, <1>2 DEF Left

\* Nothing is there yet.
LEMMA InitLeft == Init => Left
<1> SUFFICES ASSUME Init PROVE Left
  OBVIOUS
<1>1. Within
  BY BoundsAssumption DEF Init, Within, Most, Kinds
<1>2. Tracked
  BY IdleRunIs DEF Init, Tracked
<1> QED  BY <1>1, <1>2 DEF Left

\* At rest nobody but the service row tracks a container.
LEMMA NothingIsLeft == Inv /\ Left => NothingLeftOver
BY IdleRunIs, NoJournalIs, Constants
   DEF Inv, Staged, Busy, Left, Calm, Tracked, NothingLeftOver, AtRest

\* The restart starts the service's runtime again, unless its ports are taken.
LEMMA RestartRevives ==
    ASSUME Inv, Restart
    PROVE  \/ svc' = svc /\ box' = box
           \/ /\ ~Open
              /\ \/ svc.runtime = None
                 \/ box'[svc.runtime] # "exited"
                 \/ hostPorts /\ \E d \in Deployments \ {svc.runtime} : box'[d] = "up"
              /\ \/ svc' = svc
                 \/ svc'.status = "error"
                 \/ svc'.status = "running" /\ svc.runtime # None
<1> DEFINE lost == {d \in Deployments : row[d] \in Active /\ journal.dep # d}
<1>1. CASE lost = {}
  BY <1>1, ZenonT(30) DEF Restart
<1>2. CASE lost # {}
  <2>1. ~Open
    BY <1>2 DEF Inv, InOrder
  <2>2. svc' = svc \/ \E s : /\ s = (IF svc.runtime = None THEN "error" ELSE "running")
                            /\ svc' = [svc EXCEPT !.status = s]
    BY <1>2, ZenonT(30) DEF Restart
  <2>3. \/ svc' = svc
        \/ svc'.status = "error"
        \/ svc'.status = "running" /\ svc.runtime # None
    BY <2>2 DEF Inv, TypeOK, Services
  <2>4. PICK b : b = Cleared(lost)
    OBVIOUS
  <2>5. box' = Revived(svc.runtime, b)
    BY <1>2, <2>4, Zenon DEF Restart
  <2>6. b \in [Deployments -> BoxStates] /\ svc.runtime \in Runtimes
    BY <2>4, Types DEF Inv, TypeOK, Cleared, BoxStates
  <2>7. \/ svc.runtime = None
        \/ box'[svc.runtime] # "exited"
        \/ hostPorts /\ \E d \in Deployments \ {svc.runtime} : box'[d] = "up"
    <3>1. CASE box' = b /\ (b[svc.runtime] # "exited" \/ svc.runtime = None)
      BY <3>1
    <3>2. CASE box' = b /\ hostPorts /\ \E d \in Deployments : b[d] = "up"
      BY <3>2
    <3>3. CASE svc.runtime # None /\ \A e \in Deployments : box'[e] = IF e = svc.runtime THEN "up" ELSE b[e]
      BY <2>6, <3>3 DEF Runtimes
    <3> HIDE DEF lost
    <3> QED  BY <2>5, <2>6, <3>1, <3>2, <3>3, RevivedIs
  <2> QED  BY <2>1, <2>3, <2>7
<1> QED  BY <1>1, <1>2

\* The publication mode of a service is fixed.
LEMMA HostPortsSame == ASSUME [Next]_vars PROVE hostPorts' = hostPorts
BY DEF Next, RunStep, RecStep, RequestEnds, Loads, vars

\* No routing file failed, nobody stopped or started the service, and at
\* most one other step failed.
Near == budget["fault"] + 1 >= MaxFaults
Faulted == budget["fault"] < MaxFaults
Quiet == Unspent("write") /\ Unspent("request") /\ Near

\* Then a service shown as running runs.  While a deployment builds or
\* unwinds, the row says `deploying`; once it routes, what the row names is
\* up, and only a step that has checked so says `running` again.
Runs == svc.status = "running" => Up(svc.runtime)
Confirmed == journal.touched => run.belief = svc
Asked ==
    /\ req = NoRequest /\ svc.status # "stopped"
    /\ svc.status = "running" => svc.runtime # None
    /\ Busy => box[run.dep] # "exited"
Deploys ==
    /\ run.at \in Building => svc.status = "deploying"
    /\ ~run.leased /\ ~run.retain /\ run.at \in Unwinding => svc.status = "deploying"
    /\ Owned /\ run.at \in Before \cup Unwinding \cup Late \cup {"finalized"} => svc.status = "deploying"
    /\ Owned /\ run.at \in Retirement \cup Late /\ run.then = "lateCancel"
          => svc.status = "deploying" /\ run.belief = NoBelief
    /\ Owned /\ run.at = "removing" => run.then = "exiting"
    /\ run.flip # "revert" /\ run.at # "reverting"
    /\ run.flip = "second" => Faulted
    /\ Owned /\ run.at = "ack" => svc = run.seen
Ups ==
    /\ rec.at \notin {"idle", "probing"} => Up(svc.runtime)
    /\ Owned /\ run.at \in Routing \cup Retirement /\ run.then # "lateCancel" => Up(svc.runtime)
Ends ==
    /\ ~Open /\ Busy => Runs
    /\ Owned /\ run.at = "exiting" /\ Confirmed => Runs
Rests == ~Open /\ ~Busy => Runs \/ PortTaken(svc.runtime)

\* A failure spent is spent for good.
LEMMA SpentFault ==
    ASSUME Inv, [Next]_vars
    PROVE  /\ Faulted => Faulted'
           /\ Spend("fault") /\ budget["fault"] = MaxFaults => ~Faulted /\ Faulted'
<1>1. budget["fault"] \in Nat /\ budget'["fault"] \in Nat /\ budget'["fault"] <= budget["fault"]
  BY BudgetSteps, Spending DEF Inv, TypeOK, Kinds
<1>2. Spend("fault") => budget'["fault"] = budget["fault"] - 1
  BY DEF Spend, Inv, TypeOK, Kinds
<1> QED  BY <1>1, <1>2, BoundsAssumption DEF Faulted

\* The records that stand for nothing, and the states of a container.
LEMMA QuietIs ==
    /\ NoRequest.kind = "none" /\ NoBelief.status = "unconfirmed"
    /\ Inv => \A c \in Deployments : box[c] \in {"absent", "up", "exited"}
BY DEF NoRequest, NoBelief, Inv, TypeOK, BoxStates

\* Whose ports are taken depends on the containers alone.
LEMMA PortsKept ==
    ASSUME hostPorts' = hostPorts
    PROVE  box' = box /\ svc'.runtime = svc.runtime
             => (PortTaken(svc.runtime)' <=> PortTaken(svc.runtime))
BY DEF PortTaken

\* Without a request nothing is `stopped`, and no candidate is down.
LEMMA StepAsked ==
    ASSUME Inv, [Next]_vars, hostPorts' = hostPorts, Asked, Deploys, Ups, Ends, Rests,
           ~Spend("write"), ~Spend("request"), Faulted => Faulted',
           Spend("fault") => ~Faulted /\ Faulted'
    PROVE  Asked'
<1>a. Claims \/ Other
  BY Actions
<1> USE IdleRunIs, IdleRecIs, NoJournalIs, Ids, QuietIs
    DEF Inv, Busy, Open, Owned,
        Building, Unwinding, Before, Routing, Late, Retirement, Forward, Moves, Alike,
        SameOne, SameHold, SameAim, SameFlip, Passes, Commits, SameTransition,
        SameRoute, RecGoes, FlipGoes, InOrder, Staged, Named, Asked, Deploys, BoxBut, Up
<1>1. Claims => Asked'
  BY ClaimDoes DEF Claims
<1>2. HandPorts => Asked'
  BY HandPortsDoes
<1>3. StartCandidate => Asked'
  BY StartCandidateDoes
<1>4. BuildFails \/ ProbeFails => Asked'
  BY FailsDoes
<1>5. OpenJournal => Asked'
  BY OpenJournalDoes
<1>6. CaptureIdentities => Asked'
  BY CaptureIdentitiesDoes
<1>7. CaptureFails => Asked'
  BY CaptureFailsDoes
<1>8. Verify => Asked'
  BY VerifyDoes
<1>9. Finalize => Asked'
  BY FinalizeDoes
<1>10. Persist => Asked'
  BY PersistDoes
<1>11. FlipWrite => Asked'
  BY FlipWriteDoes
<1>12. FlipWriteFails \/ FlipTimeout => Asked'
  BY FlipFailsDoes
<1>13. FlipAck => Asked'
  BY FlipAckDoes
<1>14. Revert => Asked'
  BY RevertDoes
<1>15. Promote => Asked'
  BY PromoteDoes
<1>16. Restore => Asked'
  BY RestoreDoes
<1>17. Retire => Asked'
  BY RetireDoes
<1>18. Remove => Asked'
  BY RemoveDoes
<1>19. Unwind => Asked'
  BY UnwindDoes
<1>20. Discard => Asked'
  BY DiscardDoes
<1>21. Revive \/ LateCancel => Asked'
  BY ReviveDoes
<1>22. SettleFailure => Asked'
  BY SettleFailureDoes
<1>23. LateSettle => Asked'
  BY LateSettleDoes
<1>24. Exit => Asked'
  BY ExitDoes
<1>25. LoseLease => Asked'
  BY LoseLeaseDoes
<1>26. RecClaim => Asked'
  BY RecClaimDoes
<1>27. RecSelect => Asked'
  BY RecSelectDoes
<1>28. RecFlip => Asked'
  BY RecFlipDoes
<1>29. RecAck => Asked'
  BY RecAckDoes
<1>30. RecDrain => Asked'
  BY RecDrainDoes
<1>31. RecRemove => Asked'
  BY RecRemoveDoes
<1>32. RecComplete => Asked'
  BY RecCompleteDoes
<1>33. RecHold => Asked'
  BY RecHoldDoes
<1>34. LeaseExpires => Asked'
  BY LeaseExpiresDoes
<1>35. (\E d \in Deployments : Cancel(d)) => Asked'
  BY CancelDoes
<1>36. Stop => Asked'
  BY StopDoes
<1>37. StopDone => Asked'
  BY StopDoneDoes
<1>38. Start => Asked'
  BY StartDoes
<1>39. StartDone => Asked'
  BY StartDoneDoes
<1>40. Render \/ Load => Asked'
  BY ProxyDoes
<1>41. Restart => Asked'
  BY RestartDoes, RestartRevives
<1>42. UNCHANGED vars => Asked'
  BY DEF vars, InOrder, RowsKept
<1> QED
  BY ONLY <1>a, <1>1, <1>2, <1>3, <1>4, <1>5, <1>6, <1>7, <1>8, <1>9, <1>10, <1>11, <1>12,
     <1>13, <1>14, <1>15, <1>16, <1>17, <1>18, <1>19, <1>20, <1>21, <1>22, <1>23, <1>24, <1>25,
     <1>26, <1>27, <1>28, <1>29, <1>30, <1>31, <1>32, <1>33, <1>34, <1>35, <1>36, <1>37, <1>38,
     <1>39, <1>40, <1>41, <1>42, Zenon DEF Other, Works

\* Until a deployment is decided the row says `deploying`.
LEMMA StepDeploys ==
    ASSUME Inv, [Next]_vars, hostPorts' = hostPorts, Asked, Deploys, Ups, Ends, Rests,
           ~Spend("write"), ~Spend("request"), Faulted => Faulted',
           Spend("fault") => ~Faulted /\ Faulted'
    PROVE  Deploys'
<1>a. Claims \/ Other
  BY Actions
<1> USE IdleRunIs, IdleRecIs, NoJournalIs, Ids, QuietIs
    DEF Inv, Busy, Open, Owned,
        Building, Unwinding, Before, Routing, Late, Retirement, Forward, Moves, Alike,
        SameOne, SameHold, SameAim, SameFlip, Passes, Commits, SameTransition,
        SameRoute, RecGoes, FlipGoes, Journaled, Staged, Deploys, Spent
<1>1. Claims => Deploys'
  BY ClaimDoes DEF Claims
<1>2. HandPorts => Deploys'
  BY HandPortsDoes
<1>3. StartCandidate => Deploys'
  BY StartCandidateDoes
<1>4. BuildFails \/ ProbeFails => Deploys'
  BY FailsDoes
<1>5. OpenJournal => Deploys'
  BY OpenJournalDoes
<1>6. CaptureIdentities => Deploys'
  BY CaptureIdentitiesDoes
<1>7. CaptureFails => Deploys'
  BY CaptureFailsDoes
<1>8. Verify => Deploys'
  BY VerifyDoes
<1>9. Finalize => Deploys'
  BY FinalizeDoes DEF Believed, Before
<1>10. Persist => Deploys'
  BY PersistDoes
<1>11. FlipWrite => Deploys'
  BY FlipWriteDoes
<1>12. FlipWriteFails \/ FlipTimeout => Deploys'
  BY FlipFailsDoes
<1>13. FlipAck => Deploys'
  BY FlipAckDoes
<1>14. Revert => Deploys'
  BY RevertDoes
<1>15. Promote => Deploys'
  BY PromoteDoes
<1>16. Restore => Deploys'
  BY RestoreDoes DEF Routing
<1>17. Retire => Deploys'
  BY RetireDoes DEF Phased, MayRetire
<1>18. Remove => Deploys'
  BY RemoveDoes
<1>19. Unwind => Deploys'
  BY UnwindDoes
<1>20. Discard => Deploys'
  BY DiscardDoes
<1>21. Revive \/ LateCancel => Deploys'
  BY ReviveDoes
<1>22. SettleFailure => Deploys'
  BY SettleFailureDoes
<1>23. LateSettle => Deploys'
  BY LateSettleDoes
<1>24. Exit => Deploys'
  BY ExitDoes
<1>25. LoseLease => Deploys'
  BY LoseLeaseDoes
<1>26. RecClaim => Deploys'
  BY RecClaimDoes
<1>27. RecSelect => Deploys'
  BY RecSelectDoes DEF Asked
<1>28. RecFlip => Deploys'
  BY RecFlipDoes
<1>29. RecAck => Deploys'
  BY RecAckDoes
<1>30. RecDrain => Deploys'
  BY RecDrainDoes
<1>31. RecRemove => Deploys'
  BY RecRemoveDoes
<1>32. RecComplete => Deploys'
  BY RecCompleteDoes
<1>33. RecHold => Deploys'
  BY RecHoldDoes
<1>34. LeaseExpires => Deploys'
  BY LeaseExpiresDoes
<1>35. (\E d \in Deployments : Cancel(d)) => Deploys'
  BY CancelDoes
<1>36. Stop => Deploys'
  BY StopDoes DEF Asked
<1>37. StopDone => Deploys'
  BY StopDoneDoes DEF Asked
<1>38. Start => Deploys'
  BY StartDoes
<1>39. StartDone => Deploys'
  BY StartDoneDoes DEF Asked
<1>40. Render \/ Load => Deploys'
  BY ProxyDoes
<1>41. Restart => Deploys'
  BY RestartDoes, RestartRevives
<1>42. UNCHANGED vars => Deploys'
  BY DEF vars, InOrder, RowsKept
<1> QED
  BY ONLY <1>a, <1>1, <1>2, <1>3, <1>4, <1>5, <1>6, <1>7, <1>8, <1>9, <1>10, <1>11, <1>12,
     <1>13, <1>14, <1>15, <1>16, <1>17, <1>18, <1>19, <1>20, <1>21, <1>22, <1>23, <1>24, <1>25,
     <1>26, <1>27, <1>28, <1>29, <1>30, <1>31, <1>32, <1>33, <1>34, <1>35, <1>36, <1>37, <1>38,
     <1>39, <1>40, <1>41, <1>42, Zenon DEF Other, Works

\* What a pipeline or the recovery routes to is up.
LEMMA StepUps ==
    ASSUME Inv, [Next]_vars, hostPorts' = hostPorts, Asked, Deploys, Ups, Ends, Rests,
           ~Spend("write"), ~Spend("request"), Faulted => Faulted',
           Spend("fault") => ~Faulted /\ Faulted'
    PROVE  Ups'
<1>a. Claims \/ Other
  BY Actions
<1> USE IdleRunIs, IdleRecIs, NoJournalIs, Ids, QuietIs
    DEF Inv, Busy, Open, Owned,
        Building, Unwinding, Before, Routing, Late, Retirement, Forward, Moves, Alike,
        SameOne, SameHold, SameAim, SameFlip, Passes, Commits, SameTransition,
        SameRoute, RecGoes, FlipGoes, Journaled, Up, Ups
<1>1. Claims => Ups'
  BY ClaimDoes DEF Claims
<1>2. HandPorts => Ups'
  BY HandPortsDoes DEF Staged, BoxBut
<1>3. StartCandidate => Ups'
  BY StartCandidateDoes DEF BoxBut
<1>4. BuildFails \/ ProbeFails => Ups'
  BY FailsDoes
<1>5. OpenJournal => Ups'
  BY OpenJournalDoes
<1>6. CaptureIdentities => Ups'
  BY CaptureIdentitiesDoes
<1>7. CaptureFails => Ups'
  BY CaptureFailsDoes
<1>8. Verify => Ups'
  BY VerifyDoes
<1>9. Finalize => Ups'
  BY FinalizeDoes DEF Phased, Staged
<1>10. Persist => Ups'
  BY PersistDoes DEF Staged, BothKept, Exists, Asked, Deploys
<1>11. FlipWrite => Ups'
  BY FlipWriteDoes
<1>12. FlipWriteFails \/ FlipTimeout => Ups'
  BY FlipFailsDoes
<1>13. FlipAck => Ups'
  BY FlipAckDoes
<1>14. Revert => Ups'
  BY RevertDoes DEF Deploys
<1>15. Promote => Ups'
  BY PromoteDoes
<1>16. Restore => Ups'
  BY RestoreDoes
<1>17. Retire => Ups'
  BY RetireDoes
<1>18. Remove => Ups'
  BY RemoveDoes DEF Removing, Aside, BoxBut, Staged
<1>19. Unwind => Ups'
  BY UnwindDoes
<1>20. Discard => Ups'
  BY DiscardDoes DEF Removing, Aside, BoxBut, Staged
<1>21. Revive \/ LateCancel => Ups'
  BY ReviveDoes DEF BoxBut
<1>22. SettleFailure => Ups'
  BY SettleFailureDoes DEF Staged, Named
<1>23. LateSettle => Ups'
  BY LateSettleDoes DEF Staged
<1>24. Exit => Ups'
  BY ExitDoes
<1>25. LoseLease => Ups'
  BY LoseLeaseDoes
<1>26. RecClaim => Ups'
  BY RecClaimDoes
<1>27. RecSelect => Ups'
  BY RecSelectDoes DEF Asked
<1>28. RecFlip => Ups'
  BY RecFlipDoes
<1>29. RecAck => Ups'
  BY RecAckDoes
<1>30. RecDrain => Ups'
  BY RecDrainDoes
<1>31. RecRemove => Ups'
  BY RecRemoveDoes
<1>32. RecComplete => Ups'
  BY RecCompleteDoes
<1>33. RecHold => Ups'
  BY RecHoldDoes
<1>34. LeaseExpires => Ups'
  BY LeaseExpiresDoes
<1>35. (\E d \in Deployments : Cancel(d)) => Ups'
  BY CancelDoes
<1>36. Stop => Ups'
  BY StopDoes
<1>37. StopDone => Ups'
  BY StopDoneDoes DEF Asked
<1>38. Start => Ups'
  BY StartDoes
<1>39. StartDone => Ups'
  BY StartDoneDoes DEF Asked
<1>40. Render \/ Load => Ups'
  BY ProxyDoes
<1>41. Restart => Ups'
  BY RestartDoes, RestartRevives
<1>42. UNCHANGED vars => Ups'
  BY DEF vars, InOrder, RowsKept
<1> QED
  BY ONLY <1>a, <1>1, <1>2, <1>3, <1>4, <1>5, <1>6, <1>7, <1>8, <1>9, <1>10, <1>11, <1>12,
     <1>13, <1>14, <1>15, <1>16, <1>17, <1>18, <1>19, <1>20, <1>21, <1>22, <1>23, <1>24, <1>25,
     <1>26, <1>27, <1>28, <1>29, <1>30, <1>31, <1>32, <1>33, <1>34, <1>35, <1>36, <1>37, <1>38,
     <1>39, <1>40, <1>41, <1>42, Zenon DEF Other, Works

\* A pipeline ends with `running` only over a generation that is up.
LEMMA StepEnds ==
    ASSUME Inv, [Next]_vars, hostPorts' = hostPorts, Asked, Deploys, Ups, Ends, Rests,
           ~Spend("write"), ~Spend("request"), Faulted => Faulted',
           Spend("fault") => ~Faulted /\ Faulted'
    PROVE  Ends'
<1>a. Claims \/ Other
  BY Actions
<1> USE IdleRunIs, IdleRecIs, NoJournalIs, Ids, QuietIs
    DEF Inv, Busy, Open, Owned,
        Building, Unwinding, Before, Routing, Late, Retirement, Forward, Moves, Alike,
        SameOne, SameHold, SameAim, SameFlip, Passes, Commits, SameTransition,
        SameRoute, RecGoes, FlipGoes, Journaled, Up, Ends, Runs, Confirmed
<1>1. Claims => Ends'
  BY ClaimDoes DEF Claims
<1>2. HandPorts => Ends'
  BY HandPortsDoes DEF Staged, BoxBut, Deploys
<1>3. StartCandidate => Ends'
  BY StartCandidateDoes DEF BoxBut, Deploys, Staged
<1>4. BuildFails \/ ProbeFails => Ends'
  BY FailsDoes
<1>5. OpenJournal => Ends'
  BY OpenJournalDoes
<1>6. CaptureIdentities => Ends'
  BY CaptureIdentitiesDoes
<1>7. CaptureFails => Ends'
  BY CaptureFailsDoes
<1>8. Verify => Ends'
  BY VerifyDoes
<1>9. Finalize => Ends'
  BY FinalizeDoes DEF Phased, Staged
<1>10. Persist => Ends'
  BY PersistDoes DEF Staged
<1>11. FlipWrite => Ends'
  BY FlipWriteDoes
<1>12. FlipWriteFails \/ FlipTimeout => Ends'
  BY FlipFailsDoes DEF Ups, Staged
<1>13. FlipAck => Ends'
  BY FlipAckDoes DEF Ups, Deploys, Staged
<1>14. Revert => Ends'
  BY RevertDoes DEF Deploys
<1>15. Promote => Ends'
  BY PromoteDoes DEF Ups, Staged
<1>16. Restore => Ends'
  BY RestoreDoes DEF Ups, Staged
<1>17. Retire => Ends'
  BY RetireDoes DEF Ups, Deploys
<1>18. Remove => Ends'
  BY RemoveDoes DEF Removing, Aside, BoxBut, Staged, Ups, Deploys
<1>19. Unwind => Ends'
  BY UnwindDoes
<1>20. Discard => Ends'
  BY DiscardDoes DEF Removing, Aside, BoxBut, Staged, Ups
<1>21. Revive \/ LateCancel => Ends'
  BY ReviveDoes DEF BoxBut, Staged, Named
<1>22. SettleFailure => Ends'
  BY SettleFailureDoes DEF Staged, Named, Deploys
<1>23. LateSettle => Ends'
  BY LateSettleDoes DEF Staged, Phased, Deploys
<1>24. Exit => Ends'
  BY ExitDoes
<1>25. LoseLease => Ends'
  BY LoseLeaseDoes
<1>26. RecClaim => Ends'
  BY RecClaimDoes
<1>27. RecSelect => Ends'
  BY RecSelectDoes DEF Ups
<1>28. RecFlip => Ends'
  BY RecFlipDoes
<1>29. RecAck => Ends'
  BY RecAckDoes
<1>30. RecDrain => Ends'
  BY RecDrainDoes
<1>31. RecRemove => Ends'
  BY RecRemoveDoes
<1>32. RecComplete => Ends'
  BY RecCompleteDoes DEF Ups
<1>33. RecHold => Ends'
  BY RecHoldDoes
<1>34. LeaseExpires => Ends'
  BY LeaseExpiresDoes
<1>35. (\E d \in Deployments : Cancel(d)) => Ends'
  BY CancelDoes
<1>36. Stop => Ends'
  BY StopDoes
<1>37. StopDone => Ends'
  BY StopDoneDoes DEF Asked
<1>38. Start => Ends'
  BY StartDoes
<1>39. StartDone => Ends'
  BY StartDoneDoes DEF Asked
<1>40. Render \/ Load => Ends'
  BY ProxyDoes
<1>41. Restart => Ends'
  BY RestartDoes, RestartRevives
<1>42. UNCHANGED vars => Ends'
  BY DEF vars, InOrder, RowsKept
<1> QED
  BY ONLY <1>a, <1>1, <1>2, <1>3, <1>4, <1>5, <1>6, <1>7, <1>8, <1>9, <1>10, <1>11, <1>12,
     <1>13, <1>14, <1>15, <1>16, <1>17, <1>18, <1>19, <1>20, <1>21, <1>22, <1>23, <1>24, <1>25,
     <1>26, <1>27, <1>28, <1>29, <1>30, <1>31, <1>32, <1>33, <1>34, <1>35, <1>36, <1>37, <1>38,
     <1>39, <1>40, <1>41, <1>42, Zenon DEF Other, Works

\* At rest a generation shown as running is up, or its ports are taken.
LEMMA StepRests ==
    ASSUME Inv, [Next]_vars, hostPorts' = hostPorts, Asked, Deploys, Ups, Ends, Rests,
           ~Spend("write"), ~Spend("request"), Faulted => Faulted',
           Spend("fault") => ~Faulted /\ Faulted'
    PROVE  Rests'
<1>a. Claims \/ Other
  BY Actions
<1> USE IdleRunIs, IdleRecIs, NoJournalIs, Ids, QuietIs, PortsKept
    DEF Inv, Busy,
        Open, Owned, Building, Unwinding, Before, Routing, Late, Retirement, Forward,
        Moves, Alike, SameOne, SameHold, SameAim, SameFlip, Passes, Commits,
        SameTransition, SameRoute, RecGoes, FlipGoes, Journaled, Up, Ends, Rests, Runs
<1>1. Claims => Rests'
  BY ClaimDoes DEF Claims
<1>2. HandPorts => Rests'
  BY HandPortsDoes
<1>3. StartCandidate => Rests'
  BY StartCandidateDoes
<1>4. BuildFails \/ ProbeFails => Rests'
  BY FailsDoes
<1>5. OpenJournal => Rests'
  BY OpenJournalDoes
<1>6. CaptureIdentities => Rests'
  BY CaptureIdentitiesDoes
<1>7. CaptureFails => Rests'
  BY CaptureFailsDoes
<1>8. Verify => Rests'
  BY VerifyDoes
<1>9. Finalize => Rests'
  BY FinalizeDoes
<1>10. Persist => Rests'
  BY PersistDoes
<1>11. FlipWrite => Rests'
  BY FlipWriteDoes
<1>12. FlipWriteFails \/ FlipTimeout => Rests'
  BY FlipFailsDoes
<1>13. FlipAck => Rests'
  BY FlipAckDoes
<1>14. Revert => Rests'
  BY RevertDoes
<1>15. Promote => Rests'
  BY PromoteDoes
<1>16. Restore => Rests'
  BY RestoreDoes
<1>17. Retire => Rests'
  BY RetireDoes
<1>18. Remove => Rests'
  BY RemoveDoes
<1>19. Unwind => Rests'
  BY UnwindDoes
<1>20. Discard => Rests'
  BY DiscardDoes
<1>21. Revive \/ LateCancel => Rests'
  BY ReviveDoes
<1>22. SettleFailure => Rests'
  BY SettleFailureDoes
<1>23. LateSettle => Rests'
  BY LateSettleDoes
<1>24. Exit => Rests'
  BY ExitDoes DEF MayComplete, Confirmed
<1>25. LoseLease => Rests'
  BY LoseLeaseDoes
<1>26. RecClaim => Rests'
  BY RecClaimDoes
<1>27. RecSelect => Rests'
  BY RecSelectDoes
<1>28. RecFlip => Rests'
  BY RecFlipDoes
<1>29. RecAck => Rests'
  BY RecAckDoes
<1>30. RecDrain => Rests'
  BY RecDrainDoes
<1>31. RecRemove => Rests'
  BY RecRemoveDoes
<1>32. RecComplete => Rests'
  BY RecCompleteDoes DEF Ups
<1>33. RecHold => Rests'
  BY RecHoldDoes
<1>34. LeaseExpires => Rests'
  BY LeaseExpiresDoes
<1>35. (\E d \in Deployments : Cancel(d)) => Rests'
  BY CancelDoes
<1>36. Stop => Rests'
  BY StopDoes
<1>37. StopDone => Rests'
  BY StopDoneDoes DEF Asked
<1>38. Start => Rests'
  BY StartDoes
<1>39. StartDone => Rests'
  BY StartDoneDoes DEF Asked
<1>40. Render \/ Load => Rests'
  BY ProxyDoes
<1>41. Restart => Rests'
  BY RestartDoes, RestartRevives DEF PortTaken, Asked, ServingExists
<1>42. UNCHANGED vars => Rests'
  BY DEF vars, InOrder, RowsKept
<1> QED
  BY ONLY <1>a, <1>1, <1>2, <1>3, <1>4, <1>5, <1>6, <1>7, <1>8, <1>9, <1>10, <1>11, <1>12,
     <1>13, <1>14, <1>15, <1>16, <1>17, <1>18, <1>19, <1>20, <1>21, <1>22, <1>23, <1>24, <1>25,
     <1>26, <1>27, <1>28, <1>29, <1>30, <1>31, <1>32, <1>33, <1>34, <1>35, <1>36, <1>37, <1>38,
     <1>39, <1>40, <1>41, <1>42, Zenon DEF Other, Works

Quietly == Left /\ (Quiet => Asked /\ Deploys /\ Ups /\ Ends /\ Rests)

\* What is shown as running stays up in every quiet step.
LEMMA StepQuiet == Inv /\ Inv' /\ Quietly /\ [Next]_vars => Quietly'
<1> SUFFICES ASSUME Inv, Inv', Quietly, [Next]_vars PROVE Quietly'
  OBVIOUS
<1>1. Left'
  BY StepLeft DEF Quietly
<1>2. ASSUME Quiet' PROVE (Asked /\ Deploys /\ Ups /\ Ends /\ Rests)'
  <2>1. Unspent("write") /\ ~Spend("write") /\ Unspent("request") /\ ~Spend("request")
    BY <1>2, StepWithin DEF Quiet, Quietly, Left, Kinds
  <2>2. Near /\ (Spend("fault") => budget["fault"] = MaxFaults)
    <3>1. /\ budget["fault"] \in Nat /\ budget'["fault"] \in Nat
          /\ budget'["fault"] <= budget["fault"] /\ budget["fault"] <= MaxFaults
      BY BudgetSteps, Spending, MostIs DEF Inv, TypeOK, Kinds, Quietly, Left, Within
    <3>2. Spend("fault") => budget'["fault"] = budget["fault"] - 1
      BY DEF Spend, Inv, TypeOK, Kinds
    <3> QED  BY <1>2, <3>1, <3>2, BoundsAssumption DEF Quiet, Near
  <2>3. Asked /\ Deploys /\ Ups /\ Ends /\ Rests
    BY <2>1, <2>2 DEF Quietly, Quiet
  <2> QED
    BY <2>1, <2>2, <2>3, SpentFault, HostPortsSame, StepAsked, StepDeploys, StepUps, StepEnds, StepRests
<1> QED  BY <1>1, <1>2 DEF Quietly

\* A new service is shown as idle.
LEMMA InitQuiet == Init => Quietly
<1> SUFFICES ASSUME Init PROVE Quietly
  OBVIOUS
<1>1. Asked /\ Deploys /\ Ups /\ Ends /\ Rests
  BY IdleRunIs, IdleRecIs, NoJournalIs
     DEF Init, Asked, Deploys, Ups, Ends, Rests, Runs, Busy, Open, Owned, Building, Unwinding, Before, Late,
         Retirement
<1> QED  BY <1>1, InitLeft DEF Quietly

\* At rest the row says `running` only over a container that is up, or whose
\* ports another one holds.
LEMMA RunningRuns == Inv /\ Quietly => RunningIsUp
BY NoJournalIs DEF Quietly, Quiet, Near, Rests, Runs, RunningIsUp, AtRest, Busy, Open

\* Both invariants hold.
LEMMA QuietlyHolds == Spec => [](Inv /\ Quietly)
BY InitInv, InitQuiet, StepInv, StepQuiet, PTL DEF Spec

\* What a deployment, its recovery, a restart and the user's requests leave
\* behind: the routes name the service's runtime, it runs if the row says so,
\* and no other container is left.
THEOREM RestIsCleanHolds == Spec => []RestIsClean
<1>1. Inv /\ Quietly => RestIsClean
  BY RoutesFollow, RunningRuns, NothingIsLeft DEF RestIsClean, Quietly
<1> QED  BY <1>1, QuietlyHolds, PTL
=============================================================================
