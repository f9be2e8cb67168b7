--------------------------- MODULE CiRunnerProofs ---------------------------
(***************************************************************************)
(* Proofs about CiRunner for every set of jobs and of runners, every       *)
(* number of attempts, crashes, revocations and cancels, with either kind  *)
(* of driver: the types, that a job is counted once, that the panel's side *)
(* of the runner protocol implements CiJobLife, and that a running job is  *)
(* looked after.                                                           *)
(***************************************************************************)
EXTENDS CiRunner, FiniteSetTheorems, TLAPS

Last(a) == job[a[1]].attempts
Claiming(o) == o.kind = "claim" /\ o.stage \in {"insert", "link"}

\* An attempt has a row only once its job counted it.
Counted == \A a \in Attempts : attempt[a].status # "none" => a[2] <= Last(a)
\* An attempt that runs or has a result is the last one, and stays the last one:
\* its job is not queued.
ResultIsLast ==
    \A a \in Attempts : attempt[a].status \in {"running"} \cup Results =>
        a[2] = Last(a) /\ job[a[1]].status # "queued"
\* So is the attempt a job names.
CurrentIsLast ==
    \A j \in Jobs : job[j].current # 0 =>
        job[j].current = job[j].attempts /\ job[j].status # "queued"
\* A job that waits has tries left; before its approval it had none.
TriesLeft ==
    \A j \in Jobs :
        /\ job[j].status \in {"none", "awaiting_approval"} => job[j].attempts = 0
        /\ job[j].status = "queued" => job[j].attempts < MaxAttempts
\* A claim that is under way is for the last attempt of a job that names none yet.
ClaimIsLast ==
    \A o \in ops : Claiming(o) =>
        /\ o.a[2] = Last(o.a) /\ job[o.a[1]].current = 0
        /\ job[o.a[1]].status \in {"running", "cancelled"}
        /\ o.stage = "insert" => attempt[o.a].status = "none"
OneClaim == \A o, p \in ops : Claiming(o) /\ Claiming(p) /\ o.a[1] = p.a[1] => o = p
\* A handler's second statement follows its first, which nothing undoes.
LostFirst == \A o \in ops : o.kind = "lose" /\ o.stage = "job" => attempt[o.a].status = "lost"
ClosedFirst ==
    \A o \in ops : o.kind = "finish" /\ o.stage = "settle" => attempt[o.a].status = o.result
SuccessIsCurrent ==
    \A j \in Jobs : job[j].status = "succeeded" =>
        job[j].current # 0 /\ attempt[<<j, job[j].current>>].status = "succeeded"

RunnerInv ==
    /\ Counted /\ ResultIsLast /\ CurrentIsLast /\ TriesLeft /\ ClaimIsLast /\ OneClaim
    /\ LostFirst /\ ClosedFirst /\ SuccessIsCurrent

\* What looks after a running job while no statement of another handler comes
\* between the statements of one, and no handler is cut short.
SecondStage(o) == \/ o.kind = "lose" /\ o.stage = "job"
                  \/ o.kind = "finish" /\ o.stage = "settle"
Tended(j) ==
    \/ \E o \in ops : Claiming(o) /\ o.a[1] = j
    \/ /\ job[j].current # 0
       /\ \/ attempt[<<j, job[j].current>>].status = "running"
          \/ \E o \in ops : SecondStage(o) /\ o.a = <<j, job[j].current>>
RunningTended == \A j \in Jobs : job[j].status = "running" => Tended(j)
\* Nothing ends an attempt before its job names it.
LinkedRuns ==
    \A o \in ops : o.kind = "claim" /\ o.stage = "link" => attempt[o.a].status = "running"
CancelIsLate == \A o \in ops : o.kind = "cancel" => job[o.a[1]].status = "cancelled"
Undisturbed == ~suspends /\ budget["panel"] = MaxPanelCrashes
TendInv ==
    /\ budget["panel"] <= MaxPanelCrashes
    /\ Undisturbed => RunningTended /\ LinkedRuns /\ CancelIsLate

-----------------------------------------------------------------------------
(* The handlers under way                                                  *)

ClaimOps == [kind : {"claim"}, stage : {"insert", "link", "answer"}, a : Attempts, r : Runners]
FinishOps == [kind : {"finish"}, stage : {"close", "settle"}, a : Attempts, result : Results]
CancelOps == [kind : {"cancel"}, stage : {"attempt"}, a : Attempts]
LoseOps == [kind : {"lose"}, stage : {"mark", "job"}, a : Attempts]
FetchOps == [kind : {"fetch"}, stage : {"checkout", "pin"}, a : Attempts,
             pinned : Commits \cup {NoCommit}, sha : Commits \cup {NoCommit}]

\* The kind of a handler tells what it holds.
LEMMA OpKinds ==
    ASSUME NEW o \in Ops
    PROVE  /\ o.a \in Attempts
           /\ o.kind = "claim" => o \in ClaimOps
           /\ o.kind = "finish" => o \in FinishOps
           /\ o.kind = "cancel" => o \in CancelOps
           /\ o.kind = "lose" => o \in LoseOps
           /\ o.kind = "fetch" => o \in FetchOps
BY DEF Ops, ClaimOps, FinishOps, CancelOps, LoseOps, FetchOps

LEMMA OpSets == /\ ClaimOps \subseteq Ops /\ FinishOps \subseteq Ops /\ CancelOps \subseteq Ops
                /\ LoseOps \subseteq Ops /\ FetchOps \subseteq Ops
BY DEF Ops, ClaimOps, FinishOps, CancelOps, LoseOps, FetchOps

LEMMA AttemptPair ==
    ASSUME NEW a \in Attempts
    PROVE  a[1] \in Jobs /\ a[2] \in 1..MaxAttempts /\ a = <<a[1], a[2]>>
BY DEF Attempts

\* Another stage of a claim, of a finish, of a lost attempt.
LEMMA NextStage ==
    ASSUME NEW o, NEW s
    PROVE  /\ o \in ClaimOps /\ s \in {"link", "answer"} =>
                 [o EXCEPT !.stage = s] \in ClaimOps
           /\ o \in FinishOps /\ s = "settle" => [o EXCEPT !.stage = s] \in FinishOps
           /\ o \in LoseOps /\ s = "job" => [o EXCEPT !.stage = s] \in LoseOps
BY DEF ClaimOps, FinishOps, LoseOps

-----------------------------------------------------------------------------
(* The types                                                               *)

JobRows == [status : JobStatuses, attempts : 0..MaxAttempts,
            current : 0..MaxAttempts, sha : Commits \cup {NoCommit}]
AttemptRows == [status : AttemptStatuses, runner : Runners \cup {NoRunner},
                lease : {"live", "lapsed"}]
Works == [phase : Phases, sha : Commits \cup {NoCommit}]

\* A column is set in one row.
LEMMA SetJobStatus ==
    ASSUME NEW f \in [Jobs -> JobRows], NEW j \in Jobs, NEW s \in JobStatuses
    PROVE  [f EXCEPT ![j].status = s] \in [Jobs -> JobRows]
BY DEF JobRows

LEMMA SetWorkPhase ==
    ASSUME NEW f \in [Attempts -> Works], NEW a \in Attempts, NEW p \in Phases
    PROVE  [f EXCEPT ![a].phase = p] \in [Attempts -> Works]
BY DEF Works

LEMMA SetLease ==
    ASSUME NEW f \in [Attempts -> AttemptRows], NEW a \in Attempts, NEW s \in {"live", "lapsed"}
    PROVE  [f EXCEPT ![a].lease = s] \in [Attempts -> AttemptRows]
BY DEF AttemptRows

LEMMA InitType == Init => TypeOK
<1> SUFFICES ASSUME Init PROVE TypeOK
  OBVIOUS
<1>1. suspends \in Drivers
  BY Zenon DEF Init
<1>2. job \in [Jobs -> [status : JobStatuses, attempts : 0..MaxAttempts,
                        current : 0..MaxAttempts, sha : Commits \cup {NoCommit}]]
  BY CiAssumption DEF Init, JobStatuses
<1>3. attempt \in [Attempts -> [status : AttemptStatuses, runner : Runners \cup {NoRunner},
                                lease : {"live", "lapsed"}]]
  BY DEF Init, AttemptStatuses
<1>4. work \in [Attempts -> [phase : Phases, sha : Commits \cup {NoCommit}]]
  BY DEF Init, Phases
<1>5. head \in Commits /\ revoked \subseteq Runners /\ ops \subseteq Ops
  BY CiAssumption DEF Init, Commits
<1>6. budget \in [{"runner", "panel", "revoke", "cancel"} -> Nat]
  BY CiAssumption DEF Init
<1> QED
  BY <1>1, <1>2, <1>3, <1>4, <1>5, <1>6 DEF TypeOK

LEMMA StepType == ASSUME TypeOK, TriesLeft, [Next]_vars PROVE TypeOK'
<1> USE DEF SetAttempt, SetPhase, JobOf
<1>1. CASE UNCHANGED vars
  BY <1>1 DEF vars, TypeOK
<1> SUFFICES ASSUME Next PROVE TypeOK'
  BY <1>1
<1>2. suspends' \in Drivers
  BY DEF Next, TypeOK
<1> USE DEF JobRows, AttemptRows, Works
<1> DEFINE Budget == [{"runner", "panel", "revoke", "cancel"} -> Nat]
           Good == /\ job' \in [Jobs -> JobRows] /\ attempt' \in [Attempts -> AttemptRows]
                   /\ revoked' \subseteq Runners /\ work' \in [Attempts -> Works]
                   /\ head' \in Commits /\ ops' \subseteq Ops /\ budget' \in Budget
<1>3. SUFFICES Good
  BY <1>2, <1>3 DEF TypeOK
<1>4. /\ job \in [Jobs -> JobRows] /\ attempt \in [Attempts -> AttemptRows]
      /\ revoked \subseteq Runners /\ work \in [Attempts -> Works]
      /\ head \in Commits /\ ops \subseteq Ops /\ budget \in Budget
  BY DEF TypeOK
<1>5. ASSUME NEW kind \in {"runner", "panel", "revoke", "cancel"}, Spend(kind)
      PROVE  budget' \in Budget
  BY <1>4, <1>5 DEF Spend
<1>6. ASSUME NEW j \in Jobs, Submit(j) PROVE Good
  BY <1>4, <1>6 DEF Submit, JobStatuses, Live
<1>7. ASSUME NEW j \in Jobs, Approve(j) PROVE Good
  BY <1>4, <1>7 DEF Approve, JobStatuses, Live
<1>8. ASSUME NEW j \in Jobs, Cancel(j) PROVE Good
  <2>1. budget' \in Budget
    BY <1>5, <1>8 DEF Cancel
  <2>2. ops' \subseteq Ops
    <3>1. \A n \in {job[j].current} \ {0} :
             [kind |-> "cancel", stage |-> "attempt", a |-> <<j, n>>] \in CancelOps
      BY <1>4, CiAssumption DEF CancelOps, Attempts
    <3> QED  BY <1>4, <1>8, <3>1, OpSets DEF Cancel
  <2>3. job' \in [Jobs -> JobRows]
    <3>1. job' = [job EXCEPT ![j].status = "cancelled"] /\ "cancelled" \in JobStatuses
      BY <1>8 DEF Cancel, JobStatuses
    <3> QED  BY <1>4, <3>1
  <2> QED  BY <1>4, <1>8, <2>1, <2>2, <2>3 DEF Cancel
<1>9. ASSUME NEW r \in Runners, Revoke(r) PROVE Good
  <2>1. budget' \in Budget
    BY <1>5, <1>9 DEF Revoke
  <2>2. ops' \subseteq Ops
    <3>1. \A a \in RunningOn(r) : [kind |-> "lose", stage |-> "mark", a |-> a] \in LoseOps
      BY DEF LoseOps, RunningOn
    <3> QED  BY <1>4, <1>9, <3>1, OpSets DEF Revoke
  <2> QED  BY <1>4, <1>9, <2>1, <2>2 DEF Revoke
<1>10. ASSUME NEW r \in Runners, Claim(r) PROVE Good
  <2>1. PICK j \in Jobs :
          /\ job[j].status = "queued"
          /\ job' = [job EXCEPT ![j].status = "running", ![j].attempts = @ + 1]
          /\ ops' = ops \cup {[kind |-> "claim", stage |-> "insert",
                               a |-> <<j, job[j].attempts + 1>>, r |-> r]}
    BY <1>10 DEF Claim
  <2>2. job[j].attempts \in 0..MaxAttempts /\ job[j].attempts < MaxAttempts
    BY <1>4, <2>1 DEF TriesLeft
  <2>3. job[j].attempts + 1 \in 1..MaxAttempts
    BY <2>2, CiAssumption
  <2>4. ops' \subseteq Ops
    <3>1. [kind |-> "claim", stage |-> "insert",
           a |-> <<j, job[j].attempts + 1>>, r |-> r] \in ClaimOps
      BY <2>3 DEF ClaimOps, Attempts
    <3> QED  BY <1>4, <2>1, <3>1, OpSets
  <2>5. job' \in [Jobs -> JobRows]
    BY <1>4, <2>1, <2>2, CiAssumption DEF JobStatuses, Live
  <2> QED  BY <1>4, <1>10, <2>4, <2>5 DEF Claim
<1>11. ASSUME NEW r \in Runners, RunnerCrash(r) PROVE Good
  <2>1. budget' \in Budget
    BY <1>5, <1>11 DEF RunnerCrash
  <2>2. work' \in [Attempts -> Works]
    BY <1>4, <1>11 DEF RunnerCrash, Phases
  <2> QED  BY <1>4, <1>11, <2>1, <2>2 DEF RunnerCrash
<1>12. ASSUME NEW o \in ops, Handler(o) PROVE Good
  <2>1. o \in Ops /\ o.a \in Attempts
    BY <1>4, OpKinds
  <2>2. o.a[1] \in Jobs /\ o.a[2] \in 0..MaxAttempts
    BY <2>1, AttemptPair
  <2>3. CASE InsertAttempt(o)
    <3>1. o \in ClaimOps
      BY <2>1, <2>3, OpKinds DEF InsertAttempt
    <3>2. [o EXCEPT !.stage = "link"] \in Ops
      BY <3>1, NextStage, OpSets
    <3>3. o.r \in Runners
      BY <3>1 DEF ClaimOps
    <3> QED  BY <1>4, <2>1, <2>3, <3>2, <3>3 DEF InsertAttempt, Proceed, AttemptStatuses
  <2>4. CASE LinkAttempt(o)
    <3>1. [o EXCEPT !.stage = "answer"] \in Ops
      BY <2>1, <2>4, OpKinds, NextStage, OpSets DEF LinkAttempt
    <3> QED  BY <1>4, <2>2, <2>4, <3>1, ZenonT(40) DEF LinkAttempt, Proceed
  <2>5. CASE Answer(o)
    <3>1. work' \in [Attempts -> Works]
      <4>1. work' = work \/ work' = [work EXCEPT ![o.a].phase = "claimed"]
        BY <2>5 DEF Answer
      <4>2. "claimed" \in Phases
        BY DEF Phases
      <4> HIDE DEF Works
      <4> QED  BY <1>4, <2>1, <4>1, <4>2, SetWorkPhase
    <3> QED  BY <1>4, <2>5, <3>1 DEF Answer, Done
  <2>6. CASE Checkout(o)
    <3> DEFINE c == IF o.pinned = NoCommit THEN head ELSE o.pinned
    <3>1. o \in FetchOps
      BY <2>1, <2>6, OpKinds DEF Checkout
    <3>2. c \in Commits \cup {NoCommit}
      BY <1>4, <3>1 DEF FetchOps
    <3>3. [o EXCEPT !.stage = "pin", !.sha = c] \in FetchOps
      <4> HIDE DEF c
      <4> QED  BY <3>1, <3>2 DEF FetchOps
    <3> QED  BY <1>4, <2>6, <3>3, OpSets DEF Checkout
  <2>7. CASE Pin(o)
    <3>1. o.sha \in Commits \cup {NoCommit}
      BY <2>1, <2>7, OpKinds DEF Pin, FetchOps
    <3>2. job' \in [Jobs -> JobRows]
      BY <1>4, <2>2, <2>7, <3>1 DEF Pin
    <3>3. work' \in [Attempts -> Works]
      BY <1>4, <2>1, <2>7, <3>1 DEF Pin, Phases
    <3> QED  BY <1>4, <2>7, <3>2, <3>3 DEF Pin, Done
  <2>8. CASE CloseAttempt(o)
    <3>1. o \in FinishOps /\ [o EXCEPT !.stage = "settle"] \in Ops
      BY <2>1, <2>8, OpKinds, NextStage, OpSets DEF CloseAttempt
    <3>2. o.result \in AttemptStatuses
      BY <3>1 DEF FinishOps, AttemptStatuses
    <3>3. attempt' \in [Attempts -> AttemptRows]
      BY <1>4, <2>1, <2>8, <3>2, SMTT(30) DEF CloseAttempt
    <3>4. work' \in [Attempts -> Works]
      <4>1. work' = work \/ work' = [work EXCEPT ![o.a].phase = "none"]
        BY <2>8 DEF CloseAttempt
      <4>2. "none" \in Phases
        BY DEF Phases
      <4> HIDE DEF Works
      <4> QED  BY <1>4, <2>1, <4>1, <4>2, SetWorkPhase
    <3>5. ops' \subseteq Ops
      BY <1>4, <2>8, <3>1 DEF CloseAttempt, Proceed, Done
    <3> QED  BY <1>4, <2>8, <3>3, <3>4, <3>5 DEF CloseAttempt
  <2>9. CASE SettleJob(o)
    <3>1. o.result \in JobStatuses
      BY <2>1, <2>9, OpKinds DEF SettleJob, FinishOps, JobStatuses
    <3>2. job' \in [Jobs -> JobRows]
      <4>1. job' = job \/ job' = [job EXCEPT ![o.a[1]].status = o.result]
        BY <2>9 DEF SettleJob
      <4> HIDE DEF JobRows
      <4> QED  BY <1>4, <2>2, <3>1, <4>1, SetJobStatus
    <3>3. work' \in [Attempts -> Works]
      <4>1. work' = [work EXCEPT ![o.a].phase = "none"] /\ "none" \in Phases
        BY <2>9 DEF SettleJob, Phases
      <4> HIDE DEF Works
      <4> QED  BY <1>4, <2>1, <4>1, SetWorkPhase
    <3> QED  BY <1>4, <2>9, <3>2, <3>3 DEF SettleJob, Done
  <2>10. CASE CancelAttempt(o)
    BY <1>4, <2>1, <2>10, SMTT(30) DEF CancelAttempt, Done, AttemptStatuses
  <2>11. CASE MarkLost(o)
    <3>1. [o EXCEPT !.stage = "job"] \in Ops
      BY <2>1, <2>11, OpKinds, NextStage, OpSets DEF MarkLost
    <3>2. attempt' \in [Attempts -> AttemptRows]
      BY <1>4, <2>1, <2>11, SMTT(30) DEF MarkLost, AttemptStatuses
    <3>3. ops' \subseteq Ops
      BY <1>4, <2>11, <3>1 DEF MarkLost, Proceed, Done
    <3> QED  BY <1>4, <2>11, <3>2, <3>3 DEF MarkLost
  <2>12. CASE Requeue(o)
    <3>1. job' \in [Jobs -> JobRows]
      <4>1. "queued" \in JobStatuses /\ "failed" \in JobStatuses /\ 0 \in 0..MaxAttempts
        BY CiAssumption DEF JobStatuses, Live, Results
      <4>2. \/ job' = job
            \/ job' = [job EXCEPT ![o.a[1]].status = "queued", ![o.a[1]].current = 0]
            \/ job' = [job EXCEPT ![o.a[1]].status = "failed"]
        BY <2>12 DEF Requeue
      <4>3. CASE job' = [job EXCEPT ![o.a[1]].status = "queued", ![o.a[1]].current = 0]
        BY <1>4, <2>2, <4>1, <4>3
      <4>4. CASE job' = [job EXCEPT ![o.a[1]].status = "failed"]
        BY <1>4, <2>2, <4>1, <4>4, SetJobStatus
      <4> QED  BY <1>4, <4>2, <4>3, <4>4
    <3> QED  BY <1>4, <2>12, <3>1 DEF Requeue, Done
  <2> QED  BY <1>12, <2>3, <2>4, <2>5, <2>6, <2>7, <2>8, <2>9, <2>10, <2>11, <2>12 DEF Handler
<1>13. ASSUME NEW a \in Attempts, Fetch(a) PROVE Good
  <2>1. job[a[1]].sha \in Commits \cup {NoCommit}
    BY <1>4, AttemptPair
  <2>2. [kind |-> "fetch", stage |-> "checkout", a |-> a,
         pinned |-> job[JobOf(a)].sha, sha |-> NoCommit] \in FetchOps
    BY <2>1 DEF FetchOps
  <2>3. ops' \subseteq Ops
    BY <1>4, <1>13, <2>2, OpSets DEF Fetch
  <2>4. work' \in [Attempts -> Works]
    BY <1>4, <1>13 DEF Fetch, Phases, Results
  <2> QED  BY <1>4, <1>13, <2>3, <2>4 DEF Fetch
<1>14. ASSUME NEW a \in Attempts, ScriptEnds(a) PROVE Good
  BY <1>4, <1>14 DEF ScriptEnds, Phases
<1>15. ASSUME NEW a \in Attempts, Report(a) PROVE Good
  <2>1. work[a].phase \in Results
    BY <1>15 DEF Report
  <2>2. [kind |-> "finish", stage |-> "close", a |-> a, result |-> work[a].phase] \in FinishOps
    BY <2>1 DEF FinishOps
  <2>3. ops' \subseteq Ops
    BY <1>4, <1>15, <2>2, OpSets DEF Report
  <2>4. work' \in [Attempts -> Works]
    BY <1>4, <1>15 DEF Report, Phases
  <2> QED  BY <1>4, <1>15, <2>3, <2>4 DEF Report
<1>16. ASSUME NEW a \in Attempts, FetchFails(a) PROVE Good
  BY <1>4, <1>16 DEF FetchFails, Phases, Results
<1>17. ASSUME NEW a \in Attempts, Heartbeat(a) PROVE Good
  <2>1. attempt' \in [Attempts -> AttemptRows]
    <3>1. attempt' = attempt \/ attempt' = [attempt EXCEPT ![a].lease = "live"]
      BY <1>17 DEF Heartbeat
    <3> HIDE DEF AttemptRows
    <3>2. [attempt EXCEPT ![a].lease = "live"] \in [Attempts -> AttemptRows]
      BY <1>4, SetLease
    <3> QED  BY <1>4, <3>1, <3>2
  <2>2. work' \in [Attempts -> Works]
    <3>1. work' = work \/ work' = [work EXCEPT ![a].phase = "none"]
      BY <1>17 DEF Heartbeat
    <3>2. "none" \in Phases
      BY DEF Phases
    <3> HIDE DEF Works
    <3> QED  BY <1>4, <3>1, <3>2, SetWorkPhase
  <2> QED  BY <1>4, <1>17, <2>1, <2>2 DEF Heartbeat
<1>18. ASSUME NEW a \in Attempts, Lapse(a) PROVE Good
  <2>1. attempt' = [attempt EXCEPT ![a].lease = "lapsed"]
    BY <1>18 DEF Lapse
  <2>2. attempt' \in [Attempts -> AttemptRows]
    <3> HIDE DEF AttemptRows
    <3> QED  BY <1>4, <2>1, SetLease
  <2> QED  BY <1>4, <1>18, <2>2 DEF Lapse
<1>19. ASSUME NEW a \in Attempts, Sweep(a) PROVE Good
  <2>1. [kind |-> "lose", stage |-> "mark", a |-> a] \in LoseOps
    BY DEF LoseOps
  <2> QED  BY <1>4, <1>19, <2>1, OpSets DEF Sweep
<1>20. CASE PanelCrash
  <2>1. budget' \in Budget
    BY <1>5, <1>20 DEF PanelCrash
  <2>2. attempt' \in [Attempts -> AttemptRows]
    BY <1>4, <1>20, SMTT(30) DEF PanelCrash
  <2> QED  BY <1>4, <1>20, <2>1, <2>2 DEF PanelCrash
<1>21. CASE HeadMoves
  BY <1>4, <1>21, CiAssumption DEF HeadMoves, Commits
<1> HIDE DEF Good
<1> QED
  BY <1>6, <1>7, <1>8, <1>9, <1>10, <1>11, <1>12, <1>13, <1>14, <1>15, <1>16, <1>17,
     <1>18, <1>19, <1>20, <1>21 DEF Next, Runner

-----------------------------------------------------------------------------
(* A job is counted once                                                   *)

SameJobs ==
    \A j \in Jobs : /\ job'[j].status = job[j].status
                    /\ job'[j].attempts = job[j].attempts /\ job'[j].current = job[j].current
SameAttempts == \A a \in Attempts : attempt'[a].status = attempt[a].status
NoNewStage == \A o \in ops' : o \in ops \/ ~(Claiming(o) \/ SecondStage(o))

\* The attempts and the handlers name rows that exist.
LEMMA Rows ==
    ASSUME TypeOK
    PROVE  /\ \A j \in Jobs : /\ job[j].attempts \in 0..MaxAttempts
                              /\ job[j].current \in 0..MaxAttempts
           /\ \A a \in Attempts : a[1] \in Jobs /\ a[2] \in 1..MaxAttempts /\ a = <<a[1], a[2]>>
           /\ \A o \in ops : o \in Ops /\ o.a \in Attempts
           /\ \A j \in Jobs, n \in 1..MaxAttempts : <<j, n>> \in Attempts
<1>1. \A j \in Jobs : job[j].attempts \in 0..MaxAttempts /\ job[j].current \in 0..MaxAttempts
  BY DEF TypeOK
<1>2. \A o \in ops : o \in Ops /\ o.a \in Attempts
  BY OpKinds DEF TypeOK
<1> QED
  BY <1>1, <1>2, AttemptPair DEF Attempts

\* A step that changes no status, no attempt count and no current attempt, and
\* starts no second statement, keeps the invariant.
LEMMA QuietStep ==
    ASSUME TypeOK, RunnerInv, SameJobs, SameAttempts, NoNewStage
    PROVE  RunnerInv'
<1> USE DEF SameJobs, SameAttempts, NoNewStage, Last
<1>1. /\ \A j \in Jobs : job[j].current \in 0..MaxAttempts
      /\ \A a \in Attempts : a[1] \in Jobs
      /\ \A o \in ops : o.a \in Attempts
      /\ \A j \in Jobs, n \in 1..MaxAttempts : <<j, n>> \in Attempts
  BY Rows
<1>2. Counted'
  BY <1>1 DEF RunnerInv, Counted
<1>3. ResultIsLast'
  BY <1>1 DEF RunnerInv, ResultIsLast
<1>4. CurrentIsLast'
  BY DEF RunnerInv, CurrentIsLast
<1>5. TriesLeft'
  BY DEF RunnerInv, TriesLeft
<1>6. ClaimIsLast'
  BY <1>1 DEF RunnerInv, ClaimIsLast
<1>7. OneClaim'
  BY DEF RunnerInv, OneClaim
<1>8. LostFirst'
  BY <1>1 DEF RunnerInv, LostFirst, SecondStage
<1>9. ClosedFirst'
  BY <1>1 DEF RunnerInv, ClosedFirst, SecondStage
<1>10. SuccessIsCurrent'
  <2> SUFFICES ASSUME NEW j \in Jobs, job[j].status = "succeeded"
               PROVE  job[j].current # 0 /\ attempt'[<<j, job[j].current>>].status = "succeeded"
    BY DEF SuccessIsCurrent
  <2>1. job[j].current # 0 /\ attempt[<<j, job[j].current>>].status = "succeeded"
    BY DEF RunnerInv, SuccessIsCurrent
  <2>2. job[j].current \in 1..MaxAttempts
    BY <1>1, <2>1, CiAssumption
  <2> QED  BY <1>1, <2>1, <2>2
<1> QED
  BY <1>2, <1>3, <1>4, <1>5, <1>6, <1>7, <1>8, <1>9, <1>10 DEF RunnerInv

\* An attempt that runs is cancelled, lost or closed; a handler goes on to its
\* second statement only for what its first one wrote.
LEMMA EndStep ==
    ASSUME TypeOK, RunnerInv, SameJobs,
           NEW a \in Attempts, attempt[a].status = "running",
           attempt'[a].status \in {"cancelled", "lost"} \cup Results,
           \A b \in Attempts : b # a => attempt'[b].status = attempt[b].status,
           \A o \in ops' : \/ o \in ops
                           \/ o.kind = "lose" /\ o.a = a /\ attempt'[a].status = "lost"
                           \/ o.kind = "finish" /\ o.a = a /\ attempt'[a].status = o.result
    PROVE  RunnerInv'
<1> USE DEF SameJobs, Last
<1>1. /\ \A j \in Jobs : job[j].current \in 0..MaxAttempts
      /\ \A b \in Attempts : b[1] \in Jobs
      /\ \A o \in ops : o.a \in Attempts
      /\ \A j \in Jobs, n \in 1..MaxAttempts : <<j, n>> \in Attempts
  BY Rows
<1>2. /\ attempt'[a].status # "none" /\ attempt'[a].status # "running"
      /\ \A b \in Attempts : b # a => attempt'[b].status = attempt[b].status
  BY DEF Results
<1>3. Counted'
  BY <1>1, <1>2 DEF RunnerInv, Counted
<1>4. ResultIsLast'
  BY <1>1, <1>2 DEF RunnerInv, ResultIsLast
<1>5. CurrentIsLast' /\ TriesLeft'
  BY DEF RunnerInv, CurrentIsLast, TriesLeft
<1>6. ClaimIsLast'
  <2> SUFFICES ASSUME NEW o \in ops', Claiming(o)
               PROVE  /\ o.a[2] = Last(o.a)' /\ job'[o.a[1]].current = 0
                      /\ job'[o.a[1]].status \in {"running", "cancelled"}
                      /\ o.stage = "insert" => attempt'[o.a].status = "none"
    BY DEF ClaimIsLast
  <2>1. o \in ops
    BY DEF Claiming
  <2>2. o.stage = "insert" => o.a # a
    BY <2>1 DEF RunnerInv, ClaimIsLast
  <2> QED  BY <1>1, <1>2, <2>1, <2>2 DEF RunnerInv, ClaimIsLast
<1>7. OneClaim'
  <2>1. \A o \in ops' : Claiming(o) => o \in ops
    BY DEF Claiming
  <2> QED  BY <2>1 DEF RunnerInv, OneClaim
<1>8. LostFirst'
  BY <1>1, <1>2 DEF RunnerInv, LostFirst, SecondStage, Claiming, Results
<1>9. ClosedFirst'
  <2> SUFFICES ASSUME NEW o \in ops', o.kind = "finish", o.stage = "settle"
               PROVE  attempt'[o.a].status = o.result
    BY DEF ClosedFirst
  <2>1. CASE o \in ops
    <3>1. attempt[o.a].status = o.result /\ o.result \in Results
      BY <2>1, OpKinds DEF RunnerInv, ClosedFirst, TypeOK, FinishOps
    <3>2. o.a # a
      BY <3>1 DEF Results
    <3> QED  BY <1>1, <1>2, <2>1, <3>1, <3>2
  <2>2. CASE o \notin ops
    BY <1>2, <2>2 DEF SecondStage
  <2> QED  BY <2>1, <2>2
<1>10. SuccessIsCurrent'
  <2> SUFFICES ASSUME NEW j \in Jobs, job[j].status = "succeeded"
               PROVE  job[j].current # 0 /\ attempt'[<<j, job[j].current>>].status = "succeeded"
    BY DEF SuccessIsCurrent
  <2>1. job[j].current # 0 /\ attempt[<<j, job[j].current>>].status = "succeeded"
    BY DEF RunnerInv, SuccessIsCurrent
  <2>2. job[j].current \in 1..MaxAttempts
    BY <1>1, <2>1, CiAssumption
  <2> QED  BY <1>1, <1>2, <2>1, <2>2
<1> QED
  BY <1>3, <1>4, <1>5, <1>6, <1>7, <1>8, <1>9, <1>10 DEF RunnerInv

\* The status of one job changes.
LEMMA JobStep ==
    ASSUME TypeOK, RunnerInv, attempt' = attempt, NoNewStage,
           NEW j \in Jobs,
           \A k \in Jobs : (k # j => job'[k] = job[k]) /\ job'[k].attempts = job[k].attempts,
           job'[j].current = job[j].current \/ job'[j].status = "queued",
           job'[j].status \in {"none", "awaiting_approval"} => job[j].attempts = 0,
           job'[j].status = "queued" =>
               /\ job[j].attempts < MaxAttempts /\ job'[j].current = 0
               /\ \A a \in Attempts : a[1] = j /\ a[2] = job[j].attempts =>
                     attempt[a].status \notin {"running"} \cup Results,
           job'[j].status = "succeeded" =>
               job[j].current # 0 /\ attempt[<<j, job[j].current>>].status = "succeeded",
           job'[j].status \notin {"running", "cancelled"} =>
               \A o \in ops : Claiming(o) => o.a[1] # j
    PROVE  RunnerInv'
<1> USE DEF Last, NoNewStage
<1>1. /\ \A k \in Jobs : job[k].current \in 0..MaxAttempts
      /\ \A a \in Attempts : a[1] \in Jobs
      /\ \A o \in ops : o.a \in Attempts
  BY Rows
<1>2. Counted'
  BY <1>1 DEF RunnerInv, Counted
<1>3. ResultIsLast'
  BY <1>1 DEF RunnerInv, ResultIsLast
<1>4. CurrentIsLast'
  BY <1>1 DEF RunnerInv, CurrentIsLast
<1>5. TriesLeft'
  BY <1>1 DEF RunnerInv, TriesLeft
<1>6. ClaimIsLast'
  BY <1>1 DEF RunnerInv, ClaimIsLast
<1>7. OneClaim' /\ LostFirst' /\ ClosedFirst'
  BY DEF RunnerInv, OneClaim, LostFirst, ClosedFirst, SecondStage
<1>8. SuccessIsCurrent'
  BY DEF RunnerInv, SuccessIsCurrent
<1> QED
  BY <1>2, <1>3, <1>4, <1>5, <1>6, <1>7, <1>8 DEF RunnerInv

\* claimJob's first statement counts an attempt that nobody else can be claiming.
LEMMA ClaimStep ==
    ASSUME TypeOK, RunnerInv, NEW r \in Runners, Claim(r)
    PROVE  RunnerInv'
<1> USE DEF Last
<1>1. PICK j \in Jobs :
        /\ job[j].status = "queued"
        /\ job' = [job EXCEPT ![j].status = "running", ![j].attempts = @ + 1]
        /\ ops' = ops \cup {[kind |-> "claim", stage |-> "insert",
                             a |-> <<j, job[j].attempts + 1>>, r |-> r]}
  BY DEF Claim
<1> DEFINE n == job[j].attempts
           new == [kind |-> "claim", stage |-> "insert", a |-> <<j, n + 1>>, r |-> r]
<1>2. /\ \A k \in Jobs : job[k].current \in 0..MaxAttempts /\ job[k].attempts \in 0..MaxAttempts
      /\ \A a \in Attempts : a[1] \in Jobs /\ a[2] \in 1..MaxAttempts
      /\ \A o \in ops : o.a \in Attempts
  BY Rows
<1>3. n \in Nat /\ n + 1 \in 1..MaxAttempts /\ job[j].current = 0
  <2>1. n < MaxAttempts /\ job[j].current = 0
    BY <1>1 DEF RunnerInv, TriesLeft, CurrentIsLast
  <2> QED  BY <1>2, <2>1, CiAssumption
<1>4. /\ job'[j].status = "running" /\ job'[j].attempts = n + 1 /\ job'[j].current = 0
      /\ \A k \in Jobs : k # j => job'[k] = job[k]
  BY <1>1, <1>3 DEF TypeOK
<1>5. attempt' = attempt
  BY DEF Claim
<1>6. new.a \in Attempts /\ new.a[1] = j /\ new.a[2] = n + 1 /\ attempt[new.a].status = "none"
  <2>1. new.a \in Attempts /\ new.a[1] = j /\ new.a[2] = n + 1
    BY <1>3 DEF Attempts
  <2>2. ~(n + 1 <= n)
    BY <1>3
  <2> QED  BY <2>1, <2>2 DEF RunnerInv, Counted
<1>7. \A o \in ops : Claiming(o) => o.a[1] # j
  BY <1>1 DEF RunnerInv, ClaimIsLast
<1>8. new.kind = "claim" /\ new.stage = "insert" /\ ops' = ops \cup {new}
  BY <1>1
<1> HIDE DEF new
<1>9. Counted'
  BY <1>2, <1>3, <1>4, <1>5 DEF RunnerInv, Counted
<1>10. ResultIsLast'
  BY <1>1, <1>2, <1>4, <1>5 DEF RunnerInv, ResultIsLast
<1>11. CurrentIsLast' /\ TriesLeft'
  BY <1>4 DEF RunnerInv, CurrentIsLast, TriesLeft
<1>12. ClaimIsLast'
  BY <1>2, <1>4, <1>5, <1>6, <1>7, <1>8 DEF RunnerInv, ClaimIsLast
<1>13. OneClaim'
  BY <1>6, <1>7, <1>8 DEF RunnerInv, OneClaim
<1>14. LostFirst' /\ ClosedFirst'
  BY <1>5, <1>8 DEF RunnerInv, LostFirst, ClosedFirst
<1>15. SuccessIsCurrent'
  BY <1>4, <1>5 DEF RunnerInv, SuccessIsCurrent
<1> QED
  BY <1>9, <1>10, <1>11, <1>12, <1>13, <1>14, <1>15 DEF RunnerInv

\* Its second statement inserts the attempt's row.
LEMMA InsertStep ==
    ASSUME TypeOK, RunnerInv, NEW o \in ops, InsertAttempt(o)
    PROVE  RunnerInv'
<1> USE DEF Last
<1> DEFINE new == [o EXCEPT !.stage = "link"]
<1>1. /\ \A k \in Jobs : job[k].current \in 0..MaxAttempts
      /\ \A a \in Attempts : a[1] \in Jobs
      /\ \A p \in ops : p.a \in Attempts
      /\ \A j \in Jobs, n \in 1..MaxAttempts : <<j, n>> \in Attempts
  BY Rows
<1>2. /\ o.a \in Attempts /\ Claiming(o) /\ o.kind = "claim" /\ o.stage = "insert"
      /\ o \in ClaimOps /\ attempt[o.a].status = "none"
  BY <1>1, OpKinds DEF InsertAttempt, Claiming, RunnerInv, ClaimIsLast, TypeOK
<1>3. /\ attempt'[o.a].status = "running"
      /\ \A a \in Attempts : a # o.a => attempt'[a] = attempt[a]
  BY <1>2 DEF InsertAttempt, TypeOK
<1>4. job' = job /\ ops' = (ops \ {o}) \cup {new}
  BY DEF InsertAttempt, Proceed
<1>5. new.kind = "claim" /\ new.stage = "link" /\ new.a = o.a
  BY <1>2 DEF ClaimOps
<1> HIDE DEF new
<1>6. Counted' /\ ResultIsLast'
  <2>1. o.a[2] = Last(o.a) /\ job[o.a[1]].status # "queued" /\ o.a[2] \in Nat
    BY <1>2, AttemptPair DEF RunnerInv, ClaimIsLast
  <2> QED  BY <1>2, <1>3, <1>4, <2>1 DEF RunnerInv, Counted, ResultIsLast
<1>7. CurrentIsLast' /\ TriesLeft'
  BY <1>4 DEF RunnerInv, CurrentIsLast, TriesLeft
<1>8. ClaimIsLast'
  <2> SUFFICES ASSUME NEW p \in ops', Claiming(p)
               PROVE  /\ p.a[2] = Last(p.a) /\ job[p.a[1]].current = 0
                      /\ job[p.a[1]].status \in {"running", "cancelled"}
                      /\ p.stage = "insert" => attempt'[p.a].status = "none"
    BY <1>4 DEF ClaimIsLast
  <2>1. CASE p = new
    BY <1>2, <1>5, <2>1 DEF RunnerInv, ClaimIsLast
  <2>2. CASE p \in ops /\ p # o
    <3>1. p.a # o.a
      BY <1>2, <2>2 DEF RunnerInv, OneClaim
    <3> QED  BY <1>1, <1>3, <2>2, <3>1 DEF RunnerInv, ClaimIsLast
  <2> QED  BY <1>4, <2>1, <2>2
<1>9. OneClaim'
  BY <1>2, <1>4, <1>5 DEF RunnerInv, OneClaim
<1>10. LostFirst'
  BY <1>1, <1>2, <1>3, <1>4, <1>5 DEF RunnerInv, LostFirst
<1>11. ClosedFirst'
  <2> SUFFICES ASSUME NEW p \in ops', p.kind = "finish", p.stage = "settle"
               PROVE  attempt'[p.a].status = p.result
    BY DEF ClosedFirst
  <2>1. p \in ops /\ p \in FinishOps
    BY <1>4, <1>5, OpKinds DEF TypeOK
  <2>2. attempt[p.a].status = p.result /\ p.result # "none"
    BY <2>1 DEF RunnerInv, ClosedFirst, FinishOps, Results
  <2> QED  BY <1>1, <1>2, <1>3, <2>1, <2>2
<1>12. SuccessIsCurrent'
  <2> SUFFICES ASSUME NEW j \in Jobs, job[j].status = "succeeded"
               PROVE  job[j].current # 0 /\ attempt'[<<j, job[j].current>>].status = "succeeded"
    BY <1>4 DEF SuccessIsCurrent
  <2>1. job[j].current # 0 /\ attempt[<<j, job[j].current>>].status = "succeeded"
    BY DEF RunnerInv, SuccessIsCurrent
  <2>2. job[j].current \in 1..MaxAttempts
    BY <1>1, <2>1, CiAssumption
  <2> QED  BY <1>1, <1>2, <1>3, <2>1, <2>2
<1> QED
  BY <1>6, <1>7, <1>8, <1>9, <1>10, <1>11, <1>12 DEF RunnerInv

\* Its third names the attempt as the job's current one.
LEMMA LinkStep ==
    ASSUME TypeOK, RunnerInv, NEW o \in ops, LinkAttempt(o)
    PROVE  RunnerInv'
<1> USE DEF Last
<1> DEFINE new == [o EXCEPT !.stage = "answer"]
           j == o.a[1]
<1>1. /\ \A a \in Attempts : a[1] \in Jobs
      /\ \A p \in ops : p.a \in Attempts
  BY Rows
<1>2. /\ o.a \in Attempts /\ j \in Jobs /\ Claiming(o) /\ o \in ClaimOps
      /\ o.a[2] = job[j].attempts /\ job[j].status \in {"running", "cancelled"}
  BY <1>1, OpKinds DEF LinkAttempt, Claiming, RunnerInv, ClaimIsLast, TypeOK
<1>3. /\ job'[j].status = job[j].status /\ job'[j].attempts = job[j].attempts
      /\ job'[j].current = o.a[2]
      /\ \A k \in Jobs : k # j => job'[k] = job[k]
  BY <1>2 DEF LinkAttempt, JobOf, TypeOK
<1>4. attempt' = attempt /\ ops' = (ops \ {o}) \cup {new}
  BY DEF LinkAttempt, Proceed
<1>5. new.kind = "claim" /\ new.stage = "answer"
  BY <1>2 DEF ClaimOps
<1>6. \A p \in ops' : Claiming(p) => p \in ops /\ p.a[1] # j
  BY <1>2, <1>4, <1>5 DEF RunnerInv, OneClaim, Claiming
<1> HIDE DEF new, j
<1>7. Counted' /\ ResultIsLast'
  BY <1>1, <1>3, <1>4 DEF RunnerInv, Counted, ResultIsLast
<1>8. CurrentIsLast'
  BY <1>2, <1>3 DEF RunnerInv, CurrentIsLast
<1>9. TriesLeft'
  BY <1>3 DEF RunnerInv, TriesLeft
<1>10. ClaimIsLast'
  BY <1>1, <1>3, <1>4, <1>6 DEF RunnerInv, ClaimIsLast
<1>11. OneClaim' /\ LostFirst' /\ ClosedFirst'
  BY <1>4, <1>5, <1>6 DEF RunnerInv, OneClaim, LostFirst, ClosedFirst
<1>12. SuccessIsCurrent'
  BY <1>2, <1>3, <1>4 DEF RunnerInv, SuccessIsCurrent
<1> QED
  BY <1>7, <1>8, <1>9, <1>10, <1>11, <1>12 DEF RunnerInv

LEMMA StepRunner == ASSUME TypeOK, RunnerInv, [Next]_vars PROVE RunnerInv'
<1>1. CASE UNCHANGED vars
  <2>1. SameJobs /\ SameAttempts /\ NoNewStage
    BY <1>1 DEF vars, SameJobs, SameAttempts, NoNewStage
  <2> QED  BY <2>1, QuietStep
<1> SUFFICES ASSUME Next PROVE RunnerInv'
  BY <1>1
<1>t. /\ \A a \in Attempts : a[1] \in Jobs
      /\ \A o \in ops : o \in Ops /\ o.a \in Attempts
      /\ \A j \in Jobs : job[j].attempts \in 0..MaxAttempts
  BY Rows
<1>2. ASSUME NEW j \in Jobs, Submit(j) PROVE RunnerInv'
  <2> DEFINE s == IF RequireApproval THEN "awaiting_approval" ELSE "queued"
  <2>1. job[j].attempts = 0 /\ job[j].current = 0
    BY <1>2 DEF Submit, RunnerInv, TriesLeft, CurrentIsLast
  <2>2. \A a \in Attempts : a[1] = j => attempt[a].status = "none"
    <3>1. \A a \in Attempts : ~(a[2] <= 0)
      BY Rows
    <3> QED  BY <2>1, <3>1 DEF RunnerInv, Counted, Last
  <2>3. attempt' = attempt /\ ops' = ops /\ s \in {"awaiting_approval", "queued"}
    BY <1>2 DEF Submit
  <2>4. /\ job'[j].status = s /\ job'[j].current = 0
        /\ \A k \in Jobs : (k # j => job'[k] = job[k]) /\ job'[k].attempts = job[k].attempts
    BY <1>2, <2>1 DEF Submit, TypeOK
  <2>5. \A o \in ops : Claiming(o) => o.a[1] # j
    BY <1>2 DEF Submit, RunnerInv, ClaimIsLast
  <2> HIDE DEF s
  <2>6. 0 < MaxAttempts /\ NoNewStage
    BY <2>3, CiAssumption DEF NoNewStage
  <2>7. \A a \in Attempts : a[1] = j => attempt[a].status \notin {"running"} \cup Results
    BY <2>2 DEF Results
  <2> QED  BY <2>1, <2>3, <2>4, <2>5, <2>6, <2>7, JobStep
<1>3. ASSUME NEW j \in Jobs, Approve(j) PROVE RunnerInv'
  <2>1. job[j].attempts = 0 /\ job[j].current = 0
    BY <1>3 DEF Approve, RunnerInv, TriesLeft, CurrentIsLast
  <2>2. \A a \in Attempts : a[1] = j => attempt[a].status = "none"
    <3>1. \A a \in Attempts : ~(a[2] <= 0)
      BY Rows
    <3> QED  BY <2>1, <3>1 DEF RunnerInv, Counted, Last
  <2>3. attempt' = attempt /\ ops' = ops
    BY <1>3 DEF Approve
  <2>4. /\ job'[j].status = "queued" /\ job'[j].current = 0
        /\ \A k \in Jobs : (k # j => job'[k] = job[k]) /\ job'[k].attempts = job[k].attempts
    BY <1>3, <2>1 DEF Approve, TypeOK
  <2>5. \A o \in ops : Claiming(o) => o.a[1] # j
    BY <1>3 DEF Approve, RunnerInv, ClaimIsLast
  <2>6. 0 < MaxAttempts /\ NoNewStage
    BY <2>3, CiAssumption DEF NoNewStage
  <2>7. \A a \in Attempts : a[1] = j => attempt[a].status \notin {"running"} \cup Results
    BY <2>2 DEF Results
  <2> QED  BY <2>1, <2>3, <2>4, <2>5, <2>6, <2>7, JobStep
<1>4. ASSUME NEW j \in Jobs, Cancel(j) PROVE RunnerInv'
  <2>1. attempt' = attempt
    BY <1>4 DEF Cancel
  <2>2. /\ job'[j].status = "cancelled" /\ job'[j].current = job[j].current
        /\ \A k \in Jobs : (k # j => job'[k] = job[k]) /\ job'[k].attempts = job[k].attempts
    BY <1>4 DEF Cancel, TypeOK
  <2>3. NoNewStage
    BY <1>4 DEF Cancel, NoNewStage, Claiming, SecondStage
  <2> QED  BY <2>1, <2>2, <2>3, JobStep
<1>5. ASSUME NEW r \in Runners, Claim(r) PROVE RunnerInv'
  BY <1>5, ClaimStep
<1>6. ASSUME NEW r \in Runners, Revoke(r) \/ RunnerCrash(r) PROVE RunnerInv'
  <2>1. job' = job /\ attempt' = attempt
    BY <1>6 DEF Revoke, RunnerCrash
  <2>2. NoNewStage
    BY <1>6 DEF Revoke, RunnerCrash, NoNewStage, Claiming, SecondStage
  <2> QED  BY <2>1, <2>2, QuietStep DEF SameJobs, SameAttempts
<1>7. ASSUME NEW o \in ops, Handler(o) PROVE RunnerInv'
  <2>1. CASE InsertAttempt(o)
    BY <2>1, InsertStep
  <2>2. CASE LinkAttempt(o)
    BY <2>2, LinkStep
  <2>3. CASE Answer(o)
    BY <2>3, QuietStep DEF Answer, Done, SameJobs, SameAttempts, NoNewStage
  <2>4. CASE Checkout(o)
    <3>1. o \in FetchOps
      BY <1>t, <2>4, OpKinds DEF Checkout
    <3>2. NoNewStage
      BY <2>4, <3>1 DEF Checkout, NoNewStage, Claiming, SecondStage, FetchOps
    <3> QED  BY <2>4, <3>2, QuietStep DEF Checkout, SameJobs, SameAttempts
  <2>5. CASE Pin(o)
    <3>1. SameJobs
      BY <1>t, <2>5 DEF Pin, JobOf, SameJobs, TypeOK
    <3> QED  BY <2>5, <3>1, QuietStep DEF Pin, Done, SameAttempts, NoNewStage
  <2>6. CASE CloseAttempt(o)
    <3>1. job' = job
      BY <2>6 DEF CloseAttempt
    <3>2. CASE attempt[o.a].status = "running"
      <4>1. o \in FinishOps
        BY <1>t, <2>6, OpKinds DEF CloseAttempt
      <4>2. /\ attempt' = [attempt EXCEPT ![o.a].status = o.result]
            /\ ops' = (ops \ {o}) \cup {[o EXCEPT !.stage = "settle"]}
        BY <2>6, <3>2 DEF CloseAttempt, SetAttempt, Proceed
      <4>3. \A p \in ops' : p \in ops \/ (p.kind = "finish" /\ p.a = o.a /\ o.result = p.result)
        BY <4>1, <4>2 DEF FinishOps
      <4>4. o.result \in {"cancelled", "lost"} \cup Results
        BY <4>1 DEF FinishOps
      <4>5. /\ attempt'[o.a].status = o.result
            /\ \A b \in Attempts : b # o.a => attempt'[b].status = attempt[b].status
        BY <1>t, <4>2 DEF TypeOK
      <4> QED  BY <1>t, <3>1, <3>2, <4>3, <4>4, <4>5, EndStep DEF SameJobs
    <3>3. CASE attempt[o.a].status # "running"
      BY <2>6, <3>3, QuietStep DEF CloseAttempt, Done, SameJobs, SameAttempts, NoNewStage
    <3> QED  BY <3>2, <3>3
  <2>7. CASE SettleJob(o)
    <3> DEFINE j == o.a[1]
    <3>1. j \in Jobs /\ o \in FinishOps /\ attempt' = attempt /\ NoNewStage
      BY <1>t, <2>7, OpKinds DEF SettleJob, Done, NoNewStage
    <3>2. CASE job[j].status = "running" /\ job[j].current = o.a[2]
      <4>1. job' = [job EXCEPT ![j].status = o.result]
        BY <2>7, <3>2 DEF SettleJob, JobOf
      <4>2. /\ job'[j].status = o.result /\ job'[j].current = job[j].current
            /\ \A k \in Jobs : (k # j => job'[k] = job[k]) /\ job'[k].attempts = job[k].attempts
        BY <3>1, <4>1 DEF TypeOK
      <4>3. o.result \in Results /\ attempt[o.a].status = o.result
        BY <2>7, <3>1 DEF SettleJob, RunnerInv, ClosedFirst, FinishOps
      <4>4. o.a = <<j, job[j].current>> /\ job[j].current # 0
        BY <1>t, <3>2, Rows
      <4>5. \A p \in ops : Claiming(p) => p.a[1] # j
        BY <4>4 DEF RunnerInv, ClaimIsLast
      <4>6. o.result \notin {"none", "awaiting_approval", "queued"}
        BY <4>3 DEF Results
      <4>7. o.result = "succeeded" => /\ job[j].current # 0
                                      /\ attempt[<<j, job[j].current>>].status = "succeeded"
        BY <4>3, <4>4
      <4> HIDE DEF j
      <4> QED  BY <3>1, <4>2, <4>5, <4>6, <4>7, JobStep
    <3>3. CASE ~(job[j].status = "running" /\ job[j].current = o.a[2])
      <4>1. job' = job
        BY <2>7, <3>3 DEF SettleJob, JobOf
      <4> QED  BY <3>1, <4>1, QuietStep DEF SameJobs, SameAttempts
    <3> QED  BY <3>2, <3>3
  <2>8. CASE CancelAttempt(o)
    <3>1. job' = job /\ ops' \subseteq ops
      BY <2>8 DEF CancelAttempt, Done
    <3>2. CASE attempt[o.a].status = "running"
      <4>1. attempt' = [attempt EXCEPT ![o.a].status = "cancelled"]
        BY <2>8, <3>2 DEF CancelAttempt, SetAttempt
      <4>2. /\ attempt'[o.a].status = "cancelled"
            /\ \A b \in Attempts : b # o.a => attempt'[b].status = attempt[b].status
        BY <1>t, <4>1 DEF TypeOK
      <4> QED  BY <1>t, <3>1, <3>2, <4>2, EndStep DEF SameJobs
    <3>3. CASE attempt[o.a].status # "running"
      BY <2>8, <3>1, <3>3, QuietStep DEF CancelAttempt, SameJobs, SameAttempts, NoNewStage
    <3> QED  BY <3>2, <3>3
  <2>9. CASE MarkLost(o)
    <3>1. job' = job /\ o \in LoseOps
      BY <1>t, <2>9, OpKinds DEF MarkLost
    <3>2. CASE attempt[o.a].status = "running"
      <4>1. /\ attempt' = [attempt EXCEPT ![o.a].status = "lost"]
            /\ ops' = (ops \ {o}) \cup {[o EXCEPT !.stage = "job"]}
        BY <2>9, <3>2 DEF MarkLost, SetAttempt, Proceed
      <4>2. \A p \in ops' : p \in ops \/ (p.kind = "lose" /\ p.a = o.a)
        BY <3>1, <4>1 DEF LoseOps
      <4>3. /\ attempt'[o.a].status = "lost"
            /\ \A b \in Attempts : b # o.a => attempt'[b].status = attempt[b].status
        BY <1>t, <4>1 DEF TypeOK
      <4> QED  BY <1>t, <3>1, <3>2, <4>2, <4>3, EndStep DEF SameJobs
    <3>3. CASE attempt[o.a].status # "running"
      BY <2>9, <3>3, QuietStep DEF MarkLost, Done, SameJobs, SameAttempts, NoNewStage
    <3> QED  BY <3>2, <3>3
  <2>10. CASE Requeue(o)
    <3> DEFINE j == o.a[1]
    <3>1. j \in Jobs /\ attempt' = attempt /\ NoNewStage /\ attempt[o.a].status = "lost"
      BY <1>t, <2>10 DEF Requeue, Done, NoNewStage, RunnerInv, LostFirst
    <3>2. CASE job[j].status = "running" /\ job[j].current = o.a[2]
      <4>1. o.a[2] # 0 /\ job[j].attempts = o.a[2] /\ o.a = <<j, job[j].attempts>>
        <5>1. o.a = <<j, o.a[2]>> /\ o.a[2] # 0
          BY <1>t, Rows
        <5> QED  BY <3>1, <3>2, <5>1 DEF RunnerInv, CurrentIsLast
      <4>2. \A p \in ops : Claiming(p) => p.a[1] # j
        BY <3>2, <4>1 DEF RunnerInv, ClaimIsLast
      <4>3. CASE job[j].attempts < MaxAttempts
        <5>1. job' = [job EXCEPT ![j].status = "queued", ![j].current = 0]
          BY <2>10, <3>2, <4>3 DEF Requeue, JobOf
        <5>2. /\ job'[j].status = "queued" /\ job'[j].current = 0
              /\ \A k \in Jobs : (k # j => job'[k] = job[k]) /\ job'[k].attempts = job[k].attempts
          BY <3>1, <5>1 DEF TypeOK
        <5>3. \A a \in Attempts : a[1] = j /\ a[2] = job[j].attempts =>
                 attempt[a].status \notin {"running"} \cup Results
          <6>1. \A a \in Attempts : a = <<a[1], a[2]>>
            BY Rows
          <6> QED  BY <3>1, <4>1, <6>1 DEF Results
        <5> HIDE DEF j
        <5> QED  BY <3>1, <4>2, <4>3, <5>2, <5>3, JobStep
      <4>4. CASE ~(job[j].attempts < MaxAttempts)
        <5>1. job' = [job EXCEPT ![j].status = "failed"]
          BY <2>10, <3>2, <4>4 DEF Requeue, JobOf
        <5>2. /\ job'[j].status = "failed" /\ job'[j].current = job[j].current
              /\ \A k \in Jobs : (k # j => job'[k] = job[k]) /\ job'[k].attempts = job[k].attempts
          BY <3>1, <5>1 DEF TypeOK
        <5> HIDE DEF j
        <5> QED  BY <3>1, <4>2, <5>2, JobStep
      <4> QED  BY <4>3, <4>4
    <3>3. CASE ~(job[j].status = "running" /\ job[j].current = o.a[2])
      <4>1. job' = job
        BY <2>10, <3>3 DEF Requeue, JobOf
      <4> QED  BY <3>1, <4>1, QuietStep DEF SameJobs, SameAttempts
    <3> QED  BY <3>2, <3>3
  <2> QED  BY <1>7, <2>1, <2>2, <2>3, <2>4, <2>5, <2>6, <2>7, <2>8, <2>9, <2>10 DEF Handler
<1>8. ASSUME NEW a \in Attempts, Runner(a) \/ FetchFails(a) \/ Sweep(a) PROVE RunnerInv'
  <2>1. job' = job /\ attempt' = attempt
    BY <1>8 DEF Runner, Fetch, ScriptEnds, Report, FetchFails, Sweep
  <2>2. NoNewStage
    BY <1>8 DEF Runner, Fetch, ScriptEnds, Report, FetchFails, Sweep, NoNewStage, Claiming,
                SecondStage
  <2> QED  BY <2>1, <2>2, QuietStep DEF SameJobs, SameAttempts
<1>9. ASSUME NEW a \in Attempts, Heartbeat(a) \/ Lapse(a) PROVE RunnerInv'
  <2>1. job' = job /\ ops' = ops
    BY <1>9 DEF Heartbeat, Lapse
  <2>2. SameAttempts
    <3>1. \E l \in {"live", "lapsed"} : attempt' = [attempt EXCEPT ![a].lease = l] \/ attempt' = attempt
      BY <1>9 DEF Heartbeat, Lapse
    <3> QED  BY <3>1 DEF SameAttempts, TypeOK
  <2> QED  BY <2>1, <2>2, QuietStep DEF SameJobs, NoNewStage
<1>10. CASE PanelCrash
  <2>1. SameAttempts
    BY <1>10 DEF PanelCrash, SameAttempts, TypeOK
  <2> QED  BY <1>10, <2>1, QuietStep DEF PanelCrash, SameJobs, NoNewStage
<1>11. CASE HeadMoves
  BY <1>11, QuietStep DEF HeadMoves, SameJobs, SameAttempts, NoNewStage
<1> QED
  BY <1>2, <1>3, <1>4, <1>5, <1>6, <1>7, <1>8, <1>9, <1>10, <1>11 DEF Next

LEMMA InitRunner == Init => RunnerInv
<1> SUFFICES ASSUME Init PROVE RunnerInv
  OBVIOUS
<1>1. /\ \A j \in Jobs : job[j] = [status |-> "none", attempts |-> 0, current |-> 0, sha |-> NoCommit]
      /\ \A a \in Attempts : attempt[a].status = "none"
      /\ ops = {}
  BY DEF Init
<1>2. Counted /\ ResultIsLast
  BY <1>1 DEF Counted, ResultIsLast, Results
<1>3. CurrentIsLast /\ TriesLeft /\ SuccessIsCurrent
  BY <1>1 DEF CurrentIsLast, TriesLeft, SuccessIsCurrent
<1>4. ClaimIsLast /\ OneClaim /\ LostFirst /\ ClosedFirst
  BY <1>1 DEF ClaimIsLast, OneClaim, LostFirst, ClosedFirst
<1> QED
  BY <1>2, <1>3, <1>4 DEF RunnerInv

\* The inductive invariant: what claimJob, finishAttempt, loseAttempt and
\* cancelJob leave behind after each of their statements, in any order.
THEOREM RunnerInvariant == Spec => [](TypeOK /\ RunnerInv)
<1>1. Init => TypeOK /\ RunnerInv
  BY InitType, InitRunner
<1>2. TypeOK /\ RunnerInv /\ [Next]_vars => (TypeOK /\ RunnerInv)'
  BY StepType, StepRunner DEF RunnerInv
<1> QED
  BY <1>1, <1>2, PTL DEF Spec

\* Type correctness: in particular no claim ever counts past maxAttempts, and
\* every handler under way names an attempt its job has.
THEOREM TypeCorrect == Spec => []TypeOK
BY RunnerInvariant, PTL

LEMMA ResultIsOne == ASSUME TypeOK, RunnerInv PROVE OneResult
<1>1. ASSUME NEW a \in Attempts, NEW b \in Attempts,
             a[1] = b[1], a[2] < b[2], attempt[a].status \in Results
      PROVE  attempt[b].status = "none"
  <2>1. a[2] = Last(b)
    BY <1>1 DEF RunnerInv, ResultIsLast, Last
  <2>2. ~(b[2] <= Last(b))
    BY <1>1, <2>1, Rows
  <2> QED  BY <2>2 DEF RunnerInv, Counted
<1>2. ASSUME NEW j \in Jobs
      PROVE  Cardinality({a \in Attempts : a[1] = j /\ attempt[a].status = "running"}) <= 1
  <2> DEFINE R == {a \in Attempts : a[1] = j /\ attempt[a].status = "running"}
             one == <<j, job[j].attempts>>
  <2>1. R \subseteq {one}
    BY Rows DEF RunnerInv, ResultIsLast, Last
  <2>2. IsFiniteSet({one}) /\ Cardinality({one}) = 1
    BY FS_Singleton
  <2> HIDE DEF one, R
  <2>3. Cardinality(R) <= 1
    BY <2>1, <2>2, FS_Subset
  <2> QED  BY <2>3 DEF R
<1> QED
  BY <1>1, <1>2 DEF OneResult, RunnerInv, SuccessIsCurrent

\* "A job can't be counted as succeeded twice", for any number of jobs, runners
\* and attempts, whatever crashes, lapses, revocations and cancels come between
\* the statements of the handlers: nothing follows an attempt with a result, and
\* two attempts of a job never run at once.
THEOREM OneResultHolds == Spec => []OneResult
<1>1. TypeOK /\ RunnerInv => OneResult
  BY ResultIsOne
<1> QED
  BY <1>1, RunnerInvariant, PTL

-----------------------------------------------------------------------------
(* CiRunner implements CiJobLife                                           *)

Life == [j \in Jobs |-> job[j].status]
Tries == [j \in Jobs |-> job[j].attempts]

\* One job goes to another status; the others stay where they are.
LEMMA LifeStep ==
    ASSUME NEW j \in Jobs, \A k \in Jobs : k # j => job'[k] = job[k]
    PROVE  /\ Life' = [Life EXCEPT ![j] = job'[j].status]
           /\ job'[j].attempts = job[j].attempts => Tries' = Tries
           /\ job'[j].attempts = job[j].attempts + 1 => Tries' = [Tries EXCEPT ![j] = @ + 1]
           /\ Life[j] = job[j].status /\ Tries[j] = job[j].attempts
BY DEF Life, Tries

LEMMA RefineStep ==
    ASSUME TypeOK, RunnerInv, [Next]_vars
    PROVE  [JobLife!Next]_<<Life, Tries>>
<1> USE DEF JobLife!Becomes, JobOf
<1> DEFINE Goal == JobLife!Next \/ UNCHANGED <<Life, Tries>>
<1>0. SUFFICES Goal
  OBVIOUS
<1>s. ASSUME job' = job PROVE Goal
  BY <1>s DEF Life, Tries
<1>1. CASE UNCHANGED vars
  BY <1>1, <1>s DEF vars
<1>2. ASSUME NEW j \in Jobs, Submit(j) PROVE Goal
  <2>1. /\ job[j].status = "none" /\ job'[j].status \in {"awaiting_approval", "queued"}
        /\ job'[j].attempts = job[j].attempts /\ \A k \in Jobs : k # j => job'[k] = job[k]
    BY <1>2 DEF Submit, TypeOK
  <2>2. JobLife!Submit(j)
    BY <2>1, LifeStep DEF JobLife!Submit, Life, Tries
  <2> QED  BY <2>2 DEF JobLife!Next
<1>3. ASSUME NEW j \in Jobs, Approve(j) PROVE Goal
  <2>1. /\ job[j].status = "awaiting_approval" /\ job'[j].status = "queued"
        /\ job'[j].attempts = job[j].attempts /\ \A k \in Jobs : k # j => job'[k] = job[k]
    BY <1>3 DEF Approve, TypeOK
  <2>2. JobLife!Approve(j)
    BY <2>1, LifeStep DEF JobLife!Approve, Life, Tries
  <2> QED  BY <2>2 DEF JobLife!Next
<1>4. ASSUME NEW j \in Jobs, Cancel(j) PROVE Goal
  <2>1. /\ job[j].status \in JobLife!Live /\ job'[j].status = "cancelled"
        /\ job'[j].attempts = job[j].attempts /\ \A k \in Jobs : k # j => job'[k] = job[k]
    BY <1>4 DEF Cancel, TypeOK, Live, JobLife!Live
  <2>2. JobLife!Cancel(j)
    BY <2>1, LifeStep DEF JobLife!Cancel, Life, Tries
  <2> QED  BY <2>2 DEF JobLife!Next
<1>5. ASSUME NEW r \in Runners, Claim(r) PROVE Goal
  <2>1. PICK j \in Jobs :
          /\ job[j].status = "queued"
          /\ job' = [job EXCEPT ![j].status = "running", ![j].attempts = @ + 1]
    BY <1>5 DEF Claim
  <2>2. /\ job[j].attempts < MaxAttempts /\ job'[j].status = "running"
        /\ job'[j].attempts = job[j].attempts + 1 /\ \A k \in Jobs : k # j => job'[k] = job[k]
    BY <2>1 DEF TypeOK, RunnerInv, TriesLeft
  <2>3. JobLife!Start(j)
    BY <2>1, <2>2, LifeStep DEF JobLife!Start, Life, Tries
  <2> QED  BY <2>3 DEF JobLife!Next
<1>6. ASSUME NEW r \in Runners, Revoke(r) \/ RunnerCrash(r) PROVE Goal
  BY <1>6, <1>s DEF Revoke, RunnerCrash
<1>7. ASSUME NEW o \in ops, Handler(o) PROVE Goal
  <2> DEFINE j == o.a[1]
  <2>1. j \in Jobs /\ o \in Ops
    BY Rows
  <2>2. CASE InsertAttempt(o) \/ Answer(o) \/ Checkout(o) \/ CloseAttempt(o)
             \/ CancelAttempt(o) \/ MarkLost(o)
    BY <2>2, <1>s DEF InsertAttempt, Answer, Checkout, CloseAttempt, CancelAttempt, MarkLost
  <2>3. CASE LinkAttempt(o) \/ Pin(o)
    <3>1. \A k \in Jobs : job'[k].status = job[k].status /\ job'[k].attempts = job[k].attempts
      <4>1. CASE LinkAttempt(o)
        BY <2>1, <4>1 DEF LinkAttempt, TypeOK
      <4>2. CASE Pin(o)
        BY <2>1, <4>2 DEF Pin, TypeOK
      <4> QED  BY <2>3, <4>1, <4>2
    <3> QED  BY <3>1 DEF Life, Tries
  <2>4. CASE SettleJob(o)
    <3>1. CASE job[j].status = "running" /\ job[j].current = o.a[2]
      <4>1. job' = [job EXCEPT ![j].status = o.result] /\ o.result \in {"succeeded", "failed"}
        BY <2>1, <2>4, <3>1, OpKinds DEF SettleJob, FinishOps, Results
      <4>2. /\ job'[j].status \in {"succeeded", "failed"}
            /\ job'[j].attempts = job[j].attempts /\ \A k \in Jobs : k # j => job'[k] = job[k]
        BY <2>1, <4>1 DEF TypeOK
      <4> HIDE DEF j
      <4>3. JobLife!Finish(j)
        BY <2>1, <3>1, <4>2, LifeStep DEF JobLife!Finish, Life, Tries
      <4> QED  BY <2>1, <4>3 DEF JobLife!Next
    <3>2. CASE ~(job[j].status = "running" /\ job[j].current = o.a[2])
      BY <2>4, <3>2, <1>s DEF SettleJob
    <3> QED  BY <3>1, <3>2
  <2>5. CASE Requeue(o)
    <3>1. CASE /\ job[j].status = "running" /\ job[j].current = o.a[2]
               /\ job[j].attempts < MaxAttempts
      <4>1. job' = [job EXCEPT ![j].status = "queued", ![j].current = 0]
        BY <2>5, <3>1 DEF Requeue
      <4>2. /\ job'[j].status = "queued"
            /\ job'[j].attempts = job[j].attempts /\ \A k \in Jobs : k # j => job'[k] = job[k]
        BY <2>1, <4>1 DEF TypeOK
      <4> HIDE DEF j
      <4>3. JobLife!Retry(j)
        BY <2>1, <3>1, <4>2, LifeStep DEF JobLife!Retry, Life, Tries
      <4> QED  BY <2>1, <4>3 DEF JobLife!Next
    <3>2. CASE /\ job[j].status = "running" /\ job[j].current = o.a[2]
               /\ ~(job[j].attempts < MaxAttempts)
      <4>1. job' = [job EXCEPT ![j].status = "failed"]
        BY <2>5, <3>2 DEF Requeue
      <4>2. /\ job'[j].status = "failed"
            /\ job'[j].attempts = job[j].attempts /\ \A k \in Jobs : k # j => job'[k] = job[k]
        BY <2>1, <4>1 DEF TypeOK
      <4> HIDE DEF j
      <4>3. JobLife!Finish(j)
        BY <2>1, <3>2, <4>2, LifeStep DEF JobLife!Finish, Life, Tries
      <4> QED  BY <2>1, <4>3 DEF JobLife!Next
    <3>3. CASE ~(job[j].status = "running" /\ job[j].current = o.a[2])
      BY <2>5, <3>3, <1>s DEF Requeue
    <3> QED  BY <3>1, <3>2, <3>3
  <2> QED  BY <1>7, <2>2, <2>3, <2>4, <2>5 DEF Handler
<1>8. ASSUME NEW a \in Attempts,
             Runner(a) \/ FetchFails(a) \/ Heartbeat(a) \/ Lapse(a) \/ Sweep(a)
      PROVE  Goal
  BY <1>8, <1>s DEF Runner, Fetch, ScriptEnds, Report, FetchFails, Heartbeat, Lapse, Sweep
<1>9. CASE PanelCrash \/ HeadMoves
  BY <1>9, <1>s DEF PanelCrash, HeadMoves
<1> HIDE DEF Goal
<1> QED
  BY <1>1, <1>2, <1>3, <1>4, <1>5, <1>6, <1>7, <1>8, <1>9 DEF Next

\* Refinement: every statement of every handler is a step of the life of a job
\* that its callers know, or invisible to them.
THEOREM RefinesJobLife == Spec => ImplementsJobLife
<1>1. Init => JobLife!Init
  BY DEF Init, JobLife!Init
<1>2. TypeOK /\ RunnerInv /\ [Next]_vars => [JobLife!Next]_<<Life, Tries>>
  BY RefineStep
<1> QED
  BY <1>1, <1>2, RunnerInvariant, PTL DEF Spec, ImplementsJobLife, JobLife!Spec, Life, Tries

-----------------------------------------------------------------------------
(* A running job is looked after                                           *)

Tidy == RunningTended /\ LinkedRuns /\ CancelIsLate

\* A step that changes no status and no current attempt, and drops no handler
\* that looks after a job.
LEMMA QuietTend ==
    ASSUME TypeOK, Tidy, SameJobs, SameAttempts,
           \A o \in ops : Claiming(o) \/ SecondStage(o) => o \in ops',
           \A o \in ops' : o \in ops \/ ~(o.kind = "claim" \/ o.kind = "cancel")
    PROVE  Tidy'
<1> USE DEF SameJobs, SameAttempts
<1>1. /\ \A j \in Jobs : job[j].current \in 0..MaxAttempts
      /\ \A a \in Attempts : a[1] \in Jobs
      /\ \A o \in ops : o.a \in Attempts
      /\ \A j \in Jobs, n \in 1..MaxAttempts : <<j, n>> \in Attempts
  BY Rows
<1>2. \A j \in Jobs : job[j].current # 0 => <<j, job[j].current>> \in Attempts
  BY <1>1, CiAssumption
<1>3. RunningTended'
  BY <1>2, ZenonT(40) DEF Tidy, RunningTended, Tended
<1>4. LinkedRuns' /\ CancelIsLate'
  BY <1>1 DEF Tidy, LinkedRuns, CancelIsLate
<1> QED
  BY <1>3, <1>4 DEF Tidy

\* The status of one job changes and nothing else; it does not run then.
LEMMA JobTend ==
    ASSUME TypeOK, Tidy, attempt' = attempt, NEW j \in Jobs,
           \A k \in Jobs : k # j => job'[k] = job[k],
           job'[j].status # "running",
           \A o \in ops : o.a[1] # j => o \in ops',
           \/ job[j].status # "cancelled" /\ ops' \subseteq ops
           \/ /\ job'[j].status = "cancelled"
              /\ \A o \in ops' : o \in ops \/ (o.kind = "cancel" /\ o.a[1] = j)
    PROVE  Tidy'
<1>1. \A o \in ops : o.a[1] \in Jobs
  BY Rows
<1>2. RunningTended'
  <2> SUFFICES ASSUME NEW k \in Jobs, k # j, Tended(k) PROVE Tended(k)'
    BY DEF Tidy, RunningTended
  <2> QED  BY DEF Tended
<1>3. LinkedRuns' /\ CancelIsLate'
  BY <1>1 DEF Tidy, LinkedRuns, CancelIsLate
<1> QED
  BY <1>2, <1>3 DEF Tidy

\* A running attempt ends, outside a claim: its handler goes on with the job, or
\* the job was cancelled.
LEMMA EndTend ==
    ASSUME TypeOK, Tidy, job' = job, NEW a \in Attempts,
           \A b \in Attempts : b # a => attempt'[b].status = attempt[b].status,
           \A o \in ops : o.kind # "claim",
           \A o \in ops : SecondStage(o) => o \in ops',
           \/ \E o \in ops' : SecondStage(o) /\ o.a = a
           \/ job[a[1]].status = "cancelled",
           \A o \in ops' : o \in ops \/ SecondStage(o)
    PROVE  Tidy'
<1>1. /\ \A j \in Jobs : job[j].current \in 0..MaxAttempts
      /\ \A b \in Attempts : b[1] \in Jobs
      /\ \A j \in Jobs, n \in 1..MaxAttempts : <<j, n>> \in Attempts
  BY Rows
<1>2. \A o \in ops' : o.kind # "claim" /\ (o.kind = "cancel" => o \in ops)
  BY DEF SecondStage
<1>3. RunningTended'
  <2> SUFFICES ASSUME NEW j \in Jobs, job[j].status = "running", Tended(j) PROVE Tended(j)'
    BY DEF Tidy, RunningTended
  <2>1. job[j].current # 0 /\ <<j, job[j].current>> \in Attempts
    <3>1. job[j].current # 0
      BY DEF Tended, Claiming
    <3> QED  BY <1>1, <3>1, CiAssumption
  <2>2. CASE a = <<j, job[j].current>>
    <3>1. a[1] = j
      BY <2>2
    <3> QED  BY <2>1, <2>2, <3>1 DEF Tended
  <2>3. CASE a # <<j, job[j].current>>
    BY <2>1, <2>3 DEF Tended, Claiming
  <2> QED  BY <2>2, <2>3
<1>4. LinkedRuns' /\ CancelIsLate'
  BY <1>2 DEF Tidy, LinkedRuns, CancelIsLate
<1> QED
  BY <1>3, <1>4 DEF Tidy

LEMMA StepTend ==
    ASSUME TypeOK, RunnerInv, Tidy, ~suspends, Next, ~PanelCrash
    PROVE  Tidy'
<1>1. /\ \A a \in Attempts : a[1] \in Jobs /\ a = <<a[1], a[2]>>
      /\ \A o \in ops : o \in Ops /\ o.a \in Attempts
  BY Rows
<1>2. ASSUME NEW j \in Jobs, Submit(j) \/ Approve(j) PROVE Tidy'
  <2>1. attempt' = attempt /\ ops' = ops
    BY <1>2 DEF Submit, Approve
  <2>2. /\ job'[j].status \in {"awaiting_approval", "queued"}
        /\ job[j].status \in {"none", "awaiting_approval"}
        /\ \A k \in Jobs : k # j => job'[k] = job[k]
    <3>1. CASE Submit(j)
      BY <3>1 DEF Submit, TypeOK
    <3>2. CASE Approve(j)
      BY <3>2 DEF Approve, TypeOK
    <3> QED  BY <1>2, <3>1, <3>2
  <2>3. job'[j].status # "running" /\ job[j].status # "cancelled" /\ ops' \subseteq ops
    BY <2>1, <2>2
  <2> QED  BY <2>1, <2>2, <2>3, JobTend
<1>3. ASSUME NEW j \in Jobs, Cancel(j) PROVE Tidy'
  <2>1. attempt' = attempt /\ ops \subseteq ops'
    BY <1>3 DEF Cancel
  <2>2. job'[j].status = "cancelled" /\ \A k \in Jobs : k # j => job'[k] = job[k]
    BY <1>3 DEF Cancel, TypeOK
  <2>3. ASSUME NEW o \in ops', o \notin ops PROVE o.kind = "cancel" /\ o.a[1] = j
    <3>1. PICK n \in {job[j].current} \ {0} :
            o = [kind |-> "cancel", stage |-> "attempt", a |-> <<j, n>>]
      BY <1>3, <2>3 DEF Cancel
    <3> QED  BY <3>1
  <2>4. \A o \in ops' : o \in ops \/ (o.kind = "cancel" /\ o.a[1] = j)
    BY <2>3
  <2>5. job'[j].status # "running" /\ \A o \in ops : o.a[1] # j => o \in ops'
    BY <2>1, <2>2
  <2> QED  BY <2>1, <2>2, <2>4, <2>5, JobTend
<1>4. ASSUME NEW r \in Runners, Claim(r) PROVE Tidy'
  <2>1. PICK j \in Jobs :
          /\ job[j].status = "queued"
          /\ job' = [job EXCEPT ![j].status = "running", ![j].attempts = @ + 1]
          /\ ops' = ops \cup {[kind |-> "claim", stage |-> "insert",
                               a |-> <<j, job[j].attempts + 1>>, r |-> r]}
    BY <1>4 DEF Claim
  <2> DEFINE new == [kind |-> "claim", stage |-> "insert", a |-> <<j, job[j].attempts + 1>>, r |-> r]
  <2>2. new.kind = "claim" /\ new.stage = "insert" /\ new.a[1] = j /\ ops' = ops \cup {new}
    BY <2>1
  <2>3. /\ attempt' = attempt /\ \A k \in Jobs : k # j => job'[k] = job[k]
    BY <1>4, <2>1 DEF Claim, TypeOK
  <2> HIDE DEF new
  <2>4. RunningTended'
    <3>1. Tended(j)'
      BY <2>2 DEF Tended, Claiming
    <3>2. ASSUME NEW k \in Jobs, k # j, Tended(k) PROVE Tended(k)'
      BY <2>2, <2>3, <3>2 DEF Tended
    <3> QED  BY <2>3, <3>1, <3>2 DEF Tidy, RunningTended
  <2>5. LinkedRuns' /\ CancelIsLate'
    BY <1>1, <2>1, <2>2, <2>3 DEF Tidy, LinkedRuns, CancelIsLate
  <2> QED  BY <2>4, <2>5 DEF Tidy
<1>5. ASSUME NEW r \in Runners, Revoke(r) \/ RunnerCrash(r) PROVE Tidy'
  <2>1. job' = job /\ attempt' = attempt /\ ops \subseteq ops'
    BY <1>5 DEF Revoke, RunnerCrash
  <2>2. \A o \in ops' : o \in ops \/ o.kind = "lose"
    BY <1>5 DEF Revoke, RunnerCrash
  <2> QED  BY <2>1, <2>2, QuietTend DEF SameJobs, SameAttempts
<1>6. ASSUME NEW o \in ops, Handler(o) PROVE Tidy'
  <2>1. CASE InsertAttempt(o)
    <3> DEFINE new == [o EXCEPT !.stage = "link"]
               j == o.a[1]
    <3>1. o \in ClaimOps /\ Claiming(o) /\ o.a \in Attempts /\ j \in Jobs
      BY <1>1, <2>1, OpKinds DEF InsertAttempt, Claiming
    <3>2. new.kind = "claim" /\ new.stage = "link" /\ new.a = o.a
      BY <3>1 DEF ClaimOps
    <3>3. job' = job /\ ops' = (ops \ {o}) \cup {new}
      BY <2>1 DEF InsertAttempt, Proceed
    <3>4. /\ attempt'[o.a].status = "running"
          /\ \A a \in Attempts : a # o.a => attempt'[a] = attempt[a]
      BY <2>1, <3>1 DEF InsertAttempt, TypeOK
    <3>5. Tended(j)'
      BY <3>2, <3>3 DEF Tended, Claiming
    <3>6. ASSUME NEW k \in Jobs, k # j, Tended(k) PROVE Tended(k)'
      <4>1. job[k].current # 0 => <<k, job[k].current>> \in Attempts /\ <<k, job[k].current>> # o.a
        <5>1. job[k].current \in 0..MaxAttempts
          BY Rows
        <5>2. job[k].current # 0 => job[k].current \in 1..MaxAttempts
          BY <5>1, CiAssumption
        <5> QED  BY <3>6, <5>2 DEF Attempts
      <4>2. \A p \in ops : p # o => p \in ops'
        BY <3>3
      <4>3. ~SecondStage(o)
        BY <3>1 DEF SecondStage, ClaimOps
      <4> HIDE DEF new
      <4> QED  BY <3>3, <3>4, <3>6, <4>1, <4>2, <4>3 DEF Tended
    <3> HIDE DEF new, j
    <3>7. RunningTended'
      BY <3>1, <3>3, <3>5, <3>6 DEF Tidy, RunningTended
    <3>8. LinkedRuns' /\ CancelIsLate'
      BY <1>1, <3>2, <3>3, <3>4 DEF Tidy, LinkedRuns, CancelIsLate
    <3> QED  BY <3>7, <3>8 DEF Tidy
  <2>2. CASE LinkAttempt(o)
    <3> DEFINE new == [o EXCEPT !.stage = "answer"]
               j == o.a[1]
    <3>1. o \in ClaimOps /\ Claiming(o) /\ o.a \in Attempts /\ j \in Jobs
          /\ o.kind = "claim" /\ o.stage = "link"
      BY <1>1, <2>2, OpKinds DEF LinkAttempt, Claiming
    <3>2. new.kind = "claim" /\ new.stage = "answer" /\ new.a = o.a
      BY <3>1 DEF ClaimOps
    <3>3. attempt' = attempt /\ ops' = (ops \ {o}) \cup {new}
      BY <2>2 DEF LinkAttempt, Proceed
    <3>4. /\ job'[j].status = job[j].status /\ job'[j].current = o.a[2]
          /\ \A k \in Jobs : k # j => job'[k] = job[k]
      BY <2>2, <3>1 DEF LinkAttempt, JobOf, TypeOK
    <3>5. Tended(j)'
      <4>1. o.a[2] # 0 /\ o.a = <<j, o.a[2]>> /\ attempt[o.a].status = "running"
        BY <3>1, Rows DEF Tidy, LinkedRuns
      <4> QED  BY <3>3, <3>4, <4>1 DEF Tended
    <3>6. ASSUME NEW k \in Jobs, k # j, Tended(k) PROVE Tended(k)'
      <4>1. ~SecondStage(o) /\ \A p \in ops : p # o => p \in ops'
        BY <3>1, <3>3 DEF SecondStage
      <4> HIDE DEF new
      <4> QED  BY <3>3, <3>4, <3>6, <4>1 DEF Tended
    <3> HIDE DEF new, j
    <3>7. RunningTended'
      BY <3>1, <3>4, <3>5, <3>6 DEF Tidy, RunningTended
    <3>8. LinkedRuns'
      BY <3>2, <3>3 DEF Tidy, LinkedRuns
    <3>9. CancelIsLate'
      BY <1>1, <3>2, <3>3, <3>4 DEF Tidy, CancelIsLate
    <3> QED  BY <3>7, <3>8, <3>9 DEF Tidy
  <2>3. CASE Answer(o)
    <3>1. \A p \in ops : Claiming(p) \/ SecondStage(p) => p # o
      BY <2>3 DEF Answer, Claiming, SecondStage
    <3> QED  BY <2>3, <3>1, QuietTend DEF Answer, Done, SameJobs, SameAttempts
  <2>4. CASE Checkout(o)
    <3>1. o \in FetchOps
      BY <1>1, <2>4, OpKinds DEF Checkout
    <3>2. \A p \in ops : Claiming(p) \/ SecondStage(p) => p \in ops'
      BY <2>4 DEF Checkout, Claiming, SecondStage
    <3>3. \A p \in ops' : p \in ops \/ p.kind = "fetch"
      BY <2>4, <3>1 DEF Checkout, FetchOps
    <3> QED  BY <2>4, <3>2, <3>3, QuietTend DEF Checkout, SameJobs, SameAttempts
  <2>5. CASE Pin(o)
    <3>1. SameJobs
      BY <1>1, <2>5 DEF Pin, JobOf, SameJobs, TypeOK
    <3>2. \A p \in ops : Claiming(p) \/ SecondStage(p) => p \in ops'
      BY <2>5 DEF Pin, Done, Claiming, SecondStage
    <3> QED  BY <2>5, <3>1, <3>2, QuietTend DEF Pin, Done, SameAttempts
  <2>6. CASE CloseAttempt(o)
    <3>1. job' = job /\ o.kind = "finish" /\ o.stage = "close" /\ o \in FinishOps
      BY <1>1, <2>6, OpKinds DEF CloseAttempt
    <3>2. \A p \in ops : p.kind # "claim"
      BY <2>6, <3>1 DEF CloseAttempt, MayRun
    <3>3. CASE attempt[o.a].status = "running"
      <4> DEFINE new == [o EXCEPT !.stage = "settle"]
      <4>1. SecondStage(new) /\ new.a = o.a
        BY <3>1 DEF FinishOps, SecondStage
      <4>2. ops' = (ops \ {o}) \cup {new} /\ ~SecondStage(o)
        BY <2>6, <3>1, <3>3 DEF CloseAttempt, Proceed, SecondStage
      <4>3. \A b \in Attempts : b # o.a => attempt'[b].status = attempt[b].status
        BY <1>1, <2>6, <3>3 DEF CloseAttempt, SetAttempt, TypeOK
      <4> HIDE DEF new
      <4> QED  BY <1>1, <3>1, <3>2, <4>1, <4>2, <4>3, EndTend
    <3>4. CASE attempt[o.a].status # "running"
      <4>1. attempt' = attempt /\ ops' = ops \ {o} /\ ~Claiming(o) /\ ~SecondStage(o)
        BY <2>6, <3>1, <3>4 DEF CloseAttempt, Done, Claiming, SecondStage
      <4> QED  BY <3>1, <4>1, QuietTend DEF SameJobs, SameAttempts
    <3> QED  BY <3>3, <3>4
  <2>7. CASE MarkLost(o)
    <3>1. job' = job /\ o.kind = "lose" /\ o.stage = "mark" /\ o \in LoseOps
      BY <1>1, <2>7, OpKinds DEF MarkLost
    <3>2. \A p \in ops : p.kind # "claim"
      BY <2>7, <3>1 DEF MarkLost, MayRun
    <3>3. CASE attempt[o.a].status = "running"
      <4> DEFINE new == [o EXCEPT !.stage = "job"]
      <4>1. SecondStage(new) /\ new.a = o.a
        BY <3>1 DEF LoseOps, SecondStage
      <4>2. ops' = (ops \ {o}) \cup {new} /\ ~SecondStage(o)
        BY <2>7, <3>1, <3>3 DEF MarkLost, Proceed, SecondStage
      <4>3. \A b \in Attempts : b # o.a => attempt'[b].status = attempt[b].status
        BY <1>1, <2>7, <3>3 DEF MarkLost, SetAttempt, TypeOK
      <4> HIDE DEF new
      <4> QED  BY <1>1, <3>1, <3>2, <4>1, <4>2, <4>3, EndTend
    <3>4. CASE attempt[o.a].status # "running"
      <4>1. attempt' = attempt /\ ops' = ops \ {o} /\ ~Claiming(o) /\ ~SecondStage(o)
        BY <2>7, <3>1, <3>4 DEF MarkLost, Done, Claiming, SecondStage
      <4> QED  BY <3>1, <4>1, QuietTend DEF SameJobs, SameAttempts
    <3> QED  BY <3>3, <3>4
  <2>8. CASE CancelAttempt(o)
    <3>1. /\ job' = job /\ o.kind = "cancel" /\ ops' = ops \ {o} /\ ~SecondStage(o)
          /\ job[o.a[1]].status = "cancelled"
      BY <2>8 DEF CancelAttempt, Done, SecondStage, Tidy, CancelIsLate
    <3>2. \A p \in ops : p.kind # "claim"
      BY <2>8, <3>1 DEF CancelAttempt, MayRun
    <3>3. \A b \in Attempts : b # o.a => attempt'[b].status = attempt[b].status
      BY <1>1, <2>8 DEF CancelAttempt, SetAttempt, TypeOK
    <3> QED  BY <1>1, <3>1, <3>2, <3>3, EndTend
  <2>9. CASE SettleJob(o) \/ Requeue(o)
    <3> DEFINE j == o.a[1]
    <3>1. /\ j \in Jobs /\ attempt' = attempt /\ ops' = ops \ {o} /\ o.kind # "claim"
          /\ o.a = <<j, o.a[2]>>
      BY <1>1, <2>9 DEF SettleJob, Requeue, Done
    <3>2. CASE job[j].status = "running" /\ job[j].current = o.a[2]
      <4>1. job'[j].status # "running" /\ \A k \in Jobs : k # j => job'[k] = job[k]
        <5>1. CASE SettleJob(o)
          <6>1. job' = [job EXCEPT ![j].status = o.result] /\ o.result \in Results
            BY <1>1, <3>2, <5>1, OpKinds DEF SettleJob, JobOf, FinishOps
          <6> QED  BY <3>1, <6>1 DEF TypeOK, Results
        <5>2. CASE Requeue(o)
          <6>1. \/ job' = [job EXCEPT ![j].status = "queued", ![j].current = 0]
                \/ job' = [job EXCEPT ![j].status = "failed"]
            BY <3>2, <5>2 DEF Requeue, JobOf
          <6> QED  BY <3>1, <6>1 DEF TypeOK
        <5> QED  BY <2>9, <5>1, <5>2
      <4>2. /\ job[j].status # "cancelled"
            /\ \A p \in ops : p.a[1] # j => p \in ops'
            /\ ops' \subseteq ops
        BY <3>1, <3>2
      <4> HIDE DEF j
      <4> QED  BY <3>1, <4>1, <4>2, JobTend
    <3>3. CASE ~(job[j].status = "running" /\ job[j].current = o.a[2])
      <4>1. job' = job
        BY <2>9, <3>3 DEF SettleJob, Requeue, JobOf
      <4>2. RunningTended'
        <5> SUFFICES ASSUME NEW k \in Jobs, job[k].status = "running", Tended(k) PROVE Tended(k)'
          BY <4>1 DEF Tidy, RunningTended
        <5>1. o.a # <<k, job[k].current>>
          BY <3>3
        <5> QED  BY <3>1, <4>1, <5>1 DEF Tended, Claiming
      <4>3. LinkedRuns' /\ CancelIsLate'
        BY <3>1, <4>1 DEF Tidy, LinkedRuns, CancelIsLate
      <4> QED  BY <4>2, <4>3 DEF Tidy
    <3> QED  BY <3>2, <3>3
  <2> QED  BY <1>6, <2>1, <2>2, <2>3, <2>4, <2>5, <2>6, <2>7, <2>8, <2>9 DEF Handler
<1>7. ASSUME NEW a \in Attempts, Runner(a) \/ FetchFails(a) \/ Sweep(a) PROVE Tidy'
  <2>1. job' = job /\ attempt' = attempt /\ ops \subseteq ops'
    BY <1>7 DEF Runner, Fetch, ScriptEnds, Report, FetchFails, Sweep
  <2>2. \A o \in ops' : o \in ops \/ o.kind \in {"fetch", "finish", "lose"}
    BY <1>7 DEF Runner, Fetch, ScriptEnds, Report, FetchFails, Sweep
  <2> QED  BY <2>1, <2>2, QuietTend DEF SameJobs, SameAttempts
<1>8. ASSUME NEW a \in Attempts, Heartbeat(a) \/ Lapse(a) PROVE Tidy'
  <2>1. job' = job /\ ops' = ops
    BY <1>8 DEF Heartbeat, Lapse
  <2>2. SameAttempts
    <3>1. \E l \in {"live", "lapsed"} : attempt' = [attempt EXCEPT ![a].lease = l] \/ attempt' = attempt
      BY <1>8 DEF Heartbeat, Lapse
    <3> QED  BY <3>1 DEF SameAttempts, TypeOK
  <2> QED  BY <2>1, <2>2, QuietTend DEF SameJobs
<1>9. CASE HeadMoves
  BY <1>9, QuietTend DEF HeadMoves, SameJobs, SameAttempts
<1> QED
  BY <1>2, <1>3, <1>4, <1>5, <1>6, <1>7, <1>8, <1>9 DEF Next

\* Every handler but a crash of the panel leaves that budget alone.
LEMMA PanelBudget ==
    ASSUME TypeOK, [Next]_vars
    PROVE  \/ ~PanelCrash /\ budget'["panel"] = budget["panel"]
           \/ PanelCrash /\ budget'["panel"] = budget["panel"] - 1
<1> USE DEF TypeOK, Spend
<1> DEFINE Same == budget'["panel"] = budget["panel"]
<1>0. CASE PanelCrash
  BY <1>0 DEF PanelCrash
<1> SUFFICES ASSUME ~PanelCrash PROVE Same
  BY <1>0
<1>1. CASE UNCHANGED vars
  BY <1>1 DEF vars
<1>2. ASSUME NEW j \in Jobs, Submit(j) \/ Approve(j) \/ Cancel(j) PROVE Same
  BY <1>2 DEF Submit, Approve, Cancel
<1>3. ASSUME NEW r \in Runners, Revoke(r) \/ Claim(r) \/ RunnerCrash(r) PROVE Same
  BY <1>3 DEF Revoke, Claim, RunnerCrash
<1>4. ASSUME NEW o \in ops, Handler(o) PROVE Same
  BY <1>4 DEF Handler, InsertAttempt, LinkAttempt, Answer, Checkout, Pin, CloseAttempt,
              SettleJob, CancelAttempt, MarkLost, Requeue
<1>5. ASSUME NEW a \in Attempts,
             Runner(a) \/ FetchFails(a) \/ Heartbeat(a) \/ Lapse(a) \/ Sweep(a)
      PROVE  Same
  BY <1>5 DEF Runner, Fetch, ScriptEnds, Report, FetchFails, Heartbeat, Lapse, Sweep
<1>6. CASE HeadMoves
  BY <1>6 DEF HeadMoves
<1> HIDE DEF Same
<1> QED
  BY <1>1, <1>2, <1>3, <1>4, <1>5, <1>6 DEF Next

LEMMA StepTendInv == ASSUME TypeOK, RunnerInv, TendInv, [Next]_vars PROVE TendInv'
<1>1. budget["panel"] \in Nat /\ MaxPanelCrashes \in Nat /\ budget["panel"] <= MaxPanelCrashes
  BY CiAssumption DEF TypeOK, TendInv
<1>2. budget'["panel"] <= MaxPanelCrashes
  BY <1>1, PanelBudget
<1>3. ASSUME Undisturbed' PROVE Tidy'
  <2>1. ~PanelCrash /\ budget["panel"] = MaxPanelCrashes
    BY <1>1, <1>3, PanelBudget DEF Undisturbed
  <2>2. CASE Next
    <3>1. ~suspends
      BY <1>3, <2>2, Zenon DEF Undisturbed, Next
    <3>2. Tidy
      BY <2>1, <3>1 DEF TendInv, Undisturbed, Tidy
    <3> QED  BY <2>1, <2>2, <3>1, <3>2, StepTend
  <2>3. CASE UNCHANGED vars
    <3>1. ~suspends
      BY <1>3, <2>3 DEF Undisturbed, vars
    <3>2. Tidy
      BY <2>1, <3>1 DEF TendInv, Undisturbed, Tidy
    <3> QED  BY <2>3, <3>2, QuietTend DEF vars, SameJobs, SameAttempts
  <2> QED  BY <2>2, <2>3
<1> QED
  BY <1>2, <1>3 DEF TendInv, Tidy

\* With the shipped driver, and while no handler was cut short by a crash of the
\* panel, a running job has a current attempt the sweep will find or a handler
\* that is about to move it on.
THEOREM RunningIsTendedHolds == Spec => []RunningIsTended
<1>1. Init => TendInv
  <2> SUFFICES ASSUME Init PROVE TendInv
    OBVIOUS
  <2>1. budget["panel"] <= MaxPanelCrashes
    BY CiAssumption DEF Init
  <2>2. RunningTended /\ LinkedRuns /\ CancelIsLate
    BY DEF Init, RunningTended, LinkedRuns, CancelIsLate
  <2> QED  BY <2>1, <2>2 DEF TendInv
<1>2. TypeOK /\ RunnerInv /\ TendInv /\ [Next]_vars => TendInv'
  BY StepTendInv
<1>3. TypeOK /\ TendInv => RunningIsTended
  <2> SUFFICES ASSUME TypeOK, TendInv, ~suspends, budget["panel"] = MaxPanelCrashes,
                      NEW j \in Jobs, job[j].status = "running"
               PROVE  \E a \in Attempts :
                        a[1] = j /\ (IsCurrent(a) \/ a \in InFlight("claim")
                                       \cup InFlight("finish") \cup InFlight("lose"))
    BY DEF RunningIsTended
  <2>1. Tended(j)
    BY DEF TendInv, Undisturbed, RunningTended
  <2>2. \A o \in ops : o.a \in Attempts
    BY Rows
  <2>3. ASSUME NEW o \in ops, Claiming(o), o.a[1] = j
        PROVE  o.a \in InFlight("claim")
    BY <2>3 DEF InFlight, Claiming
  <2>4. ASSUME NEW o \in ops, SecondStage(o)
        PROVE  o.a \in InFlight("finish") \cup InFlight("lose")
    BY <2>4 DEF InFlight, SecondStage
  <2>5. ASSUME job[j].current # 0, attempt[<<j, job[j].current>>].status = "running"
        PROVE  <<j, job[j].current>> \in Attempts /\ IsCurrent(<<j, job[j].current>>)
    <3>1. job[j].current \in 1..MaxAttempts
      BY <2>5, Rows, CiAssumption
    <3> QED  BY <2>5, <3>1 DEF IsCurrent, Attempts
  <2> QED  BY <2>1, <2>2, <2>3, <2>4, <2>5 DEF Tended
<1> QED
  BY <1>1, <1>2, <1>3, RunnerInvariant, PTL DEF Spec
=============================================================================
