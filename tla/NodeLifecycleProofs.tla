------------------------ MODULE NodeLifecycleProofs ------------------------
(***************************************************************************)
(* Proofs about NodeLifecycle for every number of mutations, whatever      *)
(* kinds are asked for, and every number of faults and orphaned docker     *)
(* commands: the types, that a candidate's container is always recorded,   *)
(* and that a completed command is what docker runs.  The argument is the  *)
(* epoch's: once a request of the newest mutation heads the agent's        *)
(* journal, no older one reaches docker, and the newest mutation asks only *)
(* for what its kind and its phase are for.                                *)
(***************************************************************************)
EXTENDS NodeLifecycle, TLAPS

\* No docker command has outlived its agent.
Whole == spent.orphan = 0
Late == {"starting", "warming", "publishing", "completed"}

\* A request, or the journal's head, of the newest mutation.
Mine(x) == epoch > 0 /\ x.rev >= 4 * epoch

\* Every request has an id of its own, and is an orphan's only after one was orphaned.
OneOfId == \A o, q \in ops : o.id = q.id => o = q
Unorphaned == Whole => \A o \in ops : o.at # "orphan"

\* The phases of a kind, and whom a mutation owes.
Phased ==
    /\ kind = "none" <=> epoch = 0
    /\ kind = "none" => phase = "completed"
    /\ kind = "stop" => phase \in {"fencing", "preparing", "routing", "applying", "completed"}
    /\ kind = "start" => phase \in {"preparing", "applying", "readiness", "routing", "completed"}
    /\ kind = "restart" => phase \in {"fencing", "preparing", "routing", "applying"} \cup Late
    /\ kind = "deploy" => phase \in {"begin", "fencing", "preparing", "completed"}
    /\ \A g \in owed : 0 < g /\ g < epoch
    /\ targets \subseteq {0} \cup owed
    /\ kind # "stop" => owed = {}

\* The row of a preparation: from before the first request of a deployment until its
\* recovery, or a stop, is through.
Recorded ==
    /\ prep.gen <= epoch
    /\ deploying => kind = "deploy" /\ prep.gen = IF phase = "begin" THEN 0 ELSE epoch
    /\ kind \in {"none", "start", "restart"} => prep.gen = 0
    /\ kind = "stop" => prep.gen \in {0} \cup owed
    /\ kind = "deploy" => prep.gen \in {0, epoch}
    /\ kind = "deploy" /\ ~deploying => phase = "completed"
    /\ kind = "stop" /\ phase = "completed" => prep.gen = 0

\* What the newest mutation can have asked for by now.
FitsStop(x) ==
    \/ x.op = "fence" /\ x.rev = 4 * epoch
    \/ /\ phase \in {"applying", "completed"} /\ x.rev = 4 * epoch + 1
       /\ \/ x.op = "stop" /\ x.on = targets
          \/ x.op = "drop" /\ x.on = targets \cap owed
FitsStart(x) == x.op = "start" /\ x.rev = 4 * epoch + 1 /\ x.on = {0}
FitsRestart(x) ==
    \/ x.op = "fence" /\ x.rev = 4 * epoch
    \/ x.op = "stop" /\ x.rev = 4 * epoch + 1
    \/ x.op = "start" /\ x.rev = 4 * epoch + 2 /\ x.on = {0} /\ phase \in Late
FitsDeploy(x) ==
    \/ x.op = "fence" /\ x.rev \in {4 * epoch, 4 * epoch + 2}
    \/ x.op = "prepare" /\ x.rev = 4 * epoch + 1 /\ x.on = {epoch}
    \/ x.op = "retire" /\ x.rev = 4 * epoch + 3 /\ x.on = {epoch}
Fits(x) ==
    Mine(x) => /\ kind = "stop" => FitsStop(x)
               /\ kind = "start" => FitsStart(x)
               /\ kind = "restart" => FitsRestart(x)
               /\ kind = "deploy" => FitsDeploy(x)

\* What a request of any mutation may touch.  One that prepares a candidate whose row is
\* gone is behind the journal's head.
Shaped(x) ==
    /\ x.op = "start" => x.on \subseteq {0}
    /\ x.op \in {"fence", "retire", "drop"} => 0 \notin x.on
    /\ x.op = "prepare" => \A g \in x.on : /\ g > 0 /\ x.rev = 4 * g + 1
                                           /\ prep.gen = g \/ head.rev > 4 * g + 1
Requests ==
    /\ \A o \in ops : Fits(o) /\ Shaped(o)
    /\ Fits(head) /\ Shaped(head) /\ head.op # "drop"

\* A request at docker is the head, without its receipt, or a removal under the head's;
\* no other one is.
Busy(o) == o.at \in {"docker", "acted"}
Docked ==
    \A o \in ops : Busy(o) =>
        /\ o.op # "fence"
        /\ o.op = "drop" => Covered(o)
        /\ o.op # "drop" => Heads(o) /\ ~head.receipt
        /\ \A q \in ops : Busy(q) => q = o

\* A receipt says what docker runs.
Receipts ==
    Whole /\ head.receipt =>
        \A g \in head.on : /\ head.op = "retire" => cont[g] = "none"
                           /\ head.op = "start" => cont[g] = "up"
                           /\ head.op = "stop" => cont[g] # "up"

\* The stop, the start of the newest mutation heads the journal, with its receipt.
Stopped == head.rev = 4 * epoch + 1 /\ head.op = "stop" /\ head.receipt
Started == head.rev >= 4 * epoch /\ head.op = "start" /\ head.receipt

\* The requests a phase is for.
Suits(op) ==
    /\ kind # "none"
    /\ kind = "stop" => \/ phase = "fencing" /\ op = "fence"
                        \/ phase = "applying" /\ op \in {"stop", "drop"}
    /\ kind = "start" => phase = "applying" /\ op = "start"
    /\ kind = "restart" => \/ phase = "fencing" /\ op = "fence"
                           \/ phase = "applying" /\ op = "stop"
                           \/ phase = "starting" /\ op = "start"
    /\ deploying => \/ phase = "fencing" /\ op = "fence"
                    \/ phase = "preparing" /\ op = "prepare"
    /\ kind = "deploy" /\ ~deploying =>
          /\ prep.gen = epoch
          /\ \/ prep.at = "fencing" /\ op = "fence"
             \/ prep.at = "retiring" /\ op = "retire"

\* Who waits, waits for the answer its phase needs.
Waiting ==
    /\ pc = "wait" => \A o \in ops : o.id = asked.id => o.op = asked.op /\ o.rev >= 4 * epoch
    /\ pc \in {"wait", "ok"} => Suits(asked.op)
    /\ kind = "deploy" /\ ~deploying /\ pc = "run" =>
          prep.gen = epoch /\ prep.at \in {"fencing", "retiring"}
    /\ pc = "applied" => kind = "stop" /\ phase = "applying" /\ Stopped

\* An answer the owner has not used yet still holds.
Answered ==
    pc = "ok" =>
        /\ head.rev >= 4 * epoch
        /\ kind = "stop" /\ asked.op \in {"stop", "drop"} => Stopped
        /\ kind = "stop" /\ asked.op = "drop" /\ Whole => \A g \in targets \cap owed : cont[g] = "none"
        /\ asked.op = "start" => Started
        /\ asked.op = "retire" => head.rev = 4 * epoch + 3 /\ head.op = "retire" /\ head.receipt

\* What the phases of a stop, a start and a restart have behind them.
Behind ==
    /\ kind = "stop" =>
          /\ phase # "fencing" => head.rev >= 4 * epoch
          /\ phase \in {"routing", "applying", "completed"} =>
                0 \in targets /\ (Whole => \A g \in owed \ targets : cont[g] = "none")
          /\ phase = "completed" => Stopped
    /\ kind = "start" =>
          /\ phase # "preparing" => targets = {0}
          /\ phase \in {"readiness", "routing", "completed"} => Started
    /\ kind = "restart" =>
          /\ phase \notin {"fencing", "preparing"} => targets = {0}
          /\ phase \in Late \ {"starting"} => Started

\* The inductive invariant: the panel's part, the agent's, and docker's.
PanelInv == Phased /\ Recorded /\ Waiting /\ Answered /\ Behind
AgentInv == OneOfId /\ Unorphaned /\ Requests /\ Docked /\ Receipts
ContInv == cont[0] # "none" /\ CandidateIsRecorded
NodeInv == TypeOK /\ PanelInv /\ AgentInv /\ ContInv

-----------------------------------------------------------------------------
(* What follows a phase                                                    *)

\* Each kind goes through its phases in order.
LEMMA FollowingStop ==
    ASSUME kind = "stop"
    PROVE  /\ phase = "fencing" => Following = "preparing"
           /\ phase = "preparing" => Following = "routing"
           /\ phase = "routing" => Following = "applying"
           /\ phase = "applying" => Following = "completed"
BY DEF Following, Order

LEMMA FollowingStart ==
    ASSUME kind = "start"
    PROVE  /\ phase = "preparing" => Following = "applying"
           /\ phase = "applying" => Following = "readiness"
           /\ phase = "readiness" => Following = "routing"
           /\ phase = "routing" => Following = "completed"
BY DEF Following, Order

LEMMA FollowingRestart ==
    ASSUME kind = "restart"
    PROVE  /\ phase = "fencing" => Following = "preparing"
           /\ phase = "preparing" => Following = "routing"
           /\ phase = "routing" => Following = "applying"
           /\ phase = "applying" => Following = "starting"
           /\ phase = "starting" => Following = "warming"
           /\ phase = "warming" => Following = "publishing"
           /\ phase = "publishing" => Following = "completed"
BY DEF Following, Order

LEMMA FollowingDeploy ==
    ASSUME kind = "deploy"
    PROVE  /\ phase = "begin" => Following = "fencing"
           /\ phase = "fencing" => Following = "preparing"
           /\ phase = "preparing" => Following = "completed"
BY DEF Following, Order
-----------------------------------------------------------------------------
(* A mutation is accepted                                                  *)

\* Whatever was asked for so far belongs to an older epoch now.
LEMMA StepAccept == ASSUME NodeInv, Accept PROVE NodeInv'
<1>t. /\ epoch \in 0..N /\ owed \subseteq Gen \ {0} /\ targets \subseteq Gen /\ deploying \in BOOLEAN
      /\ prep \in [gen : Gen, at : {"preparing", "prepared", "fencing", "retiring"}]
      /\ sent \in Nat /\ N \in Nat
      /\ ops \subseteq [id : 1..sent, rev : 4..(4 * epoch + 3), op : Ops, on : SUBSET Gen,
                        at : {"sent", "claimed", "docker", "acted", "orphan"}]
      /\ head \in [rev : 0..(4 * epoch + 3), op : Ops \cup {"none"}, on : SUBSET Gen,
                   receipt : BOOLEAN]
  BY NodeLifecycleAssumption DEF NodeInv, TypeOK
<1>a. UNCHANGED <<prep, sent, ops, head, cont, spent>> /\ epoch' = epoch + 1 /\ epoch < N
  BY DEF Accept, AcceptStop, AcceptStart, AdmitDeploy, Reserve, agent
<1>k. /\ asked' = [id |-> 0, op |-> "none"] /\ targets' = {}
      /\ \/ kind' = "stop" /\ phase' = "fencing" /\ owed' = Interrupted /\ pc' = "free"
         \/ kind' = "start" /\ phase' = "preparing" /\ owed' = {} /\ pc' = "free" /\ prep.gen = 0
         \/ kind' = "restart" /\ phase' = "fencing" /\ owed' = {} /\ pc' = "free" /\ prep.gen = 0
         \/ kind' = "deploy" /\ phase' = "begin" /\ owed' = {} /\ pc' = "run" /\ prep.gen = 0
  BY <1>t DEF Accept, AcceptStop, AcceptStart, AdmitDeploy, Reserve, Order
<1>d. deploying' \in BOOLEAN /\ (deploying' <=> kind' = "deploy")
  <2>1. AcceptStop => deploying' = FALSE /\ kind' = "stop"
    BY DEF AcceptStop, Reserve
  <2>2. AdmitDeploy => deploying' = TRUE /\ kind' = "deploy"
    BY DEF AdmitDeploy, Reserve
  <2>3. ASSUME NEW k \in {"start", "restart"}, AcceptStart(k)
        PROVE  deploying' \in BOOLEAN /\ ~deploying' /\ kind' # "deploy"
    <3>1. kind' = k
      BY <2>3 DEF AcceptStart, Reserve
    <3>2. deploying' = deploying /\ ~deploying
      BY <2>3, Zenon DEF AcceptStart
    <3> QED  BY <1>t, <3>1, <3>2
  <2> QED  BY <2>1, <2>2, <2>3 DEF Accept
<1>i. /\ \A g \in Interrupted : g \in Gen /\ 0 < g /\ g < epoch'
      /\ prep.gen # 0 => prep.gen \in Interrupted
  <2>1. prep.gen <= epoch /\ (\A g \in owed : 0 < g /\ g < epoch) /\ (deploying => epoch > 0)
    BY <1>t DEF NodeInv, PanelInv, Recorded, Phased
  <2>2. prep.gen \in Nat /\ epoch \in Gen /\ owed \subseteq Nat
    BY <1>t DEF Gen
  <2>3. ASSUME NEW g \in Interrupted PROVE g \in Gen /\ 0 < g /\ g < epoch + 1
    <3>1. (deploying /\ g = epoch) \/ (prep.gen # 0 /\ g = prep.gen) \/ g \in owed
      BY <2>3 DEF Interrupted
    <3>2. ASSUME g \in owed PROVE g \in Gen /\ 0 < g /\ g < epoch + 1
      BY <1>t, <2>1, <2>2, <3>2
    <3> QED  BY <1>t, <2>1, <2>2, <3>1, <3>2
  <2>4. prep.gen # 0 => prep.gen \in Interrupted
    BY DEF Interrupted
  <2> QED  BY <1>a, <2>3, <2>4
<1>o. /\ \A o \in ops : ~Mine(o)'
      /\ ~Mine(head)'
  BY <1>t, <1>a DEF Mine
<1>1. TypeOK'
  <2>1. ops' \subseteq [id : 1..sent', rev : 4..(4 * epoch' + 3), op : Ops, on : SUBSET Gen,
                        at : {"sent", "claimed", "docker", "acted", "orphan"}]
    <3>1. ASSUME NEW o \in ops PROVE o.rev \in 4..(4 * epoch' + 3)
      <4>1. o.rev \in 4..(4 * epoch + 3)
        BY <1>t
      <4> QED  BY <1>t, <1>a, <4>1
    <3> QED  BY <1>t, <1>a, <3>1
  <2>2. head' \in [rev : 0..(4 * epoch' + 3), op : Ops \cup {"none"}, on : SUBSET Gen,
                   receipt : BOOLEAN]
    <3>1. head.rev \in 0..(4 * epoch' + 3)
      BY <1>t, <1>a
    <3> QED  BY <1>t, <1>a, <3>1
  <2>3. owed' \subseteq Gen \ {0} /\ epoch' \in 0..N
    <3>1. epoch' \in 0..N
      BY <1>t, <1>a
    <3>2. \A g \in owed' : g \in Gen /\ 0 < g
      BY <1>k, <1>i
    <3> QED  BY <3>1, <3>2
  <2>4. /\ kind' \in {"none", "stop", "start", "restart", "deploy"} /\ targets' \subseteq Gen
        /\ phase' \in {"begin", "fencing", "preparing"} /\ pc' \in {"free", "run"}
        /\ asked' \in [id : 0..sent', op : Ops \cup {"none"}]
    BY <1>a, <1>k, <1>t
  <2>5. /\ cont' \in [Gen -> {"none", "down", "up"}]
        /\ spent' \in [fault : 0..MaxFaults, orphan : 0..MaxOrphans]
        /\ prep' \in [gen : Gen, at : {"preparing", "prepared", "fencing", "retiring"}]
    BY <1>a DEF NodeInv, TypeOK
  <2> QED  BY <1>a, <1>d, <1>t, <2>1, <2>2, <2>3, <2>4, <2>5 DEF TypeOK
<1>2. Phased' /\ Recorded'
  <2>1. prep.gen <= epoch /\ prep.gen \in Nat
    BY <1>t DEF NodeInv, PanelInv, Recorded, Gen
  <2>2. Phased'
    <3>1. epoch' # 0
      BY <1>a, <1>t
    <3> QED  BY <1>k, <1>i, <3>1 DEF Phased
  <2>3. Recorded'
    <3>1. prep'.gen <= epoch'
      BY <1>a, <1>t, <2>1
    <3>2. deploying' => kind' = "deploy" /\ phase' = "begin" /\ prep'.gen = 0
      BY <1>a, <1>d, <1>k
    <3>3. /\ kind' # "stop" => prep'.gen = 0
          /\ kind' = "stop" => prep'.gen \in {0} \cup owed' /\ phase' # "completed"
      BY <1>a, <1>k, <1>i
    <3> QED  BY <1>d, <3>1, <3>2, <3>3 DEF Recorded
  <2> QED  BY <2>2, <2>3
<1>3. Waiting' /\ Answered' /\ Behind'
  BY <1>a, <1>d, <1>k DEF Waiting, Suits, Answered, Behind, Late
<1>4. AgentInv'
  <2>1. OneOfId' /\ Unorphaned' /\ Docked' /\ Receipts'
    BY <1>a DEF NodeInv, AgentInv, OneOfId, Unorphaned, Docked, Receipts, Whole, Busy, Covered, Heads
  <2>2. Requests'
    BY <1>a, <1>o DEF NodeInv, AgentInv, Requests, Fits, Shaped
  <2> QED  BY <2>1, <2>2 DEF AgentInv
<1>5. ContInv'
  BY <1>a DEF NodeInv, ContInv, CandidateIsRecorded
<1> QED
  BY <1>1, <1>2, <1>3, <1>4, <1>5 DEF NodeInv, PanelInv
-----------------------------------------------------------------------------
(* A request is sent                                                       *)

\* A new request, and what makes it one the newest mutation may send.
Request(op, p, on) ==
    [id |-> Fresh, rev |-> 4 * epoch + p, op |-> op, on |-> on, at |-> "sent"]
Proper(op, p, on) ==
    /\ p \in 0..3 /\ op \in Ops /\ on \subseteq Gen /\ epoch > 0
    /\ Suits(op) /\ Fits(Request(op, p, on)) /\ Shaped(Request(op, p, on))

\* A request that fits the newest mutation keeps the invariant.
LEMMA SendProper ==
    ASSUME NodeInv, NEW op, NEW p, NEW on, Send(op, p, on), Proper(op, p, on) PROVE NodeInv'
<1>p. PICK r : r = Request(op, p, on)
  OBVIOUS
<1>t. /\ epoch \in 0..N /\ sent \in Nat /\ N \in Nat
      /\ ops \subseteq [id : 1..sent, rev : 4..(4 * epoch + 3), op : Ops, on : SUBSET Gen,
                        at : {"sent", "claimed", "docker", "acted", "orphan"}]
  BY NodeLifecycleAssumption DEF NodeInv, TypeOK
<1>a. /\ UNCHANGED <<panel, head, cont, spent>>
      /\ sent' = Fresh /\ pc' = "wait" /\ asked' = [id |-> Fresh, op |-> op]
      /\ ops' = ops \cup {r}
  BY <1>p DEF Send, Request
<1>b. UNCHANGED <<epoch, kind, phase, owed, targets, deploying, prep>>
  BY <1>a DEF panel
<1>n. /\ Fresh \in Nat /\ Fresh \in 1..Fresh /\ sent <= Fresh
      /\ \A o \in ops : o.id # Fresh
  <2>1. \A o \in ops : o.id \in 1..sent
    BY <1>t
  <2> QED  BY <1>t, <2>1 DEF Fresh
<1>r. /\ r \in [id : 1..Fresh, rev : 4..(4 * epoch + 3), op : Ops, on : SUBSET Gen,
                at : {"sent", "claimed", "docker", "acted", "orphan"}]
      /\ r.id = Fresh /\ r.op = op /\ r.rev >= 4 * epoch /\ r.at = "sent"
  <2>1. 4 * epoch + p \in 4..(4 * epoch + 3) /\ 4 * epoch + p >= 4 * epoch
    BY <1>t DEF Proper
  <2> QED  BY <1>p, <1>n, <2>1 DEF Proper, Request
<1>1. TypeOK'
  <2>1. \A o \in ops : o \in [id : 1..Fresh, rev : 4..(4 * epoch + 3), op : Ops, on : SUBSET Gen,
                              at : {"sent", "claimed", "docker", "acted", "orphan"}]
    <3>1. 1..sent \subseteq 1..Fresh
      BY <1>t, <1>n
    <3> QED  BY <1>t, <3>1
  <2>2. ops' \subseteq [id : 1..sent', rev : 4..(4 * epoch' + 3), op : Ops, on : SUBSET Gen,
                        at : {"sent", "claimed", "docker", "acted", "orphan"}]
    BY <1>a, <1>b, <1>r, <2>1
  <2>3. sent' \in Nat /\ asked' \in [id : 0..sent', op : Ops \cup {"none"}]
    BY <1>a, <1>n, <1>t DEF Proper
  <2> QED  BY <1>a, <1>b, <2>2, <2>3 DEF NodeInv, TypeOK
<1>2. Phased' /\ Recorded' /\ Behind'
  BY <1>a, <1>b DEF NodeInv, PanelInv, Phased, Recorded, Behind, Stopped, Started, Whole
<1>3. Waiting' /\ Answered'
  <2>1. Suits(op)'
    BY <1>b DEF Proper, Suits
  <2>2. ASSUME NEW o \in ops', o.id = asked'.id PROVE o.op = asked'.op /\ o.rev >= 4 * epoch'
    <3>1. o \in ops => o.id # Fresh
      BY <1>n
    <3> QED  BY <1>a, <1>b, <1>r, <2>2, <3>1
  <2>3. asked'.op = op
    BY <1>a
  <2> QED  BY <1>a, <2>1, <2>2, <2>3 DEF Waiting, Answered
<1>4. AgentInv'
  <2>1. OneOfId'
    <3> QED  BY <1>a, <1>n, <1>r DEF NodeInv, AgentInv, OneOfId
  <2>2. Unorphaned' /\ Receipts'
    BY <1>a, <1>r DEF NodeInv, AgentInv, Unorphaned, Receipts, Whole
  <2>3. Docked'
    <3>1. \A o \in ops' : Busy(o) => o \in ops
      BY <1>a, <1>r DEF Busy
    <3> QED  BY <1>a, <3>1 DEF NodeInv, AgentInv, Docked, Covered, Heads
  <2>4. Requests'
    <3>1. (Fits(r) /\ Shaped(r))'
      <4>1. Fits(r) /\ Shaped(r)
        BY <1>p DEF Proper
      <4> QED  BY <1>a, <1>b, <4>1 DEF Fits, FitsStop, FitsStart, FitsRestart, FitsDeploy, Mine, Shaped
    <3> QED  BY <1>a, <1>b, <3>1 DEF NodeInv, AgentInv, Requests, Fits, FitsStop, FitsStart, FitsRestart,
                                      FitsDeploy, Mine, Shaped
  <2> QED  BY <2>1, <2>2, <2>3, <2>4 DEF AgentInv
<1>5. ContInv'
  BY <1>a, <1>b DEF NodeInv, ContInv, CandidateIsRecorded
<1> QED
  BY <1>1, <1>2, <1>3, <1>4, <1>5 DEF NodeInv, PanelInv

\* Each sender asks for what its phase is for.
Sending == Fence \/ Apply \/ StartAgain \/ Retire \/ Prepare \/ RecoverSend

LEMMA StepSend == ASSUME NodeInv, Sending PROVE NodeInv'
<1>t. /\ epoch \in 0..N /\ N \in Nat /\ targets \subseteq Gen /\ kind \in {"none", "stop", "start", "restart", "deploy"}
      /\ Phased /\ Recorded /\ Waiting /\ Behind
  BY NodeLifecycleAssumption DEF NodeInv, TypeOK, PanelInv
<1>e. epoch > 0 => epoch \in Gen
  BY <1>t DEF Gen
<1>k. kind # "none" => epoch > 0
  BY <1>t DEF Phased
<1> USE DEF Request, Fits, Shaped, Mine
<1>1. CASE Fence
  <2>1. kind \in {"stop", "restart", "deploy"} /\ phase = "fencing" /\ Send("fence", 0, {})
    BY <1>1, <1>t DEF Fence, Phased
  <2>2. Suits("fence")
    <3>1. kind = "deploy" /\ ~deploying => FALSE
      <4>1. phase # "completed"
        BY <2>1
      <4> QED  BY <1>t, <4>1, Zenon DEF Recorded
    <3> QED  BY <2>1, <3>1 DEF Suits
  <2>3. Proper("fence", 0, {})
    BY <1>k, <1>t, <2>1, <2>2 DEF Proper, Ops, FitsStop, FitsRestart, FitsDeploy
  <2> QED  BY <2>1, <2>3, SendProper
<1>2. CASE Apply
  <2>1. kind \in {"stop", "start", "restart"} /\ phase = "applying"
    BY <1>2, <1>t DEF Apply, Phased
  <2>2. CASE kind = "start"
    <3>1. Send("start", 1, targets) /\ targets = {0}
      BY <1>2, <1>t, <2>1, <2>2 DEF Apply, Behind
    <3>2. Suits("start")
      BY <1>t, <2>1, <2>2 DEF Suits, Recorded
    <3>3. Proper("start", 1, targets)
      BY <1>k, <1>t, <2>2, <3>1, <3>2 DEF Proper, Ops, FitsStart
    <3> QED  BY <3>1, <3>3, SendProper
  <2>3. CASE kind # "start"
    <3>1. Send("stop", 1, targets)
      BY <1>2, <2>3 DEF Apply
    <3>2. Suits("stop")
      BY <1>t, <2>1, <2>3 DEF Suits, Recorded
    <3>3. Proper("stop", 1, targets)
      BY <1>k, <1>t, <2>1, <2>3, <3>2 DEF Proper, Ops, FitsStop, FitsRestart
    <3> QED  BY <3>1, <3>3, SendProper
  <2> QED  BY <2>2, <2>3
<1>3. CASE StartAgain
  <2>1. kind = "restart" /\ phase = "starting" /\ Send("start", 2, targets \cap {0})
    BY <1>3, <1>t DEF StartAgain, Phased
  <2>2. targets \cap {0} = {0}
    BY <1>t, <2>1 DEF Behind
  <2>3. Suits("start")
    BY <1>t, <2>1 DEF Suits, Recorded
  <2>4. Proper("start", 2, targets \cap {0})
    BY <1>k, <1>t, <2>1, <2>2, <2>3 DEF Proper, Ops, FitsRestart, Late
  <2> QED  BY <2>1, <2>4, SendProper
<1>4. CASE Retire
  <2>1. kind = "stop" /\ phase = "applying" /\ Send("drop", 1, targets \cap owed)
    BY <1>4 DEF Retire
  <2>2. 0 \notin owed
    BY <1>t DEF Phased
  <2>3. Suits("drop")
    BY <1>t, <2>1 DEF Suits, Recorded
  <2>4. Proper("drop", 1, targets \cap owed)
    BY <1>k, <1>t, <2>1, <2>2, <2>3 DEF Proper, Ops, FitsStop
  <2> QED  BY <2>1, <2>4, SendProper
<1>5. CASE Prepare
  <2>1. deploying /\ phase = "preparing" /\ Send("prepare", 1, {epoch})
    BY <1>5, Zenon DEF Prepare
  <2>2. kind = "deploy" /\ prep.gen = epoch
    BY <1>t, <2>1 DEF Recorded
  <2>3. Suits("prepare")
    BY <2>1, <2>2 DEF Suits
  <2>4. Proper("prepare", 1, {epoch})
    BY <1>k, <1>e, <2>2, <2>3 DEF Proper, Ops, FitsDeploy
  <2> QED  BY <2>1, <2>4, SendProper
<1>6. CASE RecoverSend
  <2>1. /\ kind = "deploy" /\ ~deploying /\ prep.gen = epoch /\ pc = "run"
        /\ IF prep.at = "fencing" THEN Send("fence", 2, {}) ELSE Send("retire", 3, {epoch})
    BY <1>6, Zenon DEF RecoverSend, Recoverable
  <2>2. prep.at \in {"fencing", "retiring"}
    BY <1>t, <2>1 DEF Waiting
  <2>3. CASE prep.at = "fencing"
    <3>1. Suits("fence")
      BY <2>1, <2>3 DEF Suits
    <3>2. Proper("fence", 2, {})
      BY <1>k, <1>t, <2>1, <3>1 DEF Proper, Ops, FitsDeploy
    <3> QED  BY <2>1, <2>3, <3>2, SendProper
  <2>4. CASE prep.at = "retiring"
    <3>1. Suits("retire")
      BY <2>1, <2>4 DEF Suits
    <3>2. Proper("retire", 3, {epoch})
      BY <1>k, <1>e, <2>1, <3>1 DEF Proper, Ops, FitsDeploy
    <3> QED  BY <2>1, <2>4, <3>2, SendProper
  <2> QED  BY <2>2, <2>3, <2>4
<1> QED
  BY <1>1, <1>2, <1>3, <1>4, <1>5, <1>6 DEF Sending
-----------------------------------------------------------------------------
(* The owner moves on without a request                                    *)

\* Steps that send nothing.
Kept == UNCHANGED <<epoch, kind, owed, sent, ops, head, cont>> /\ spent'.orphan = spent.orphan
PanelTypes ==
    /\ phase \in {"begin", "fencing", "preparing", "routing", "applying", "readiness",
                  "starting", "warming", "publishing", "completed"}
    /\ targets \subseteq Gen /\ deploying \in BOOLEAN
    /\ prep \in [gen : Gen, at : {"preparing", "prepared", "fencing", "retiring"}]
    /\ pc \in {"free", "run", "ready", "retry", "applied", "wait", "ok", "error"}
    /\ asked \in [id : 0..sent, op : Ops \cup {"none"}]
    /\ spent \in [fault : 0..MaxFaults, orphan : 0..MaxOrphans]

\* A step that only moves the panel keeps what the agent relies on.
LEMMA Unsent ==
    ASSUME NodeInv, Kept, PanelTypes', PanelInv',
           kind = "stop" /\ phase \in {"applying", "completed"} =>
               phase' \in {"applying", "completed"} /\ targets' = targets,
           kind = "restart" /\ phase \in Late => phase' \in Late,
           \/ prep'.gen = prep.gen
           \/ prep.gen = 0
           \/ head.rev > 4 * prep.gen + 1 /\ (Whole => cont[prep.gen] = "none")
    PROVE  NodeInv'
<1>k. UNCHANGED <<epoch, kind, owed, sent, ops, head, cont>> /\ (Whole <=> Whole')
  BY DEF Kept, Whole
<1>1. TypeOK'
  BY <1>k DEF NodeInv, TypeOK, PanelTypes
<1>2. OneOfId' /\ Unorphaned' /\ Docked' /\ Receipts'
  BY <1>k DEF NodeInv, AgentInv, OneOfId, Unorphaned, Docked, Receipts, Busy, Covered, Heads
<1>3. ASSUME NEW x, Fits(x) PROVE Fits(x)'
  BY <1>k, <1>3 DEF Fits, FitsStop, FitsStart, FitsRestart, FitsDeploy, Mine
<1>4. ASSUME NEW x, Shaped(x) PROVE Shaped(x)'
  BY <1>k, <1>4 DEF Shaped
<1>5. Requests'
  <2>1. Fits(head)' /\ Shaped(head)'
    BY <1>k DEF NodeInv, AgentInv, Requests, Fits, FitsStop, FitsStart, FitsRestart, FitsDeploy, Mine, Shaped
  <2> QED  BY <1>k, <1>3, <1>4, <2>1 DEF NodeInv, AgentInv, Requests
<1>6. ContInv'
  <2>1. ASSUME Whole, NEW g \in Gen \ {0}, cont[g] # "none" PROVE prep'.gen = g
    <3>1. prep.gen = g
      BY <2>1 DEF NodeInv, ContInv, CandidateIsRecorded, Whole
    <3> QED  BY <2>1, <3>1
  <2>2. CandidateIsRecorded'
    BY <1>k, <2>1 DEF CandidateIsRecorded, Whole
  <2> QED  BY <1>k, <2>2 DEF NodeInv, ContInv
<1> QED
  BY <1>1, <1>2, <1>5, <1>6 DEF NodeInv, AgentInv

\* The step leaves the rows of the panel alone.
Resting == Lease \/ Hold \/ Lapse \/ PrepareAgain \/ RecoverHold

LEMMA StepResting == ASSUME NodeInv, Resting PROVE NodeInv'
<1>t. PanelTypes /\ Phased /\ Recorded /\ Waiting /\ Behind /\ {MaxFaults, MaxOrphans} \subseteq Nat
  BY NodeLifecycleAssumption DEF NodeInv, TypeOK, PanelInv, PanelTypes
<1>k. UNCHANGED <<epoch, kind, phase, owed, targets, deploying, prep, sent, ops, head, cont>>
  BY DEF Resting, Lease, Hold, Lapse, PrepareAgain, RecoverHold, panel, agent
<1>s. spent' = spent \/ Fault
  BY DEF Resting, Lease, Hold, Lapse, PrepareAgain, RecoverHold
<1>f. spent' \in [fault : 0..MaxFaults, orphan : 0..MaxOrphans] /\ spent'.orphan = spent.orphan
  BY <1>t, <1>s DEF Fault, PanelTypes
<1>p. /\ pc' \in {"free", "run", "retry"}
      /\ pc' = "run" => kind # "deploy"
      /\ asked' = asked \/ asked' = [asked EXCEPT !.id = 0] \/ asked' = [id |-> 0, op |-> "none"]
  BY DEF Resting, Lease, Hold, Lapse, PrepareAgain, RecoverHold, Pending
<1>1. PanelTypes'
  <2>1. asked' \in [id : 0..sent', op : Ops \cup {"none"}]
    <3>1. 0 \in 0..sent
      BY DEF NodeInv, TypeOK
    <3> QED  BY <1>t, <1>k, <1>p, <3>1 DEF PanelTypes
  <2> QED  BY <1>t, <1>k, <1>f, <1>p, <2>1 DEF PanelTypes
<1>2. PanelInv'
  <2>1. Phased' /\ Recorded' /\ Behind'
    BY <1>t, <1>k, <1>f DEF Phased, Recorded, Behind, Stopped, Started, Whole
  <2>2. Waiting' /\ Answered'
    BY <1>k, <1>p DEF Waiting, Answered
  <2> QED  BY <2>1, <2>2 DEF PanelInv
<1> QED
  BY <1>k, <1>f, <1>1, <1>2, Unsent DEF Kept

\* A stop is through: the candidates it found are gone, and whoever prepared one is
\* behind the head.
LEMMA StepComplete ==
    ASSUME NodeInv, Complete, kind = "stop", phase = "applying", Stopped,
           Whole => \A g \in targets \cap owed : cont[g] = "none"
    PROVE  NodeInv'
<1>t. /\ PanelTypes /\ Phased /\ Recorded /\ Behind /\ epoch \in Nat
  BY NodeLifecycleAssumption DEF NodeInv, TypeOK, PanelInv, PanelTypes
<1>k. /\ UNCHANGED <<epoch, kind, owed, targets, deploying, asked, sent, ops, head, cont, spent>>
      /\ phase' = "completed" /\ pc' = "free"
  BY DEF Complete, agent
<1>g. 0 \notin owed /\ (deploying => FALSE)
  BY <1>t DEF Phased, Recorded
<1>p. prep'.gen = 0 /\ prep'.at = prep.at /\ prep' \in [gen : Gen, at : {"preparing", "prepared", "fencing", "retiring"}]
  <2>1. prep \in [gen : Gen, at : {"preparing", "prepared", "fencing", "retiring"}] /\ 0 \in Gen
    BY <1>t, NodeLifecycleAssumption DEF PanelTypes, Gen
  <2>2. prep.gen \in {0} \cup owed
    BY <1>t DEF Recorded
  <2> QED  BY <2>1, <2>2 DEF Complete
<1>1. PanelTypes'
  BY <1>t, <1>k, <1>p DEF PanelTypes
<1>2. PanelInv'
  <2>1. Phased' /\ Behind'
    BY <1>t, <1>k DEF Phased, Behind, Stopped, Whole
  <2>2. Recorded'
    BY <1>t, <1>k, <1>g, <1>p DEF Recorded
  <2>3. Waiting' /\ Answered'
    BY <1>k DEF Waiting, Answered
  <2> QED  BY <2>1, <2>2, <2>3 DEF PanelInv
<1>3. ASSUME prep.gen # 0 PROVE head.rev > 4 * prep.gen + 1 /\ (Whole => cont[prep.gen] = "none")
  <2>1. prep.gen \in owed /\ prep.gen < epoch /\ prep.gen \in Nat
    BY <1>t, <1>3 DEF Recorded, Phased, PanelTypes, Gen
  <2>2. Whole => cont[prep.gen] = "none"
    BY <1>t, <2>1 DEF Behind
  <2> QED  BY <1>t, <2>1, <2>2 DEF Stopped
<1> QED
  BY <1>k, <1>1, <1>2, <1>3, Unsent DEF Kept

\* The owner of a command goes on to its next phase.
LEMMA StepPhase ==
    ASSUME NodeInv, kind \in {"stop", "start", "restart"},
           UNCHANGED <<epoch, kind, owed, deploying, prep, asked, sent, agent, spent>>,
           targets' \subseteq {0} \cup owed, pc' \in {"run", "ready"}, PanelTypes',
           Phased', Behind', phase # "completed", phase' = "completed" => kind # "stop",
           kind = "stop" /\ phase = "applying" => phase' = "applying" /\ targets' = targets,
           kind = "restart" /\ phase \in Late => phase' \in Late
    PROVE  NodeInv'
<1>k. UNCHANGED <<epoch, kind, owed, deploying, prep, sent, ops, head, cont, spent>>
  BY DEF agent
<1>1. Recorded'
  <2>1. Recorded /\ ~deploying
    BY DEF NodeInv, PanelInv, Recorded
  <2> QED  BY <1>k, <2>1 DEF Recorded
<1>2. Waiting' /\ Answered'
  BY <1>k DEF Waiting, Answered
<1>3. PanelInv'
  BY <1>1, <1>2 DEF PanelInv
<1> QED
  BY <1>k, <1>3, Unsent DEF Kept
LEMMA StepDiscover == ASSUME NodeInv, Discover PROVE NodeInv'
<1>t. /\ PanelTypes /\ Phased /\ Behind /\ cont[0] # "none" /\ 0 \in Gen /\ owed \subseteq Gen
      /\ kind \in {"none", "stop", "start", "restart", "deploy"}
  BY NodeLifecycleAssumption DEF NodeInv, TypeOK, PanelInv, PanelTypes, ContInv, Gen
<1>k. /\ UNCHANGED <<epoch, kind, owed, deploying, prep, pc, asked, sent, ops, head, cont, spent>>
      /\ kind # "deploy" /\ phase = "preparing" /\ pc = "run"
      /\ targets' = {g \in {0} \cup owed : cont[g] # "none"} /\ phase' = Following
  BY DEF Discover, owner, agent
<1>s. kind \in {"stop", "start", "restart"}
  BY <1>t, <1>k DEF Phased
<1>f. phase' = IF kind = "start" THEN "applying" ELSE "routing"
  BY <1>k, <1>s, FollowingStop, FollowingStart, FollowingRestart
<1>g. /\ 0 \in targets' /\ targets' \subseteq {0} \cup owed /\ targets' \subseteq Gen
      /\ \A g \in owed \ targets' : cont[g] = "none"
  BY <1>t, <1>k
<1>1. Phased'
  BY <1>t, <1>k, <1>s, <1>f, <1>g DEF Phased
<1>2. Behind'
  <2>1. kind # "stop" => targets' = {0}
    BY <1>t, <1>g DEF Phased
  <2> QED  BY <1>t, <1>k, <1>s, <1>f, <1>g, <2>1 DEF Behind, Late
<1>3. PanelTypes'
  BY <1>t, <1>k, <1>f, <1>g DEF PanelTypes
<1> QED
  BY <1>1, <1>2, <1>3, <1>k, <1>s, <1>f, <1>g, StepPhase DEF agent, Late

LEMMA StepConfirm == ASSUME NodeInv, Confirm PROVE NodeInv'
<1>t. /\ PanelTypes /\ Phased /\ Behind /\ kind \in {"none", "stop", "start", "restart", "deploy"}
  BY DEF NodeInv, TypeOK, PanelInv, PanelTypes
<1>k. /\ UNCHANGED <<epoch, kind, owed, targets, deploying, prep, asked, sent, ops, head, cont, spent>>
      /\ phase \in {"routing", "readiness", "warming", "publishing"} /\ pc' \in {"run", "ready"}
      /\ phase' = Following
  BY DEF Confirm, ReadinessDue, Warming, agent
<1>s. kind \in {"stop", "start", "restart"}
  BY <1>t, <1>k DEF Phased
<1>f. /\ kind = "stop" => phase = "routing" /\ phase' = "applying"
      /\ kind = "start" => \/ phase = "readiness" /\ phase' = "routing"
                           \/ phase = "routing" /\ phase' = "completed"
      /\ kind = "restart" => \/ phase = "routing" /\ phase' = "applying"
                             \/ phase = "warming" /\ phase' = "publishing"
                             \/ phase = "publishing" /\ phase' = "completed"
  BY <1>t, <1>k, <1>s, FollowingStop, FollowingStart, FollowingRestart DEF Phased, Late
<1>1. Phased'
  BY <1>t, <1>k, <1>s, <1>f DEF Phased, Late
<1>2. Behind'
  BY <1>t, <1>k, <1>s, <1>f DEF Behind, Late, Stopped, Started, Whole
<1>3. PanelTypes'
  BY <1>t, <1>k, <1>s, <1>f DEF PanelTypes
<1>4. targets \subseteq {0} \cup owed
  BY <1>t DEF Phased
<1> QED
  BY <1>1, <1>2, <1>3, <1>4, <1>k, <1>s, <1>f, StepPhase DEF agent, Late

LEMMA StepNothingToRetire == ASSUME NodeInv, NothingToRetire PROVE NodeInv'
<1>1. Complete /\ kind = "stop" /\ phase = "applying" /\ pc = "applied" /\ targets \cap owed = {}
  BY DEF NothingToRetire
<1>2. Stopped
  BY <1>1 DEF NodeInv, PanelInv, Waiting
<1> QED
  BY <1>1, <1>2, StepComplete

LEMMA StepAdvance == ASSUME NodeInv, Advance PROVE NodeInv'
<1>t. /\ PanelTypes /\ Phased /\ Recorded /\ Behind /\ Answered /\ Suits(asked.op) /\ pc = "ok"
      /\ kind \in {"none", "stop", "start", "restart", "deploy"} /\ kind # "deploy"
  BY DEF NodeInv, TypeOK, PanelInv, PanelTypes, Waiting, Advance
<1>s. kind \in {"stop", "start", "restart"} /\ targets \subseteq {0} \cup owed
  BY <1>t DEF Suits, Phased
<1>1. CASE kind = "stop" /\ asked.op = "stop" /\ owed # {}
  <2>k. /\ UNCHANGED <<epoch, kind, phase, owed, targets, deploying, prep, asked, sent, ops, head, cont, spent>>
        /\ pc' = "applied"
    BY <1>1 DEF Advance, panel, agent
  <2>1. phase = "applying" /\ Stopped
    BY <1>1, <1>t DEF Suits, Answered
  <2>2. Phased' /\ Recorded' /\ Behind'
    BY <1>t, <2>k DEF Phased, Recorded, Behind, Stopped, Started, Whole
  <2>3. Waiting' /\ Answered'
    BY <1>1, <2>k, <2>1 DEF Waiting, Answered, Stopped
  <2>4. PanelTypes'
    BY <1>t, <2>k DEF PanelTypes
  <2> QED  BY <2>k, <2>2, <2>3, <2>4, Unsent DEF Kept, PanelInv
<1>2. CASE kind = "stop" /\ phase = "applying" /\ (owed # {} => asked.op = "drop")
  <2>1. Complete
    BY <1>2 DEF Advance
  <2>2. asked.op \in {"stop", "drop"} /\ Stopped
    BY <1>2, <1>t DEF Suits, Answered
  <2>3. Whole => \A g \in targets \cap owed : cont[g] = "none"
    BY <1>2, <1>t DEF Answered
  <2> QED  BY <1>2, <2>1, <2>2, <2>3, StepComplete
<1>3. CASE /\ ~(kind = "stop" /\ asked.op = "stop" /\ owed # {})
           /\ ~(kind = "stop" /\ phase = "applying" /\ (owed # {} => asked.op = "drop"))
  <2>k. /\ UNCHANGED <<epoch, kind, owed, targets, deploying, prep, asked, sent, ops, head, cont, spent>>
        /\ pc' = "run" /\ phase' = Following
    BY <1>3 DEF Advance, agent
  <2>f. /\ kind = "stop" => phase = "fencing" /\ phase' = "preparing"
        /\ kind = "start" => phase = "applying" /\ phase' = "readiness" /\ asked.op = "start"
        /\ kind = "restart" => \/ phase = "fencing" /\ phase' = "preparing"
                               \/ phase = "applying" /\ phase' = "starting"
                               \/ phase = "starting" /\ phase' = "warming" /\ asked.op = "start"
    BY <1>3, <1>t, <1>s, <2>k, FollowingStop, FollowingStart, FollowingRestart DEF Suits
  <2>1. Phased'
    BY <1>t, <1>s, <2>k, <2>f DEF Phased, Late
  <2>2. Behind'
    BY <1>t, <1>s, <2>k, <2>f DEF Behind, Answered, Late, Stopped, Started, Whole
  <2>3. PanelTypes'
    BY <1>t, <1>s, <2>k, <2>f DEF PanelTypes
  <2> QED  BY <2>1, <2>2, <2>3, <1>s, <2>k, <2>f, StepPhase DEF agent, Late
<1> QED
  BY <1>1, <1>2, <1>3
-----------------------------------------------------------------------------
(* A deployment's candidate, without a request                             *)

\* The steps of a deployment and of its recovery.
LEMMA StepBegin == ASSUME NodeInv, BeginPreparation PROVE NodeInv'
<1>t. PanelTypes /\ Phased /\ Recorded /\ epoch \in Gen
  BY DEF NodeInv, TypeOK, PanelInv, PanelTypes, Gen
<1>k. /\ UNCHANGED <<epoch, kind, owed, targets, deploying, pc, asked, sent, ops, head, cont, spent>>
      /\ deploying /\ phase = "begin" /\ pc = "run" /\ phase' = Following
      /\ prep' = [gen |-> epoch, at |-> "preparing"]
  BY Zenon DEF BeginPreparation, owner, agent
<1>f. kind = "deploy" /\ phase' = "fencing" /\ prep.gen = 0
  <2>1. kind = "deploy" /\ prep.gen = 0
    BY <1>t, <1>k DEF Recorded
  <2> QED  BY <1>k, <2>1, FollowingDeploy
<1>d. deploying'
  BY <1>k, Zenon
<1>1. PanelTypes'
  BY <1>t, <1>k, <1>f DEF PanelTypes
<1>2. Phased' /\ Behind'
  BY <1>t, <1>k, <1>f DEF Phased, Behind
<1>3. Recorded'
  <2>1. prep'.gen = epoch /\ epoch <= epoch
    BY <1>k, <1>t DEF Gen
  <2> QED  BY <1>d, <1>k, <1>f, <2>1 DEF Recorded
<1>4. Waiting' /\ Answered'
  BY <1>d, <1>k DEF Waiting, Answered
<1> QED
  BY <1>k, <1>f, <1>1, <1>2, <1>3, <1>4, Unsent DEF Kept, PanelInv

LEMMA StepPrepared == ASSUME NodeInv, Prepared PROVE NodeInv'
<1>t. PanelTypes /\ Phased /\ Recorded /\ Waiting
  BY DEF NodeInv, TypeOK, PanelInv, PanelTypes
<1>k. /\ UNCHANGED <<epoch, kind, owed, targets, deploying, asked, sent, ops, head, cont, spent>>
      /\ deploying /\ pc = "ok" /\ pc' = "run" /\ phase' = Following
      /\ prep' = IF asked.op = "prepare" THEN [prep EXCEPT !.at = "prepared"] ELSE prep
  BY Zenon DEF Prepared, agent
<1>p. prep'.gen = prep.gen /\ prep' \in [gen : Gen, at : {"preparing", "prepared", "fencing", "retiring"}]
  BY <1>t, <1>k DEF PanelTypes
<1>f. /\ kind = "deploy" /\ prep.gen = epoch
      /\ \/ phase = "fencing" /\ phase' = "preparing"
         \/ phase = "preparing" /\ phase' = "completed"
  <2>1. kind = "deploy" /\ phase \in {"fencing", "preparing"}
    BY <1>t, <1>k DEF Recorded, Waiting, Suits
  <2>2. prep.gen = epoch
    BY <1>t, <1>k, <2>1 DEF Recorded
  <2> QED  BY <1>k, <2>1, <2>2, FollowingDeploy
<1>d. deploying'
  BY <1>k, Zenon
<1>1. PanelTypes'
  BY <1>t, <1>k, <1>p, <1>f DEF PanelTypes
<1>2. Phased' /\ Behind'
  BY <1>t, <1>k, <1>f DEF Phased, Behind
<1>3. Recorded'
  <2>1. prep.gen <= epoch
    BY <1>t DEF Recorded
  <2> QED  BY <1>d, <1>k, <1>f, <1>p, <2>1 DEF Recorded
<1>4. Waiting' /\ Answered'
  BY <1>d, <1>k DEF Waiting, Answered
<1> QED
  BY <1>k, <1>p, <1>f, <1>1, <1>2, <1>3, <1>4, Unsent DEF Kept, PanelInv

LEMMA StepDeployEnds == ASSUME NodeInv, DeployEnds PROVE NodeInv'
<1>t. PanelTypes /\ Phased /\ Recorded /\ sent \in Nat
  BY DEF NodeInv, TypeOK, PanelInv, PanelTypes
<1>k. /\ UNCHANGED <<epoch, kind, owed, targets, prep, sent, ops, head, cont, spent>>
      /\ deploying /\ deploying' = FALSE /\ pc' = "free" /\ phase' = "completed"
      /\ asked' = [id |-> 0, op |-> "none"]
  BY Zenon DEF DeployEnds, agent
<1>f. kind = "deploy"
  BY <1>t, <1>k DEF Recorded
<1>1. PanelTypes'
  <2>1. deploying' \in BOOLEAN
    BY <1>k, Zenon
  <2>2. asked' \in [id : 0..sent', op : Ops \cup {"none"}]
    BY <1>k, <1>t
  <2> QED  BY <1>t, <1>k, <2>1, <2>2 DEF PanelTypes
<1>2. Phased' /\ Behind'
  BY <1>t, <1>k, <1>f DEF Phased, Behind
<1>3. Recorded'
  BY <1>t, <1>k, <1>f DEF Recorded
<1>4. Waiting' /\ Answered'
  BY <1>k DEF Waiting, Answered
<1> QED
  BY <1>k, <1>f, <1>1, <1>2, <1>3, <1>4, Unsent DEF Kept, PanelInv

LEMMA StepRecover == ASSUME NodeInv, Recover PROVE NodeInv'
<1>t. PanelTypes /\ Phased /\ Recorded
  BY DEF NodeInv, TypeOK, PanelInv, PanelTypes
<1>k. /\ UNCHANGED <<epoch, kind, phase, owed, targets, deploying, asked, sent, ops, head, cont, spent>>
      /\ kind = "deploy" /\ prep.gen = epoch /\ prep.at # "preparing" /\ pc' = "run"
      /\ prep' = IF prep.at = "prepared" THEN [prep EXCEPT !.at = "fencing"] ELSE prep
  BY DEF Recover, Recoverable, agent
<1>d. ~deploying'
  <2>1. ~deploying
    BY Zenon DEF Recover, Recoverable
  <2> QED  BY <1>k, <2>1
<1>p. /\ prep'.gen = prep.gen /\ prep'.at \in {"fencing", "retiring"}
      /\ prep' \in [gen : Gen, at : {"preparing", "prepared", "fencing", "retiring"}]
  BY <1>t, <1>k DEF PanelTypes
<1>1. PanelTypes'
  BY <1>t, <1>k, <1>p DEF PanelTypes
<1>2. Phased' /\ Behind'
  BY <1>t, <1>k DEF Phased, Behind
<1>3. Recorded'
  BY <1>t, <1>k, <1>d, <1>p DEF Recorded
<1>4. Waiting' /\ Answered'
  BY <1>k, <1>p DEF Waiting, Answered
<1> QED
  BY <1>k, <1>p, <1>1, <1>2, <1>3, <1>4, Unsent DEF Kept, PanelInv

\* The candidate is gone, and its prepare is behind the head of its retirement.
LEMMA StepRecoverAdvance == ASSUME NodeInv, RecoverAdvance PROVE NodeInv'
<1>t. /\ PanelTypes /\ Phased /\ Recorded /\ Waiting /\ Answered /\ Requests /\ Receipts
      /\ epoch \in Nat /\ 0 \in Gen
  BY NodeLifecycleAssumption DEF NodeInv, TypeOK, PanelInv, PanelTypes, AgentInv, Gen
<1>k. /\ UNCHANGED <<epoch, kind, phase, owed, targets, deploying, asked, sent, ops, head, cont, spent>>
      /\ kind = "deploy" /\ prep.gen = epoch /\ pc = "ok"
      /\ \/ prep.at = "fencing" /\ prep' = [prep EXCEPT !.at = "retiring"] /\ pc' = "run"
         \/ prep.at # "fencing" /\ prep' = [prep EXCEPT !.gen = 0] /\ pc' = "free"
  BY DEF RecoverAdvance, Recoverable, agent
<1>d. ~deploying /\ deploying' = deploying
  BY <1>k, Zenon DEF RecoverAdvance, Recoverable
<1>p. /\ prep' \in [gen : Gen, at : {"preparing", "prepared", "fencing", "retiring"}]
      /\ \/ prep.at = "fencing" /\ prep'.gen = epoch /\ prep'.at = "retiring" /\ pc' = "run"
         \/ prep.at # "fencing" /\ prep'.gen = 0 /\ pc' = "free"
  BY <1>t, <1>k DEF PanelTypes
<1>1. PanelTypes'
  BY <1>t, <1>k, <1>p DEF PanelTypes
<1>2. Phased' /\ Behind'
  BY <1>t, <1>k DEF Phased, Behind
<1>3. Recorded'
  BY <1>t, <1>k, <1>d, <1>p DEF Recorded
<1>4. Waiting' /\ Answered'
  BY <1>k, <1>p DEF Waiting, Answered
<1>5. ASSUME prep.at # "fencing"
      PROVE  head.rev > 4 * prep.gen + 1 /\ (Whole => cont[prep.gen] = "none")
  <2>1. asked.op = "retire"
    BY <1>5, <1>t, <1>k, <1>d DEF Waiting, Suits
  <2>2. head.rev = 4 * epoch + 3 /\ head.op = "retire" /\ head.receipt
    BY <1>t, <1>k, <2>1 DEF Answered
  <2>3. head.on = {epoch}
    <3>1. epoch > 0
      BY <1>t, <1>k DEF Phased
    <3> QED  BY <1>t, <1>k, <2>2, <3>1 DEF Requests, Fits, FitsDeploy, Mine
  <2> QED  BY <1>t, <1>k, <2>2, <2>3 DEF Receipts
<1> QED
  BY <1>k, <1>p, <1>1, <1>2, <1>3, <1>4, <1>5, Unsent DEF Kept, PanelInv
-----------------------------------------------------------------------------
(* The agent                                                               *)

\* A step of the agent for a request.
AgentStep(o) == Serve(o) \/ Fails(o) \/ Orphan(o) \/ OrphanLands(o)
OpType == [id : 1..sent, rev : 4..(4 * epoch + 3), op : Ops, on : SUBSET Gen,
           at : {"sent", "claimed", "docker", "acted", "orphan"}]

\* The agent writes nothing of the panel's, and answers who waits for it.
LEMMA AgentFrame ==
    ASSUME NodeInv, NEW o \in ops, AgentStep(o)
    PROVE  /\ UNCHANGED <<epoch, kind, phase, owed, targets, deploying, prep, asked, sent>>
           /\ spent' \in [fault : 0..MaxFaults, orphan : 0..MaxOrphans]
           /\ Whole' => Whole
           /\ pc' = pc \/ (pc = "wait" /\ o.id = asked.id /\ pc' \in {"ok", "error"})
           /\ \/ ops' = ops \ {o}
              \/ \E a \in {"claimed", "docker", "acted", "orphan"} : Move(o, a)
<1>t. /\ spent \in [fault : 0..MaxFaults, orphan : 0..MaxOrphans]
      /\ MaxFaults \in Nat /\ MaxOrphans \in Nat
  BY NodeLifecycleAssumption DEF NodeInv, TypeOK
<1>1. /\ UNCHANGED <<panel, asked, sent>>
      /\ \/ ops' = ops \ {o}
         \/ \E a \in {"claimed", "docker", "acted", "orphan"} : Move(o, a)
      /\ pc' = pc \/ (pc = "wait" /\ o.id = asked.id /\ pc' \in {"ok", "error"})
  BY DEF AgentStep, Serve, Claim, Effect, Docker, Commit, Fails, Orphan, OrphanLands, Reply, owner
<1>2. \/ spent' = spent \/ Fault
      \/ spent.orphan < MaxOrphans /\ spent' = [spent EXCEPT !.orphan = @ + 1]
  BY DEF AgentStep, Serve, Claim, Effect, Docker, Commit, Fails, Orphan, OrphanLands
<1>3. spent' \in [fault : 0..MaxFaults, orphan : 0..MaxOrphans] /\ (spent'.orphan = 0 => spent.orphan = 0)
  <2>1. CASE spent' = spent
    BY <1>t, <2>1
  <2>2. CASE Fault
    BY <1>t, <2>2 DEF Fault
  <2>3. CASE spent.orphan < MaxOrphans /\ spent' = [spent EXCEPT !.orphan = @ + 1]
    BY <1>t, <2>3
  <2> QED  BY <1>2, <2>1, <2>2, <2>3
<1> QED
  BY <1>1, <1>3 DEF panel, Whole

\* The requests of the next state are those of this one, further on.
LEMMA AgentOps ==
    ASSUME NodeInv, NEW o \in ops, AgentStep(o)
    PROVE  /\ ops' \subseteq OpType'
           /\ \A q \in ops' : \E r \in ops : /\ q.id = r.id /\ q.rev = r.rev /\ q.op = r.op /\ q.on = r.on
                                             /\ q = r \/ r = o
           /\ OneOfId'
<1>t. ops \subseteq OpType /\ OpType' = OpType
  BY AgentFrame DEF NodeInv, TypeOK, OpType
<1>o. OneOfId
  BY DEF NodeInv, AgentInv
<1>1. CASE ops' = ops \ {o}
  BY <1>t, <1>o, <1>1 DEF OneOfId
<1>2. ASSUME NEW a \in {"claimed", "docker", "acted", "orphan"}, Move(o, a)
      PROVE  /\ ops' \subseteq OpType'
             /\ \A q \in ops' : \E r \in ops : /\ q.id = r.id /\ q.rev = r.rev /\ q.op = r.op /\ q.on = r.on
                                               /\ q = r \/ r = o
             /\ OneOfId'
  <2>1. PICK n : n = [o EXCEPT !.at = a]
    OBVIOUS
  <2>2. n \in OpType /\ n.id = o.id /\ n.rev = o.rev /\ n.op = o.op /\ n.on = o.on
    BY <1>t, <2>1 DEF OpType
  <2>3. ops' = (ops \ {o}) \cup {n}
    BY <1>2, <2>1 DEF Move
  <2>4. OneOfId'
    BY <1>o, <2>2, <2>3 DEF OneOfId
  <2> QED  BY <1>t, <2>2, <2>3, <2>4
<1> QED
  BY <1>1, <1>2, AgentFrame

\* Who becomes the head, and who gets a receipt.
LEMMA HeadMoves ==
    ASSUME NodeInv, NEW o \in ops, AgentStep(o)
    PROVE  \/ head' = head
           \/ /\ Heads(o) /\ head' = [head EXCEPT !.receipt = TRUE] /\ cont' = cont
              /\ o.op = "fence" \/ head.receipt \/ \A g \in o.on : cont[g] = Goal(o.op)
              /\ ops' = ops \ {o} /\ \A q \in ops' : ~Busy(q)
           \/ /\ head.rev < o.rev /\ o.op # "drop" /\ cont' = cont /\ Move(o, "claimed")
              /\ head' = [rev |-> o.rev, op |-> o.op, on |-> o.on, receipt |-> FALSE]
              /\ \A q \in ops' : ~Busy(q)
<1>d. Docked
  BY DEF NodeInv, AgentInv
<1>1. CASE Claim(o)
  <2>1. ~Locked /\ o.at = "sent"
    BY <1>1 DEF Claim
  <2>2. CASE Move(o, "claimed")
    <3>1. \A q \in ops' : ~Busy(q)
      <4>1. [o EXCEPT !.at = "claimed"].at = "claimed"
        BY DEF NodeInv, TypeOK
      <4> QED  BY <2>1, <2>2, <4>1 DEF Move, Locked, Busy
    <3>2. head' = head \/ (/\ head.rev < o.rev /\ o.op # "drop" /\ cont' = cont
                           /\ head' = [rev |-> o.rev, op |-> o.op, on |-> o.on, receipt |-> FALSE])
      BY <1>1 DEF Claim, Admits
    <3> QED  BY <2>2, <3>1, <3>2
  <2> QED  BY <1>1, <2>2 DEF Claim
<1>2. CASE Effect(o)
  <2>1. ~Locked
    BY <1>2 DEF Effect
  <2>2. \A q \in ops \ {o} : ~Busy(q)
    BY <2>1 DEF Locked, Busy
  <2> QED  BY <1>2, <2>2 DEF Effect, Reply
<1>3. CASE Commit(o)
  <2>1. Busy(o) /\ ops' = ops \ {o} /\ cont' = cont
    BY <1>3 DEF Commit, Busy, Reply
  <2>2. (o.op # "drop" => Heads(o)) /\ \A q \in ops \ {o} : ~Busy(q)
    BY <1>d, <2>1 DEF Docked
  <2> QED  BY <1>3, <2>1, <2>2 DEF Commit
<1>4. CASE Docker(o) \/ Fails(o) \/ Orphan(o) \/ OrphanLands(o)
  BY <1>4 DEF Docker, Fails, Orphan, OrphanLands
<1> QED
  BY <1>1, <1>2, <1>3, <1>4 DEF AgentStep, Serve

\* What a request can make of a container.
Reach(op, state) ==
    IF state = "none" THEN IF op = "prepare" THEN {"down", "up"} ELSE {"none"}
    ELSE CASE op \in {"start", "prepare"} -> {"down", "up"}
           [] op = "stop" -> {"down"}
           [] op = "drop" -> {"none"}
           [] OTHER -> {"down", "none"}

\* Docker works for a request that is at docker, or has outlived its agent.
LEMMA ContMoves ==
    ASSUME NodeInv, NEW o \in ops, AgentStep(o)
    PROVE  /\ cont' \in [Gen -> {"none", "down", "up"}]
           /\ \/ cont' = cont
              \/ /\ o.at \in {"docker", "orphan"} /\ head' = head
                 /\ \A g \in Gen : cont'[g] = cont[g] \/ (g \in o.on /\ cont'[g] \in Reach(o.op, cont[g]))
<1>t. cont \in [Gen -> {"none", "down", "up"}] /\ o.op \in Ops /\ o.on \subseteq Gen
  BY DEF NodeInv, TypeOK
<1>s. \A g \in Gen : cont[g] \in {"none", "down", "up"}
  BY <1>t
<1>1. CASE /\ Accepts(o) /\ cont' \in Partly(o) /\ o.at = "docker" /\ head' = head
  <2>1. ASSUME NEW g \in Gen, cont'[g] # cont[g] PROVE g \in o.on /\ cont'[g] \in Reach(o.op, cont[g])
    <3>1. g \in o.on /\ cont'[g] \in Halfway(o.op, cont[g])
      BY <1>1, <2>1 DEF Partly
    <3>2. /\ o.op \in {"stop", "start"} => cont[g] # "none"
          /\ o.op = "drop" => cont[g] # "up"
      BY <1>1, <3>1 DEF Accepts
    <3> QED  BY <1>s, <1>t, <2>1, <3>1, <3>2 DEF Halfway, Goal, Reach, Ops
  <2> QED  BY <1>1, <2>1 DEF Partly
<1>2. CASE Docker(o)
  <2>1. CASE Accepts(o)
    <3>1. /\ cont' = [g \in Gen |-> IF g \in o.on THEN Goal(o.op) ELSE cont[g]]
          /\ o.at = "docker" /\ head' = head
      BY <1>2, <2>1 DEF Docker
    <3>2. Goal(o.op) \in {"none", "down", "up"}
      BY DEF Goal
    <3>3. \A g \in Gen : cont'[g] \in IF g \in o.on THEN Halfway(o.op, cont[g]) ELSE {cont[g]}
      BY <3>1 DEF Halfway
    <3> QED  BY <1>1, <1>t, <2>1, <3>1, <3>2, <3>3 DEF Partly
  <2>2. CASE ~Accepts(o)
    BY <1>2, <1>t, <2>2 DEF Docker
  <2> QED  BY <2>1, <2>2
<1>3. CASE Fails(o) \/ Orphan(o)
  <2>1. \/ cont' = cont
        \/ /\ Accepts(o) /\ cont' \in Partly(o) /\ o.at = "docker" /\ head' = head
    BY <1>3 DEF Fails, Orphan
  <2> QED  BY <1>1, <1>t, <2>1
<1>4. CASE OrphanLands(o)
  <2>1. /\ cont' \in [Gen -> {"none", "down", "up"}] /\ o.at = "orphan" /\ head' = head
        /\ \A g \in Gen : cont'[g] # cont[g] => g \in o.on /\ cont'[g] \in Landing(o.op, cont[g])
    BY <1>4 DEF OrphanLands
  <2>2. ASSUME NEW g \in Gen, cont'[g] # cont[g] PROVE cont'[g] \in Reach(o.op, cont[g])
    BY <1>s, <1>t, <2>1, <2>2 DEF Landing, Goal, Reach, Ops
  <2> QED  BY <2>1, <2>2
<1>5. CASE Claim(o) \/ Effect(o) \/ Commit(o)
  <2>1. cont' = cont
    BY <1>5 DEF Claim, Effect, Commit
  <2> QED  BY <1>t, <2>1
<1> QED
  BY <1>2, <1>3, <1>4, <1>5 DEF AgentStep, Serve
LEMMA StepRequests == ASSUME NodeInv, NEW o \in ops, AgentStep(o) PROVE Requests'
<1>t. /\ Requests /\ head.rev \in Nat /\ \A q \in ops : q.rev \in Nat
  <2>1. 4 \in Nat /\ epoch \in Nat
    BY NodeLifecycleAssumption DEF NodeInv, TypeOK
  <2> QED  BY <2>1 DEF NodeInv, TypeOK, AgentInv
<1>k. UNCHANGED <<epoch, kind, phase, owed, targets, deploying, prep, asked, sent>>
  BY AgentFrame
<1>h. head'.rev \in Nat /\ head.rev <= head'.rev
  <2>1. CASE head' = [head EXCEPT !.receipt = TRUE]
    BY <1>t, <2>1 DEF NodeInv, TypeOK
  <2> QED  BY <1>t, <2>1, HeadMoves
<1>1. ASSUME NEW q, NEW x \in ops, q.rev = x.rev, q.op = x.op, q.on = x.on PROVE Fits(q)'
  <2>1. Fits(x)
    BY <1>t DEF Requests
  <2> QED  BY <1>k, <1>1, <2>1 DEF Fits, FitsStop, FitsStart, FitsRestart, FitsDeploy, Mine
<1>2. ASSUME NEW q, NEW x \in ops, q.rev = x.rev, q.op = x.op, q.on = x.on PROVE Shaped(q)'
  <2>1. Shaped(x) /\ x.on \subseteq Nat
    BY <1>t, NodeLifecycleAssumption DEF Requests, NodeInv, TypeOK, Gen
  <2>2. \A g \in x.on : head.rev > 4 * g + 1 => head'.rev > 4 * g + 1
    BY <1>t, <1>h, <2>1
  <2> QED  BY <1>k, <1>2, <2>1, <2>2 DEF Shaped
<1>3. \A q \in ops' : Fits(q)' /\ Shaped(q)'
  BY <1>1, <1>2, AgentOps
<1>4. Fits(head)' /\ Shaped(head)' /\ head'.op # "drop"
  <2>1. CASE head'.rev = head.rev /\ head'.op = head.op /\ head'.on = head.on
    BY <1>t, <1>k, <2>1 DEF Requests, Fits, FitsStop, FitsStart, FitsRestart, FitsDeploy, Mine, Shaped
  <2>2. CASE head'.rev = o.rev /\ head'.op = o.op /\ head'.on = o.on /\ o.op # "drop"
    <3>1. Fits(o) /\ Shaped(o)
      BY <1>t DEF Requests
    <3>2. Fits(head)'
      BY <1>k, <2>2, <3>1 DEF Fits, FitsStop, FitsStart, FitsRestart, FitsDeploy, Mine
    <3>3. \A g \in o.on : head.rev > 4 * g + 1 => head'.rev > 4 * g + 1
      <4>1. o.on \subseteq Nat
        BY NodeLifecycleAssumption DEF NodeInv, TypeOK, Gen
      <4> QED  BY <1>t, <1>h, <4>1
    <3>4. Shaped(head)'
      BY <1>k, <2>2, <3>1, <3>3 DEF Shaped
    <3> QED  BY <2>2, <3>2, <3>4
  <2>3. \/ head'.rev = head.rev /\ head'.op = head.op /\ head'.on = head.on
        \/ head'.rev = o.rev /\ head'.op = o.op /\ head'.on = o.on /\ o.op # "drop"
    <3>1. head' = [head EXCEPT !.receipt = TRUE] => head'.rev = head.rev /\ head'.op = head.op /\ head'.on = head.on
      BY DEF NodeInv, TypeOK
    <3> QED  BY <3>1, HeadMoves
  <2> QED  BY <2>1, <2>2, <2>3
<1> QED
  BY <1>3, <1>4 DEF Requests

\* The journal's transaction lets one request at a time into docker.
LEMMA StepDocked == ASSUME NodeInv, NEW o \in ops, AgentStep(o) PROVE Docked'
<1>d. Docked /\ ops \subseteq OpType
  BY DEF NodeInv, AgentInv, TypeOK, OpType
<1>1. CASE \A q \in ops' : ~Busy(q)
  BY <1>1 DEF Docked, Busy
<1>2. CASE head' = head
  <2>2. CASE ops' = ops \ {o}
    BY <1>2, <1>d, <2>2 DEF Docked, Busy, Covered, Heads
  <2>3. ASSUME NEW a \in {"claimed", "docker", "acted", "orphan"}, Move(o, a) PROVE Docked'
    <3>1. PICK n : n = [o EXCEPT !.at = a]
      OBVIOUS
    <3>2. n.at = a /\ n.rev = o.rev /\ n.op = o.op /\ n.on = o.on
      BY <1>d, <3>1 DEF OpType
    <3>3. ops' = (ops \ {o}) \cup {n}
      BY <2>3, <3>1 DEF Move
    <3>4. CASE ~Busy(n)
      BY <1>2, <1>d, <3>3, <3>4 DEF Docked, Busy, Covered, Heads
    <3>5. CASE Busy(n) /\ Busy(o)
      <4>1. /\ o.op # "fence" /\ (o.op = "drop" => Covered(o)) /\ (o.op # "drop" => Heads(o) /\ ~head.receipt)
            /\ \A q \in ops : Busy(q) => q = o
        BY <1>d, <3>5 DEF Docked
      <4>2. \A q \in ops' : Busy(q) => q = n
        BY <3>3, <4>1
      <4>3. /\ n.op # "fence" /\ (n.op = "drop" => Covered(n)') /\ (n.op # "drop" => Heads(n)' /\ ~head'.receipt)
        BY <1>2, <3>2, <4>1 DEF Covered, Heads
      <4> QED  BY <4>2, <4>3 DEF Docked, Busy
    <3>6. CASE Busy(n) /\ ~Busy(o)
      <4>1. Effect(o) /\ a = "docker"
        <5>1. a \in {"docker", "acted"} /\ o.at \notin {"docker", "acted"}
          BY <3>2, <3>6 DEF Busy
        <5>2. n # o /\ n \in ops'
          BY <3>2, <3>3, <5>1
        <5>3. n \notin ops
          BY <3>1, <5>2, <1>d, <3>2 DEF NodeInv, AgentInv, OneOfId, OpType
        <5>4. ops' # ops \ {o}
          BY <5>2, <5>3
        <5>5. \A b : Move(o, b) => [o EXCEPT !.at = b] = n
          BY <3>3, <5>2, <5>3 DEF Move
        <5>6. \A b : [o EXCEPT !.at = b].at = b
          BY <1>d DEF OpType
        <5>7. \A b : Move(o, b) => b = a
          BY <3>2, <5>5, <5>6
        <5>8. ~Claim(o)
          BY <5>1, <5>4, <5>7 DEF Claim, Reply
        <5>9. ~Docker(o) /\ ~Commit(o) /\ ~Fails(o) /\ ~Orphan(o) /\ ~OrphanLands(o)
          BY <5>1, <5>4 DEF Docker, Commit, Fails, Orphan, OrphanLands, Reply
        <5>10. Effect(o)
          BY <5>8, <5>9 DEF AgentStep, Serve
        <5>11. Move(o, "docker")
          BY <5>4, <5>10 DEF Effect, Reply
        <5> QED  BY <5>7, <5>10, <5>11
      <4>2. /\ ~Locked
            /\ IF o.op = "drop" THEN Covered(o) ELSE Heads(o) /\ ~head.receipt /\ o.op # "fence"
        <5>1. ops' # ops \ {o}
          <6>1. n \in ops' /\ Busy(n) /\ (n \in ops => n = o)
            BY <3>3, <3>6, <1>d, <3>1 DEF NodeInv, AgentInv, OneOfId, OpType
          <6> QED  BY <3>6, <6>1
        <5> QED  BY <4>1, <5>1 DEF Effect, Reply
      <4>3. \A q \in ops' : Busy(q) => q = n
        BY <3>3, <4>2 DEF Locked, Busy
      <4>4. /\ n.op # "fence" /\ (n.op = "drop" => Covered(n)') /\ (n.op # "drop" => Heads(n)' /\ ~head'.receipt)
        BY <1>2, <3>2, <4>2 DEF Covered, Heads
      <4> QED  BY <4>3, <4>4 DEF Docked, Busy
    <3> QED  BY <3>4, <3>5, <3>6
  <2> QED  BY <2>2, <2>3, AgentFrame
<1> QED
  BY <1>1, <1>2, HeadMoves

\* As long as no command outlived its agent, docker works only for the head and for
\* removals under it.
LEMMA WholeMoves ==
    ASSUME NodeInv, NEW o \in ops, AgentStep(o), Whole', cont' # cont
    PROVE  /\ o.rev = head.rev /\ o.op # "fence" /\ head' = head
           /\ o.op = "drop" => head.op = "stop" /\ head.receipt
           /\ o.op # "drop" => Heads(o) /\ ~head.receipt
           /\ \A g \in Gen : cont'[g] = cont[g] \/ (g \in o.on /\ cont'[g] \in Reach(o.op, cont[g]))
<1>1. o.at # "orphan"
  BY AgentFrame DEF NodeInv, AgentInv, Unorphaned
<1>2. Busy(o)
  BY <1>1, ContMoves DEF Busy
<1>3. /\ o.op # "fence" /\ (o.op = "drop" => Covered(o)) /\ (o.op # "drop" => Heads(o) /\ ~head.receipt)
  BY <1>2 DEF NodeInv, AgentInv, Docked
<1> QED
  BY <1>3, ContMoves DEF Covered, Heads

\* Docker creates a candidate only for a prepare that heads the journal.
LEMMA StepCont == ASSUME NodeInv, NEW o \in ops, AgentStep(o) PROVE ContInv'
<1>t. Shaped(o) /\ Shaped(head) /\ 0 \in Gen /\ ContInv
  BY NodeLifecycleAssumption DEF NodeInv, AgentInv, Requests, Gen
<1>k. prep' = prep
  BY AgentFrame
<1>1. cont'[0] # "none"
  <2>1. cont[0] # "none"
    BY <1>t DEF ContInv
  <2>2. ASSUME 0 \in o.on, cont'[0] \in Reach(o.op, cont[0]) PROVE cont'[0] # "none"
    <3>1. o.op \in Ops
      BY DEF NodeInv, TypeOK
    <3>2. o.op \notin {"fence", "retire", "drop"}
      BY <1>t, <2>2 DEF Shaped
    <3> QED  BY <2>1, <2>2, <3>1, <3>2 DEF Reach, Ops
  <2> QED  BY <1>t, <2>1, <2>2, ContMoves
<1>2. ASSUME Whole', NEW g \in Gen \ {0}, cont'[g] # "none" PROVE prep.gen = g
  <2>1. CASE cont[g] # "none"
    BY <1>t, <1>2, <2>1, AgentFrame DEF ContInv, CandidateIsRecorded, Whole
  <2>2. CASE cont[g] = "none"
    <3>1. cont' # cont
      BY <1>2, <2>2
    <3>2. o.rev = head.rev /\ g \in o.on /\ cont'[g] \in Reach(o.op, "none")
      BY <1>2, <2>2, <3>1, WholeMoves
    <3>3. o.op = "prepare"
      BY <1>2, <3>2 DEF Reach
    <3>4. o.rev = 4 * g + 1 /\ (prep.gen = g \/ head.rev > 4 * g + 1)
      BY <1>t, <3>2, <3>3 DEF Shaped
    <3>5. head.rev \in Nat
      BY NodeLifecycleAssumption DEF NodeInv, TypeOK
    <3> QED  BY <3>2, <3>4, <3>5
  <2> QED  BY <2>1, <2>2
<1>3. CandidateIsRecorded'
  BY <1>k, <1>2 DEF CandidateIsRecorded, Whole
<1> QED
  BY <1>1, <1>3 DEF ContInv

\* Docker works against no receipt.
LEMMA StepReceipts == ASSUME NodeInv, NEW o \in ops, AgentStep(o) PROVE Receipts'
<1>1. SUFFICES ASSUME Whole', head'.receipt, NEW g \in head'.on
               PROVE  /\ head'.op = "retire" => cont'[g] = "none"
                      /\ head'.op = "start" => cont'[g] = "up"
                      /\ head'.op = "stop" => cont'[g] # "up"
  BY DEF Receipts
<1>w. Whole /\ Receipts
  BY <1>1, AgentFrame DEF NodeInv, AgentInv
<1>t. head \in [rev : 0..(4 * epoch + 3), op : Ops \cup {"none"}, on : SUBSET Gen, receipt : BOOLEAN]
  BY DEF NodeInv, TypeOK
<1>2. CASE head' = head
  <2>1. /\ head.op = "retire" => cont[g] = "none"
        /\ head.op = "start" => cont[g] = "up"
        /\ head.op = "stop" => cont[g] # "up"
    BY <1>1, <1>2, <1>w DEF Receipts
  <2>2. CASE cont' = cont
    BY <1>2, <2>1, <2>2
  <2>3. CASE cont' # cont
    <3>1. o.op = "drop" /\ head.op = "stop"
      BY <1>1, <1>2, <2>3, WholeMoves
    <3>2. g \in Gen /\ (cont'[g] = cont[g] \/ cont'[g] = "none")
      BY <1>1, <1>2, <1>t, <2>3, <3>1, WholeMoves DEF Reach
    <3> QED  BY <1>2, <2>1, <3>1, <3>2
  <2> QED  BY <2>2, <2>3
<1>3. CASE /\ Heads(o) /\ head' = [head EXCEPT !.receipt = TRUE] /\ cont' = cont
           /\ o.op = "fence" \/ head.receipt \/ \A h \in o.on : cont[h] = Goal(o.op)
  <2>1. head'.op = head.op /\ head'.on = head.on /\ head.op = o.op /\ head.on = o.on
    BY <1>3, <1>t DEF Heads
  <2>2. CASE head.receipt
    BY <1>1, <1>3, <1>w, <2>1, <2>2 DEF Receipts
  <2>3. CASE \A h \in o.on : cont[h] = Goal(o.op)
    <3>1. cont[g] = Goal(o.op)
      BY <1>1, <2>1, <2>3
    <3> QED  BY <1>3, <2>1, <3>1 DEF Goal
  <2>4. CASE o.op = "fence"
    BY <2>1, <2>4
  <2> QED  BY <1>3, <2>2, <2>3, <2>4
<1>4. CASE head' = [rev |-> o.rev, op |-> o.op, on |-> o.on, receipt |-> FALSE]
  BY <1>1, <1>4
<1> QED
  BY <1>2, <1>3, <1>4, HeadMoves

\* An answer: the receipt of the request, or of the stop a removal belongs to.
LEMMA Answers ==
    ASSUME NodeInv, NEW o \in ops, AgentStep(o), pc' = "ok", pc # "ok"
    PROVE  /\ pc = "wait" /\ o.id = asked.id
           /\ o.op # "drop" => Heads(o) /\ head' = [head EXCEPT !.receipt = TRUE]
           /\ o.op = "drop" => /\ Covered(o) /\ head' = head /\ cont' = cont
                               /\ \A g \in o.on : g \in Gen => cont[g] = "none"
<1>1. pc = "wait" /\ o.id = asked.id
  BY AgentFrame
<1>d. head.op # "drop" /\ Docked /\ head \in [rev : 0..(4 * epoch + 3), op : Ops \cup {"none"}, on : SUBSET Gen, receipt : BOOLEAN]
  BY DEF NodeInv, AgentInv, Requests, TypeOK
<1>2. CASE Effect(o)
  <2>1. Heads(o) /\ head' = [head EXCEPT !.receipt = TRUE]
    BY <1>2, <1>1 DEF Effect, Reply, owner
  <2> QED  BY <1>1, <1>d, <2>1 DEF Heads
<1>3. CASE Commit(o)
  <2>1. /\ (\A g \in o.on : cont[g] = Goal(o.op)) /\ cont' = cont /\ Busy(o)
        /\ head' = IF o.op = "drop" THEN head ELSE [head EXCEPT !.receipt = TRUE]
    BY <1>3, <1>1 DEF Commit, Reply, Busy
  <2>2. /\ o.op = "drop" => Covered(o)
        /\ o.op # "drop" => Heads(o)
    BY <1>d, <2>1 DEF Docked
  <2>3. o.op = "drop" => \A g \in o.on : g \in Gen => cont[g] = "none"
    BY <2>1 DEF Goal
  <2> QED  BY <1>1, <2>1, <2>2, <2>3
<1>4. ~Claim(o) /\ ~Docker(o) /\ ~Fails(o) /\ ~Orphan(o) /\ ~OrphanLands(o)
  BY <1>1 DEF Claim, Docker, Fails, Orphan, OrphanLands, Reply, owner
<1> QED
  BY <1>2, <1>3, <1>4 DEF AgentStep, Serve

\* Once the newest mutation is at the head, only its own requests come after.
LEMMA HeadIsMine ==
    ASSUME NodeInv, NEW o \in ops, AgentStep(o), head.rev >= 4 * epoch
    PROVE  /\ head'.rev >= 4 * epoch
           /\ kind = "stop" /\ Stopped => Stopped'
           /\ kind \in {"start", "restart"} /\ Started => Started'
           /\ head.rev = 4 * epoch + 3 /\ head.op = "retire" /\ head.receipt =>
                  head'.rev = 4 * epoch + 3 /\ head'.op = "retire" /\ head'.receipt
           /\ kind = "stop" /\ Whole' => \A g \in Gen : cont[g] = "none" => cont'[g] = "none"
<1>t. /\ epoch \in Nat /\ head.rev \in Nat /\ o.rev \in 4..(4 * epoch + 3) /\ Fits(o) /\ Fits(head)
      /\ head \in [rev : 0..(4 * epoch + 3), op : Ops \cup {"none"}, on : SUBSET Gen, receipt : BOOLEAN]
  BY NodeLifecycleAssumption DEF NodeInv, TypeOK, AgentInv, Requests
<1>e. epoch > 0 /\ epoch' = epoch
  <2>1. ASSUME epoch = 0 PROVE FALSE
    BY <1>t, <2>1
  <2> QED  BY <1>t, <2>1, AgentFrame
<1>1. \/ head' = head
      \/ head' = [head EXCEPT !.receipt = TRUE]
      \/ head.rev < o.rev /\ head' = [rev |-> o.rev, op |-> o.op, on |-> o.on, receipt |-> FALSE]
  BY HeadMoves
<1>2. head'.rev >= 4 * epoch
  BY <1>1, <1>t
<1>3. /\ kind = "stop" /\ Stopped => Stopped'
      /\ kind \in {"start", "restart"} /\ Started => Started'
      /\ head.rev = 4 * epoch + 3 /\ head.op = "retire" /\ head.receipt =>
             head'.rev = 4 * epoch + 3 /\ head'.op = "retire" /\ head'.receipt
  <2>1. CASE head' = head \/ head' = [head EXCEPT !.receipt = TRUE]
    <3>1. head'.rev = head.rev /\ head'.op = head.op /\ (head.receipt => head'.receipt)
      BY <1>t, <2>1
    <3> QED  BY <1>e, <3>1 DEF Stopped, Started
  <2>2. CASE head.rev < o.rev
    <3>1. Mine(o) /\ Mine(head)
      BY <1>t, <1>e, <2>2 DEF Mine
    <3>2. kind = "stop" /\ Stopped => FALSE
      BY <1>t, <2>2, <3>1 DEF Fits, FitsStop, Stopped
    <3>3. kind \in {"start", "restart"} /\ Started => FALSE
      BY <1>t, <2>2, <3>1 DEF Fits, FitsStart, FitsRestart, Started
    <3>4. head.rev # 4 * epoch + 3
      BY <1>t, <2>2
    <3> QED  BY <3>2, <3>3, <3>4
  <2> QED  BY <1>1, <2>1, <2>2
<1>4. ASSUME kind = "stop", Whole', NEW g \in Gen, cont[g] = "none" PROVE cont'[g] = "none"
  <2>1. CASE cont' = cont
    BY <1>4, <2>1
  <2>2. CASE cont' # cont
    <3>1. o.rev = head.rev /\ (cont'[g] = cont[g] \/ cont'[g] \in Reach(o.op, cont[g])) /\ o.op # "fence"
      BY <1>4, <2>2, WholeMoves
    <3>2. o.op \in {"stop", "drop"}
      BY <1>t, <1>e, <1>4, <3>1 DEF Fits, FitsStop, Mine
    <3> QED  BY <1>4, <3>1, <3>2 DEF Reach
  <2> QED  BY <2>1, <2>2
<1> QED
  BY <1>2, <1>3, <1>4

\* What the panel concluded from an answer stays true.
LEMMA StepPanelInv == ASSUME NodeInv, NEW o \in ops, AgentStep(o) PROVE PanelInv'
<1>k. /\ UNCHANGED <<epoch, kind, phase, owed, targets, deploying, prep, asked, sent>>
      /\ Whole' => Whole
      /\ pc' = pc \/ (pc = "wait" /\ o.id = asked.id /\ pc' \in {"ok", "error"})
  BY AgentFrame
<1>i. Phased /\ Recorded /\ Waiting /\ Answered /\ Behind
  BY DEF NodeInv, PanelInv
<1>t. /\ epoch \in Nat /\ head.rev \in Nat /\ o.rev \in Nat /\ owed \subseteq Gen /\ targets \subseteq Gen
      /\ kind \in {"none", "stop", "start", "restart", "deploy"}
      /\ head \in [rev : 0..(4 * epoch + 3), op : Ops \cup {"none"}, on : SUBSET Gen, receipt : BOOLEAN]
  BY NodeLifecycleAssumption DEF NodeInv, TypeOK
<1>m. /\ head.rev >= 4 * epoch => head'.rev >= 4 * epoch
      /\ kind = "stop" /\ Stopped => Stopped'
      /\ kind \in {"start", "restart"} /\ Started => Started'
      /\ head.rev >= 4 * epoch /\ kind = "stop" /\ Whole' => \A g \in Gen : cont[g] = "none" => cont'[g] = "none"
      /\ head.rev = 4 * epoch + 3 /\ head.op = "retire" /\ head.receipt =>
             head'.rev = 4 * epoch + 3 /\ head'.op = "retire" /\ head'.receipt
  <2>1. /\ Stopped => head.rev >= 4 * epoch
        /\ Started => head.rev >= 4 * epoch
        /\ head.rev = 4 * epoch + 3 => head.rev >= 4 * epoch
    BY <1>t DEF Stopped, Started
  <2> QED  BY <2>1, HeadIsMine
<1>1. Phased' /\ Recorded'
  BY <1>k, <1>i DEF Phased, Recorded
<1>2. Behind'
  <2>1. kind = "stop" => Behind'
    BY <1>k, <1>i, <1>m, <1>t DEF Behind
  <2>2. kind \in {"start", "restart"} => Behind'
    BY <1>k, <1>i, <1>m DEF Behind
  <2>3. kind \notin {"stop", "start", "restart"} => Behind'
    BY <1>k DEF Behind
  <2> QED  BY <2>1, <2>2, <2>3
<1>3. Waiting'
  <2>1. \A op : Suits(op) => Suits(op)'
    BY <1>k DEF Suits
  <2>2. pc' = "wait" => \A q \in ops' : q.id = asked'.id => q.op = asked'.op /\ q.rev >= 4 * epoch'
    <3>1. pc' = "wait" => pc = "wait"
      BY <1>k
    <3> QED  BY <1>k, <1>i, <3>1, AgentOps DEF Waiting
  <2>3. pc' \in {"wait", "ok"} => Suits(asked.op)'
    <3>1. pc' \in {"wait", "ok"} => pc \in {"wait", "ok"}
      BY <1>k
    <3>2. pc' \in {"wait", "ok"} => Suits(asked.op)
      BY <1>i, <3>1 DEF Waiting
    <3> QED  BY <1>k, <3>2 DEF Suits
  <2>4. pc' = "applied" => kind' = "stop" /\ phase' = "applying" /\ Stopped'
    BY <1>k, <1>i, <1>m DEF Waiting
  <2>5. kind' = "deploy" /\ ~deploying' /\ pc' = "run" => prep'.gen = epoch' /\ prep'.at \in {"fencing", "retiring"}
    BY <1>k, <1>i DEF Waiting
  <2> QED  BY <2>2, <2>3, <2>4, <2>5 DEF Waiting
<1>4. Answered'
  <2>1. CASE pc' # "ok"
    BY <2>1 DEF Answered
  <2>2. CASE pc' = "ok" /\ pc = "ok"
    <3>1. asked.op = "start" => kind \in {"start", "restart"}
      <4>1. Suits(asked.op)
        BY <1>i, <2>2 DEF Waiting
      <4> QED  BY <1>i, <1>t, <4>1 DEF Suits, Recorded
    <3>2. asked.op = "start" => Started'
      BY <1>i, <1>m, <2>2, <3>1 DEF Answered
    <3>3. kind = "stop" /\ asked.op \in {"stop", "drop"} => Stopped'
      BY <1>i, <1>m, <2>2 DEF Answered
    <3>4. ASSUME kind = "stop", asked.op = "drop", Whole', NEW g \in targets \cap owed PROVE cont'[g] = "none"
      BY <1>i, <1>k, <1>m, <1>t, <2>2, <3>4 DEF Answered
    <3>5. asked.op = "retire" => head'.rev = 4 * epoch + 3 /\ head'.op = "retire" /\ head'.receipt
      BY <1>i, <1>m, <2>2 DEF Answered
    <3>6. head'.rev >= 4 * epoch
      BY <1>i, <1>m, <2>2 DEF Answered
    <3> QED  BY <1>k, <3>2, <3>3, <3>4, <3>5, <3>6 DEF Answered
  <2>3. CASE pc' = "ok" /\ pc # "ok"
    <3>1. /\ o.op = asked.op /\ o.rev >= 4 * epoch /\ Suits(asked.op) /\ Fits(o)
      BY <1>i, <2>3, Answers DEF Waiting, NodeInv, AgentInv, Requests
    <3>e. epoch > 0 /\ Mine(o)
      <4>1. kind # "none"
        BY <3>1 DEF Suits
      <4> QED  BY <1>i, <1>t, <3>1, <4>1 DEF Phased, Mine
    <3>2. CASE o.op # "drop"
      <4>1. head'.rev = o.rev /\ head'.op = o.op /\ head'.receipt
        BY <1>t, <2>3, <3>2, Answers DEF Heads
      <4>2. kind = "stop" /\ o.op = "stop" => o.rev = 4 * epoch + 1
        BY <3>1, <3>e DEF Fits, FitsStop
      <4>3. o.op = "retire" => o.rev = 4 * epoch + 3
        <5>1. o.op = "retire" => kind = "deploy"
          BY <1>i, <1>t, <3>1 DEF Suits
        <5> QED  BY <3>1, <3>e, <5>1 DEF Fits, FitsDeploy
      <4> QED  BY <1>k, <3>1, <3>2, <4>1, <4>2, <4>3 DEF Answered, Stopped, Started
    <3>3. CASE o.op = "drop"
      <4>1. Covered(o) /\ head' = head /\ cont' = cont /\ \A g \in o.on : g \in Gen => cont[g] = "none"
        BY <2>3, <3>3, Answers
      <4>2. kind = "stop"
        BY <1>i, <1>t, <3>1, <3>3 DEF Suits
      <4>3. o.rev = 4 * epoch + 1 /\ o.on = targets \cap owed
        BY <3>1, <3>3, <3>e, <4>2 DEF Fits, FitsStop
      <4>4. Stopped'
        BY <1>k, <4>1, <4>3 DEF Stopped, Covered
      <4>5. \A g \in targets \cap owed : cont'[g] = "none"
        BY <1>t, <4>1, <4>3
      <4>6. head'.rev >= 4 * epoch'
        BY <1>k, <1>t, <3>1, <4>1 DEF Covered
      <4> QED  BY <1>k, <3>1, <3>3, <4>4, <4>5, <4>6 DEF Answered
    <3> QED  BY <3>2, <3>3
  <2> QED  BY <2>1, <2>2, <2>3
<1> QED
  BY <1>1, <1>2, <1>3, <1>4 DEF PanelInv
LEMMA StepAgent == ASSUME NodeInv, NEW o \in ops, AgentStep(o) PROVE NodeInv'
<1>1. TypeOK'
  <2>1. head' \in [rev : 0..(4 * epoch' + 3), op : Ops \cup {"none"}, on : SUBSET Gen, receipt : BOOLEAN]
    <3>t. /\ head \in [rev : 0..(4 * epoch + 3), op : Ops \cup {"none"}, on : SUBSET Gen, receipt : BOOLEAN]
          /\ o.rev \in 4..(4 * epoch + 3) /\ o.op \in Ops /\ o.on \subseteq Gen /\ epoch \in Nat
      BY NodeLifecycleAssumption DEF NodeInv, TypeOK
    <3>1. o.rev \in 0..(4 * epoch + 3) /\ epoch' = epoch
      BY <3>t, AgentFrame
    <3>2. \/ head' = head \/ head' = [head EXCEPT !.receipt = TRUE]
          \/ head' = [rev |-> o.rev, op |-> o.op, on |-> o.on, receipt |-> FALSE]
      BY HeadMoves
    <3>3. CASE head' = [rev |-> o.rev, op |-> o.op, on |-> o.on, receipt |-> FALSE]
      BY <3>t, <3>1, <3>3
    <3>4. CASE head' = head \/ head' = [head EXCEPT !.receipt = TRUE]
      BY <3>t, <3>1, <3>4
    <3> QED  BY <3>2, <3>3, <3>4
  <2>2. pc' \in {"free", "run", "ready", "retry", "applied", "wait", "ok", "error"}
    BY AgentFrame DEF NodeInv, TypeOK
  <2> QED  BY <2>1, <2>2, AgentFrame, AgentOps, ContMoves DEF NodeInv, TypeOK, OpType
<1>2. Unorphaned'
  <2>1. ASSUME Whole', NEW q \in ops', q.at = "orphan" PROVE FALSE
    <3>1. Whole /\ (\A r \in ops : r.at # "orphan") /\ ops \subseteq OpType
      BY <2>1, AgentFrame DEF NodeInv, AgentInv, Unorphaned, TypeOK, OpType
    <3>2. spent.orphan \in Nat
      BY NodeLifecycleAssumption DEF NodeInv, TypeOK
    <3>3. ~Orphan(o)
      BY <2>1, <3>2 DEF Orphan, Whole, NodeInv, TypeOK
    <3>4. q \notin ops
      BY <2>1, <3>1
    <3>5. \A b : [o EXCEPT !.at = b].at = b
      BY <3>1 DEF OpType
    <3>6. \A b : Move(o, b) => b = "orphan"
      BY <2>1, <3>4, <3>5 DEF Move
    <3>7. ops' # ops \ {o}
      BY <3>4
    <3> QED  BY <3>3, <3>6, <3>7, <3>1 DEF AgentStep, Serve, Claim, Effect, Docker, Commit, Fails, OrphanLands, Reply
  <2> QED  BY <2>1 DEF Unorphaned
<1>3. AgentInv'
  BY <1>2, AgentOps, StepRequests, StepDocked, StepReceipts DEF AgentInv
<1> QED
  BY <1>1, <1>3, StepPanelInv, StepCont DEF NodeInv

-----------------------------------------------------------------------------
(* The invariant and the theorems                                          *)

\* The invariant is inductive.
LEMMA InitNode == Init => NodeInv
<1> SUFFICES ASSUME Init PROVE NodeInv
  OBVIOUS
<1>a. N \in Nat /\ MaxFaults \in Nat /\ MaxOrphans \in Nat /\ 0 \in Gen
  BY NodeLifecycleAssumption DEF Gen
<1>1. TypeOK
  <2>1. deploying \in BOOLEAN
    BY Zenon DEF Init
  <2> QED  BY <1>a, <2>1 DEF Init, TypeOK, Idle
<1>2. PanelInv
  <2>1. ~deploying
    BY Zenon DEF Init
  <2> QED  BY <2>1 DEF Init, PanelInv, Phased, Recorded, Waiting, Answered, Behind
<1>3. AgentInv
  BY DEF Init, AgentInv, OneOfId, Unorphaned, Requests, Fits, Mine, Shaped, Docked, Receipts, Idle
<1>4. ContInv
  BY <1>a DEF Init, ContInv, CandidateIsRecorded
<1> QED
  BY <1>1, <1>2, <1>3, <1>4 DEF NodeInv

LEMMA StepNode == NodeInv /\ [Next]_vars => NodeInv'
<1> SUFFICES ASSUME NodeInv, [Next]_vars PROVE NodeInv'
  OBVIOUS
<1>1. CASE Accept
  BY <1>1, StepAccept
<1>2. CASE Sending
  BY <1>2, StepSend
<1>3. CASE Resting
  BY <1>3, StepResting
<1>4. CASE Discover \/ Confirm \/ NothingToRetire \/ Advance
  BY <1>4, StepDiscover, StepConfirm, StepNothingToRetire, StepAdvance
<1>5. CASE BeginPreparation \/ Prepared \/ DeployEnds \/ Recover \/ RecoverAdvance
  BY <1>5, StepBegin, StepPrepared, StepDeployEnds, StepRecover, StepRecoverAdvance
<1>6. CASE \E o \in ops : AgentStep(o)
  BY <1>6, StepAgent
<1>7. CASE UNCHANGED vars
  <2>1. PanelInv'
    BY <1>7 DEF vars, panel, owner, agent, NodeInv, PanelInv, Phased, Recorded, Waiting, Suits, Answered,
                Behind, Stopped, Started, Whole
  <2>2. PanelTypes'
    BY <1>7 DEF vars, panel, owner, agent, NodeInv, TypeOK, PanelTypes
  <2> QED  BY <1>7, <2>1, <2>2, Unsent DEF Kept, vars, panel, owner, agent
<1> QED
  BY <1>1, <1>2, <1>3, <1>4, <1>5, <1>6, <1>7
     DEF Next, Command, Deployment, Recovery, Sending, Resting, AgentStep

LEMMA NodeHolds == Spec => []NodeInv
BY InitNode, StepNode, PTL DEF Spec

\* Type correctness of the node's mutations, for every number of mutations, faults and
\* orphaned docker commands.
THEOREM TypeCorrect == Spec => []TypeOK
<1>1. NodeInv => TypeOK
  BY DEF NodeInv
<1> QED
  BY <1>1, NodeHolds, PTL

\* A candidate's container is named by the preparation's row for as long as it exists,
\* however late, often or partly the requests of whichever mutation are served: a prepare
\* whose row is gone is behind the journal's head (Shaped), and docker works only for the
\* head (Docked).
THEOREM CandidateIsRecordedHolds == Spec => []CandidateIsRecorded
<1>1. NodeInv => CandidateIsRecorded
  BY DEF NodeInv, ContInv
<1> QED
  BY <1>1, NodeHolds, PTL

\* What a completed stop, start or restart says is what docker runs until a newer mutation
\* is accepted: the command's last receipt is the journal's head (Behind), a receipt says
\* what docker runs (Receipts), and no request of an older epoch passes the head.
THEOREM CommandHoldsAlways == Spec => []CommandHolds
<1>1. NodeInv => CommandHolds
  <2>1. SUFFICES ASSUME NodeInv, phase = "completed", spent.orphan = 0
                 PROVE  /\ kind = "stop" => \A g \in Gen : cont[g] # "up"
                        /\ kind \in {"start", "restart"} => cont[0] = "up"
    BY DEF CommandHolds
  <2>i. /\ Phased /\ Recorded /\ Behind /\ Receipts /\ Fits(head) /\ CandidateIsRecorded /\ Whole
        /\ epoch \in Nat /\ head.rev \in Nat
    BY <2>1, NodeLifecycleAssumption DEF NodeInv, TypeOK, PanelInv, AgentInv, ContInv, Requests, Whole
  <2>2. kind \in {"stop", "start", "restart"} => epoch > 0
    BY <2>i DEF Phased
  <2>3. ASSUME kind = "stop", NEW g \in Gen PROVE cont[g] # "up"
    <3>1. prep.gen = 0 /\ Stopped /\ 0 \in targets
      BY <2>1, <2>3, <2>i DEF Recorded, Behind
    <3>2. CASE g = 0
      <4>1. head.on = targets
        BY <2>2, <2>3, <2>i, <3>1 DEF Fits, FitsStop, Mine, Stopped
      <4> QED  BY <2>i, <3>1, <3>2, <4>1 DEF Receipts, Stopped
    <3>3. CASE g # 0
      BY <2>i, <3>1, <3>3 DEF CandidateIsRecorded, Whole
    <3> QED  BY <3>2, <3>3
  <2>4. ASSUME kind \in {"start", "restart"} PROVE cont[0] = "up"
    <3>1. Started
      BY <2>1, <2>4, <2>i DEF Behind, Late
    <3>2. head.on = {0}
      BY <2>2, <2>4, <2>i, <3>1 DEF Fits, FitsStart, FitsRestart, Mine, Started
    <3> QED  BY <2>i, <3>1, <3>2 DEF Receipts, Started
  <2> QED  BY <2>3, <2>4
<1> QED
  BY <1>1, NodeHolds, PTL
=============================================================================
