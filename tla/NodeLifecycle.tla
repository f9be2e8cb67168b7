--------------------------- MODULE NodeLifecycle ---------------------------
(***************************************************************************)
(* The ordered mutations of one docker service placed on a node: the       *)
(* lifecycle commands (lib/nodeLifecycleIntent.ts, its controller), the    *)
(* preparation of a deployment's candidate (lib/nodeDeploymentPreparation, *)
(* engine/builders/nodeAutoscalePrepare) and its recovery, against the     *)
(* journal an agent keeps per service (lib/nodeLifecycle.ts,               *)
(* lib/nodeRuntimeMutation.ts).  Every mutation reserves an epoch and      *)
(* numbers its requests epoch * 4 + phase.  Runtime 0 is the selected one, *)
(* e the candidate of the deployment with epoch e, followed until it is    *)
(* handed to the primary transition.  A request may wait in the network or *)
(* in the agent for as long as it likes, and outlive its sender; requests  *)
(* are served by any process of the agent.  A runtime stands for its           *)
(* replicas; that routing, or a probe of a container that is up, may fail  *)
(* is a fault.                                                             *)
(***************************************************************************)
EXTENDS Naturals

CONSTANTS
    N,           \* mutations accepted
    Kinds,       \* the kinds of mutation that are asked for
    MaxFaults,   \* calls, replies and panel steps that fail
    MaxOrphans   \* docker commands that outlive the agent's process

ASSUME NodeLifecycleAssumption ==
    /\ N \in Nat \ {0} /\ {MaxFaults, MaxOrphans} \subseteq Nat
    /\ Kinds \subseteq {"stop", "start", "restart", "deploy"}

Gen == 0..N
Order == [stop    |-> <<"fencing", "preparing", "routing", "applying", "completed">>,
          start   |-> <<"preparing", "applying", "readiness", "routing", "completed">>,
          restart |-> <<"fencing", "preparing", "routing", "applying", "starting",
                        "warming", "publishing", "completed">>,
          deploy  |-> <<"begin", "fencing", "preparing", "completed">>]
Idle == [rev |-> 0, op |-> "none", on |-> {}, receipt |-> TRUE]
Ops == {"fence", "stop", "start", "prepare", "retire", "drop"}

VARIABLES
    epoch,     \* service_runtime_owners: the newest mutation
    kind,      \* its kind
    phase,     \* its row's phase
    owed,      \* a stop's interrupted deployments
    targets,   \* the runtimes it captured
    deploying, \* the deployment of the newest epoch is not settled
    prep,      \* node_deployment_preparations: the candidate and its phase, 0 for no row
    pc,        \* the owner of the row: none, at work (readiness seen), waiting, answered
    asked,     \* the request it waits for, or the last one
    sent,      \* the newest request's number
    ops,       \* requests on their way or in the agent
    head,      \* the agent's journal
    cont,      \* what docker runs
    spent      \* faults and orphans so far

panel == <<epoch, kind, phase, owed, targets, deploying, prep>>
owner == <<pc, asked>>
agent == <<ops, head, cont>>
vars == <<panel, owner, sent, agent, spent>>

TypeOK ==
    /\ epoch \in 0..N /\ kind \in {"none", "stop", "start", "restart", "deploy"}
    /\ phase \in {"begin", "fencing", "preparing", "routing", "applying", "readiness",
                  "starting", "warming", "publishing", "completed"}
    /\ owed \subseteq Gen \ {0} /\ targets \subseteq Gen /\ deploying \in BOOLEAN
    /\ prep \in [gen : Gen, at : {"preparing", "prepared", "fencing", "retiring"}]
    /\ pc \in {"free", "run", "ready", "retry", "applied", "wait", "ok", "error"}
    /\ sent \in Nat /\ asked \in [id : 0..sent, op : Ops \cup {"none"}]
    /\ ops \subseteq [id : 1..sent, rev : 4..(4 * epoch + 3), op : Ops, on : SUBSET Gen,
                      at : {"sent", "claimed", "docker", "acted", "orphan"}]
    /\ head \in [rev : 0..(4 * epoch + 3), op : Ops \cup {"none"}, on : SUBSET Gen,
                 receipt : BOOLEAN]
    /\ cont \in [Gen -> {"none", "down", "up"}]
    /\ spent \in [fault : 0..MaxFaults, orphan : 0..MaxOrphans]

Init ==
    /\ epoch = 0 /\ kind = "none" /\ phase = "completed" /\ owed = {} /\ targets = {}
    /\ deploying = FALSE /\ prep = [gen |-> 0, at |-> "preparing"]
    /\ pc = "free" /\ asked = [id |-> 0, op |-> "none"] /\ sent = 0
    /\ ops = {} /\ head = Idle
    /\ cont = [g \in Gen |-> IF g = 0 THEN "up" ELSE "none"]
    /\ spent = [fault |-> 0, orphan |-> 0]

-----------------------------------------------------------------------------
(* The panel accepts a mutation.                                           *)

Pending == kind \in {"stop", "start", "restart"} /\ phase # "completed"
OwesHandoff == kind = "stop" /\ phase # "completed" /\ owed # {}

\* The deployments a stop must clean up after: the active one, the one whose preparation
\* is recorded, and what an unfinished stop still owed.
Interrupted == (IF deploying THEN {epoch} ELSE {})
                 \cup (IF prep.gen # 0 THEN {prep.gen} ELSE {})
                 \cup (IF OwesHandoff THEN owed ELSE {})

\* The new mutation owns the service; the older owners fail their next checkpoint.
Reserve(k) ==
    /\ epoch < N
    /\ epoch' = epoch + 1 /\ kind' = k /\ phase' = Order[k][1] /\ targets' = {}
    /\ asked' = [id |-> 0, op |-> "none"]
    /\ UNCHANGED <<prep, sent, agent, spent>>

\* A stop supersedes everything and cancels the deployment.
AcceptStop ==
    /\ "stop" \in Kinds
    /\ Reserve("stop") /\ owed' = Interrupted
    /\ deploying' = FALSE /\ pc' = "free"

\* Start and restart wait for a deployment, its recorded preparation and a stop's handoff.
AcceptStart(k) ==
    /\ k \in Kinds /\ ~deploying /\ ~OwesHandoff /\ prep.gen = 0
    /\ Reserve(k) /\ owed' = {}
    /\ pc' = "free" /\ UNCHANGED deploying

\* The worker claims a deployment; its pipeline runs at once.
AdmitDeploy ==
    /\ "deploy" \in Kinds /\ ~deploying /\ ~OwesHandoff /\ prep.gen = 0
    /\ Reserve("deploy") /\ owed' = {}
    /\ deploying' = TRUE /\ pc' = "run"

-----------------------------------------------------------------------------
(* The owner of the newest mutation.                                       *)

Following == LET order == Order[kind]
                 i == CHOOSE j \in DOMAIN order : order[j] = phase
             IN order[i + 1]

Fault == spent.fault < MaxFaults /\ spent' = [spent EXCEPT !.fault = @ + 1]

\* A number no request has that is still on its way.
Fresh == IF sent = 0 \/ \E o \in ops : o.id = sent THEN sent + 1 ELSE sent

\* A checkpoint and the request it lets through.
Send(op, p, on) ==
    /\ sent' = Fresh /\ pc' = "wait"
    /\ asked' = [id |-> Fresh, op |-> op]
    /\ ops' = ops \cup {[id |-> Fresh, rev |-> 4 * epoch + p, op |-> op, on |-> on,
                         at |-> "sent"]}
    /\ UNCHANGED <<panel, head, cont, spent>>

\* Fault: a command that was held is not taken again.
LeaseOnce ==
    /\ Pending /\ pc = "free" /\ asked.op = "none" /\ pc' = "run"
    /\ UNCHANGED <<panel, asked, sent, agent, spent>>

\* The dispatcher takes an unfinished command that nobody owns.
Lease ==
    /\ Pending /\ pc = "free" /\ pc' = "run"
    /\ UNCHANGED <<panel, asked, sent, agent, spent>>

Fence == kind # "start" /\ phase = "fencing" /\ pc = "run" /\ Send("fence", 0, {})

\* The names of the selected runtime, and of the candidates a stop owes, are looked up.
Discover ==
    /\ kind # "deploy" /\ phase = "preparing" /\ pc = "run"
    /\ targets' = {g \in {0} \cup owed : cont[g] # "none"}
    /\ phase' = Following
    /\ UNCHANGED <<epoch, kind, owed, deploying, prep, owner, sent, agent, spent>>

\* Before the new routing the selected runtime must be ready: in a phase of its own, and
\* again if another run of the command does the routing.
Warming == phase \in {"readiness", "warming"}
ReadinessDue == Warming \/ phase = "publishing" \/ (kind = "start" /\ phase = "routing")

\* Readiness confirmed, or routing.
Confirm ==
    /\ ReadinessDue \/ phase = "routing"
    /\ pc \in {"run", "ready"} /\ (ReadinessDue /\ pc = "run" => cont[0] = "up")
    /\ phase' = Following /\ pc' = IF Warming THEN "ready" ELSE pc
    /\ UNCHANGED <<epoch, kind, owed, targets, deploying, prep, asked, sent, agent, spent>>

Apply ==
    /\ phase = "applying" /\ pc = "run"
    /\ Send(IF kind = "start" THEN "start" ELSE "stop", 1, targets)

StartAgain == phase = "starting" /\ pc = "run" /\ Send("start", 2, targets \cap {0})

\* The candidates a stop found are removed, under the revision of its stop.
Retire ==
    /\ kind = "stop" /\ phase = "applying" /\ pc = "applied" /\ targets \cap owed # {}
    /\ Send("drop", 1, targets \cap owed)

\* The command's last step; the preparation's row goes with the candidate.
Complete ==
    /\ phase' = "completed" /\ pc' = "free"
    /\ prep' = IF kind = "stop" /\ prep.gen \in owed THEN [prep EXCEPT !.gen = 0] ELSE prep
    /\ UNCHANGED <<epoch, kind, owed, targets, deploying, asked, sent, agent, spent>>

NothingToRetire ==
    /\ kind = "stop" /\ phase = "applying" /\ pc = "applied" /\ targets \cap owed = {}
    /\ Complete

\* The receipt of the request is in: the candidates next, the end, or the next phase.
Advance ==
    /\ kind # "deploy" /\ pc = "ok"
    /\ CASE asked.op = "stop" /\ kind = "stop" /\ owed # {} ->
              pc' = "applied" /\ UNCHANGED <<panel, asked, sent, agent, spent>>
         [] kind = "stop" /\ phase = "applying" /\ (owed # {} => asked.op = "drop") -> Complete
         [] OTHER ->
              /\ phase' = Following /\ pc' = "run"
              /\ UNCHANGED <<epoch, kind, owed, targets, deploying, prep, asked, sent, agent, spent>>

\* A failed step holds the command for a later attempt.
Hold ==
    /\ Pending
    /\ \/ pc = "error" /\ UNCHANGED spent
       \/ pc \in {"run", "ready", "applied"} /\ Fault
       \/ pc = "run" /\ ReadinessDue /\ cont[0] # "up" /\ UNCHANGED spent
    /\ pc' = "free"
    /\ UNCHANGED <<panel, asked, sent, agent>>

\* The call's deadline passes, the lease lapses or the panel restarts: the request stays out.
Lapse ==
    /\ kind # "deploy" /\ pc = "wait" /\ Fault
    /\ pc' = "free" /\ asked' = [asked EXCEPT !.id = 0]
    /\ UNCHANGED <<panel, sent, agent>>

-----------------------------------------------------------------------------
(* A deployment's candidate, and its recovery.                             *)

\* Fault: the preparation is recorded once the agent has answered.
SendUnrecorded ==
    /\ deploying /\ phase = "begin" /\ pc = "run"
    /\ phase' = Following
    /\ UNCHANGED <<epoch, kind, owed, targets, deploying, prep, owner, sent, agent, spent>>

\* The intent is recorded before any request.
BeginPreparation ==
    /\ deploying /\ phase = "begin" /\ pc = "run"
    /\ prep' = [gen |-> epoch, at |-> "preparing"] /\ phase' = Following
    /\ UNCHANGED <<epoch, kind, owed, targets, deploying, owner, sent, agent, spent>>

Prepare ==
    /\ deploying /\ phase = "preparing" /\ pc \in {"run", "retry"}
    /\ Send("prepare", 1, {epoch})

\* The fence is confirmed, or the prepared containers are.
Prepared ==
    /\ deploying /\ pc = "ok"
    /\ phase' = Following /\ pc' = "run"
    /\ prep' = IF asked.op = "prepare" THEN [prep EXCEPT !.at = "prepared"] ELSE prep
    /\ UNCHANGED <<epoch, kind, owed, targets, deploying, asked, sent, agent, spent>>

\* A prepare is asked for a second time, whatever happened to the first.
PrepareAgain ==
    /\ deploying /\ asked.op = "prepare"
    /\ \/ pc = "error" /\ UNCHANGED spent
       \/ pc = "wait" /\ Fault
    /\ pc' = "retry" /\ asked' = [id |-> 0, op |-> "none"]
    /\ UNCHANGED <<panel, sent, agent>>

\* The deployment fails or is cancelled, wherever it is; its request stays out.
DeployEnds ==
    /\ deploying
    /\ deploying' = FALSE /\ phase' = "completed"
    /\ pc' = "free" /\ asked' = [id |-> 0, op |-> "none"]
    /\ UNCHANGED <<epoch, kind, owed, targets, prep, sent, agent, spent>>

\* The candidate of an ended deployment that still owns the service, with its receipt.
Recoverable == kind = "deploy" /\ ~deploying /\ prep.gen = epoch /\ prep.at # "preparing"

Recover ==
    /\ Recoverable /\ pc = "free"
    /\ pc' = "run"
    /\ prep' = IF prep.at = "prepared" THEN [prep EXCEPT !.at = "fencing"] ELSE prep
    /\ UNCHANGED <<epoch, kind, phase, owed, targets, deploying, asked, sent, agent, spent>>

RecoverSend ==
    /\ Recoverable /\ pc = "run"
    /\ IF prep.at = "fencing" THEN Send("fence", 2, {}) ELSE Send("retire", 3, {epoch})

\* After the fence's inventory the retirement is committed; after it the row is deleted.
RecoverAdvance ==
    /\ Recoverable /\ pc = "ok"
    /\ IF prep.at = "fencing" THEN prep' = [prep EXCEPT !.at = "retiring"] /\ pc' = "run"
                              ELSE prep' = [prep EXCEPT !.gen = 0] /\ pc' = "free"
    /\ UNCHANGED <<epoch, kind, phase, owed, targets, deploying, asked, sent, agent, spent>>

RecoverHold ==
    /\ Recoverable
    /\ \/ pc = "error" /\ UNCHANGED spent
       \/ pc \in {"run", "wait"} /\ Fault
    /\ pc' = "free" /\ asked' = [asked EXCEPT !.id = 0]
    /\ UNCHANGED <<panel, sent, agent>>

-----------------------------------------------------------------------------
(* The agent.  A write transaction of the journal locks out every other.   *)

Locked == \E o \in ops : o.at \in {"docker", "acted"}

Reply(o, result) ==
    /\ ops' = ops \ {o}
    /\ IF o.id = asked.id /\ pc = "wait"
         THEN pc' = result
         ELSE UNCHANGED pc
    /\ UNCHANGED <<panel, asked, sent>>

Move(o, at) == ops' = (ops \ {o}) \cup {[o EXCEPT !.at = at]}

\* The journal's head is this request.
Heads(o) == head.rev = o.rev /\ head.op = o.op /\ head.on = o.on
\* A removal belongs to the stop at the head, once that has its receipt.
Covered(o) == head.rev = o.rev /\ head.op = "stop" /\ head.receipt /\ o.on \subseteq head.on

Admits(o) == head.rev < o.rev \/ Heads(o)

\* The request becomes the head, in a transaction of its own.
Claim(o) ==
    /\ o.at = "sent" /\ ~Locked
    /\ IF IF o.op = "drop" THEN Covered(o) ELSE Admits(o)
         THEN /\ Move(o, "claimed")
              /\ head' = IF o.op = "drop" \/ Heads(o) THEN head
                         ELSE [rev |-> o.rev, op |-> o.op, on |-> o.on, receipt |-> FALSE]
              /\ UNCHANGED <<panel, owner, sent, cont, spent>>
         ELSE Reply(o, "error") /\ UNCHANGED <<head, cont, spent>>

\* Fault: the request was admitted, so it runs.
EffectBlind(o) ==
    /\ o.at = "claimed" /\ ~Locked
    /\ IF o.op = "fence"
         THEN Reply(o, "ok") /\ UNCHANGED <<head, cont, spent>>
         ELSE Move(o, "docker") /\ UNCHANGED <<panel, owner, sent, head, cont, spent>>

\* The second transaction: still the head?  Done already?  Otherwise docker runs inside it.
Effect(o) ==
    /\ o.at = "claimed" /\ ~Locked
    /\ \/ /\ ~(IF o.op = "drop" THEN Covered(o) ELSE Heads(o))
          /\ Reply(o, "error") /\ UNCHANGED <<head, cont, spent>>
       \/ /\ Heads(o) /\ (head.receipt \/ o.op = "fence")
          /\ Reply(o, "ok") /\ head' = [head EXCEPT !.receipt = TRUE]
          /\ UNCHANGED <<cont, spent>>
       \/ /\ IF o.op = "drop" THEN Covered(o) ELSE Heads(o) /\ ~head.receipt /\ o.op # "fence"
          /\ Move(o, "docker") /\ UNCHANGED <<panel, owner, sent, head, cont, spent>>

\* What docker runs after a command, and what it may show before the last of its calls.
Goal(op) == CASE op = "stop" -> "down"
              [] op \in {"start", "prepare"} -> "up"
              [] OTHER -> "none"
Halfway(op, state) == IF state = Goal(op) THEN {state} ELSE {state, "down", Goal(op)}
Partly(o) == {c \in [Gen -> {"none", "down", "up"}] :
                \A g \in Gen : c[g] \in IF g \in o.on THEN Halfway(o.op, cont[g]) ELSE {cont[g]}}

\* A stop and a start want every container there, the removal after a stop wants none up.
Accepts(o) == \A g \in o.on : CASE o.op \in {"stop", "start"} -> cont[g] # "none"
                                [] o.op = "drop" -> cont[g] # "up"
                                [] OTHER -> TRUE

Docker(o) ==
    /\ o.at = "docker"
    /\ IF Accepts(o)
         THEN /\ cont' = [g \in Gen |-> IF g \in o.on THEN Goal(o.op) ELSE cont[g]]
              /\ Move(o, "acted") /\ UNCHANGED <<panel, owner, sent>>
         ELSE Reply(o, "error") /\ UNCHANGED cont
    /\ UNCHANGED <<head, spent>>

\* Docker's state is confirmed and the receipt committed.
Commit(o) ==
    /\ o.at = "acted"
    /\ IF \A g \in o.on : cont[g] = Goal(o.op)
         THEN /\ head' = IF o.op = "drop" THEN head ELSE [head EXCEPT !.receipt = TRUE]
              /\ Reply(o, "ok")
         ELSE Reply(o, "error") /\ UNCHANGED head
    /\ UNCHANGED <<cont, spent>>

\* Docker refuses, the deadline passes or the agent dies; docker may have done a part.
Fails(o) ==
    /\ o.at # "orphan" /\ Fault
    /\ IF o.at = "docker" /\ Accepts(o) THEN cont' \in Partly(o) ELSE UNCHANGED cont
    /\ Reply(o, "error") /\ UNCHANGED head

\* The agent dies, the docker command it is at (a process group of its own) does not.
Orphan(o) ==
    /\ o.at = "docker" /\ Accepts(o) /\ spent.orphan < MaxOrphans
    /\ spent' = [spent EXCEPT !.orphan = @ + 1]
    /\ cont' \in Partly(o) /\ Move(o, "orphan")
    /\ pc' = IF o.id = asked.id /\ pc = "wait" THEN "error" ELSE pc
    /\ UNCHANGED <<panel, asked, sent, head>>

\* One docker command makes what it finds by then into this, if it does anything.
Landing(op, state) ==
    IF state = "none" THEN IF op = "prepare" THEN {"down"} ELSE {}
    ELSE CASE op = "retire" -> {"down", "none"}
           [] op = "drop" -> IF state = "up" THEN {} ELSE {"none"}
           [] OTHER -> {Goal(op)}

OrphanLands(o) ==
    /\ o.at = "orphan"
    /\ cont' \in {c \in [Gen -> {"none", "down", "up"}] :
                   \A g \in Gen : c[g] # cont[g] => g \in o.on /\ c[g] \in Landing(o.op, cont[g])}
    /\ ops' = ops \ {o}
    /\ UNCHANGED <<panel, owner, sent, head, spent>>

-----------------------------------------------------------------------------
Accept == AcceptStop \/ (\E k \in {"start", "restart"} : AcceptStart(k)) \/ AdmitDeploy
Command == \/ Lease \/ Fence \/ Discover \/ Confirm \/ Apply \/ StartAgain \/ Retire
           \/ NothingToRetire \/ Advance
Deployment == BeginPreparation \/ Prepare \/ Prepared \/ PrepareAgain
Recovery == Recover \/ RecoverSend \/ RecoverAdvance
Serve(o) == Claim(o) \/ Effect(o) \/ Docker(o) \/ Commit(o)

Next ==
    \/ Accept \/ Command \/ Hold \/ Lapse
    \/ Deployment \/ DeployEnds \/ Recovery \/ RecoverHold
    \/ \E o \in ops : Serve(o) \/ Fails(o) \/ Orphan(o) \/ OrphanLands(o)

Spec == Init /\ [][Next]_vars

\* The dispatcher and the recovery look again every second; a request the agent has got is
\* served, docker commands end, and an ended call is answered.  Nobody has to ask for
\* anything, and nothing has to fail.
FairSpec ==
    /\ Spec
    /\ WF_vars(Command) /\ WF_vars(Recovery) /\ WF_vars(Hold) /\ WF_vars(RecoverHold)
    /\ WF_vars(\E o \in ops : o.at \in {"docker", "acted"} /\ Serve(o))
    /\ WF_vars(\E o \in ops : o.id = asked.id /\ Serve(o))
    /\ WF_vars(\E o \in ops : OrphanLands(o))

-----------------------------------------------------------------------------
(* What the protocol promises.                                             *)

\* A completed command is what docker runs, for as long as no newer one is accepted: after
\* a stop nothing of the service runs, after a start or a restart the selected runtime
\* does, whatever older request of a lost sender still arrives, is retried or is cut short.
\* A docker command that outlives its agent (spawnValidated.ts:111) is the one exception.
CommandHolds ==
    phase = "completed" /\ spent.orphan = 0 =>
        /\ kind = "stop" => \A g \in Gen : cont[g] # "up"
        /\ kind \in {"start", "restart"} => cont[0] = "up"

\* A candidate's container is never forgotten: as long as it exists the preparation's row
\* names it, so that the recovery or a stop removes it; once the row is gone no late or
\* repeated request brings the candidate back (with the same exception).
CandidateIsRecorded ==
    spent.orphan = 0 => \A g \in Gen \ {0} : cont[g] # "none" => prep.gen = g

\* The docker command of a dead agent undid what this command had a receipt for or found:
\* the selected runtime is down again, a stopped candidate runs, a runtime to be stopped is
\* gone.  The agent repeats the receipt or refuses, so the command is held for as long as
\* that stays so.
Contradicted ==
    LET stopped == head.rev = 4 * epoch + 1 /\ head.op = "stop" /\ head.receipt
    IN  /\ spent.orphan > 0
        /\ \/ ReadinessDue /\ cont[0] # "up"
           \/ /\ kind = "stop" /\ phase = "applying"
              /\ \E g \in targets : IF stopped THEN g \in owed /\ cont[g] = "up"
                                             ELSE cont[g] = "none"

\* A command that is accepted comes to an end: it completes, or a newer mutation takes the
\* service over.  Otherwise it is contradicted.
CommandEnds == \A e \in 1..N : []<>~(epoch = e /\ Pending /\ ~Contradicted)

\* A candidate whose deployment ended with its receipt is removed, unless a newer mutation
\* takes the service over.
CandidateGoes == \A e \in 1..N : []<>~(epoch = e /\ Recoverable)

\* No mutation of a node's service is left half done, whatever lease, call or answer is
\* lost on the way: the commands and the candidates of deployments that ended.  An agent
\* may die too; only when its docker command lives on, and contradicts the command, may
\* that be held for good (nodeLifecycle.ts:234, 287).
MutationsEnd == CommandEnds /\ CandidateGoes

=============================================================================
