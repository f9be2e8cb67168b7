---------------------------- MODULE CanaryProofs ----------------------------
(***************************************************************************)
(* Proofs about Canary for every number of deployments, of traffic steps,  *)
(* of faults, lapsed leases, cancels and restarts: the types, that no      *)
(* release which the loaded routes use is stopped, and that all traffic    *)
(* goes to a candidate only after it earned it.                            *)
(***************************************************************************)
EXTENDS Canary, TLAPS

Earned == passed = Steps \/ dep \in asked
Unwritten(r) == r \notin {loaded.stable, loaded.canary}

\* Releases are numbered in the order of their deployments.
Ordered ==
    /\ row <= dep /\ loaded.stable <= dep /\ loaded.canary <= dep
    /\ dep > 0 => prev < dep
\* While a transition is open both of its releases are kept.
BothKept ==
    /\ journal # "none" => dep \in up /\ prev \in up
    /\ journal # "none" \/ pc # "idle" => dep > 0
    /\ interrupted => pc = "idle"
\* The registry holds the canary of the open transition, or nothing; the
\* recovery clears it before it selects.
Registry ==
    /\ active # None => active.dep = dep /\ journal # "none"
    /\ active.promote => active.dep \in asked
    /\ pc = "step" /\ Owned => active.step < Steps
    /\ rec \in {"select", "confirm", "retire"} => active = None
\* What is routed is up.
Routed == row \in up /\ loaded.stable \in up /\ (loaded.canary = 0 \/ loaded.canary \in up)
\* The holder of the lease stops a release only when no route uses it: a candidate
\* that was never routed or is written away, the previous release after the switch,
\* the loser of a recovery after the routes of the winner were confirmed.
NotYetRouted == Leased /\ pc = "begin" => active = None /\ row # dep /\ Unwritten(dep)
WrittenAway == Leased /\ pc = "retire" /\ active = None /\ row # dep => Unwritten(dep)
Switched == /\ Leased /\ pc \in {"flip", "switch", "drain"} => active = None /\ row = dep
            /\ Leased /\ pc \in {"switch", "drain"} => loaded = Render
Recovered == rec = "retire" => loaded = Render

\* Before the last step the journal and the row are for the previous release.
Earning ==
    /\ pc \in {"begin", "step", "before", "write", "watch"} => ~intends /\ row # dep
    /\ pc \in {"held", "final"} \/ intends => Earned
    /\ row = dep /\ dep > 0 => Earned

RouteInv == Ordered /\ BothKept /\ Registry /\ Routed /\ NotYetRouted /\ WrittenAway
            /\ Switched /\ Recovered

-----------------------------------------------------------------------------
(* The types                                                               *)

\* An open canary, an empty registry.
Entries == [dep : 0..N, stable : Runtime, step : 0..Steps, promote : BOOLEAN]
LEMMA NoneEntry ==
    /\ None \in Entries /\ None.dep = 0 /\ None.step = 0 /\ None.promote = FALSE
BY CanaryAssumption DEF None, Entries, Runtime

LEMMA Limits == \A b \in Budget : Limit[b] \in Nat
<1>1. {MaxFaults, MaxSick, MaxLapses, MaxCancels, MaxCrashes} \subseteq Nat
  BY CanaryAssumption
<1> QED
  BY <1>1 DEF Limit, Budget

LEMMA InitType == Init => TypeOK
<1> SUFFICES ASSUME Init PROVE TypeOK
  OBVIOUS
<1> USE CanaryAssumption, NoneEntry DEF Init, Entries, Runtime
<1>1. dep \in 0..N /\ prev \in Runtime /\ row \in Runtime /\ up \subseteq Runtime
  OBVIOUS
<1>2. /\ status \in {"active", "cancelled", "done"} /\ pc \in Stages /\ tries \in 0..1
      /\ journal \in {"none", "pipe", "free", "rec"}
      /\ rec \in {"idle", "claimed", "select", "confirm", "retire"}
      /\ (rec # "idle") = (journal = "rec") /\ seen \in {"active", "cancelled", "done"}
  BY DEF Stages
<1>3. active \in Entries /\ loaded \in [stable : Runtime, canary : Runtime]
  OBVIOUS
<1>4. {intends, touched, confirmed, interrupted} \subseteq BOOLEAN
  BY Zenon
<1>5. asked \subseteq 1..N /\ passed \in 0..Steps
  OBVIOUS
<1>6. spent \in [Budget -> Nat] /\ \A b \in Budget : spent[b] <= Limit[b]
  BY Limits
<1> QED
  BY <1>1, <1>2, <1>3, <1>4, <1>5, <1>6 DEF TypeOK

LEMMA SpendType ==
    ASSUME TypeOK, NEW b \in Budget, Spend(b)
    PROVE  spent' \in [Budget -> Nat] /\ \A c \in Budget : spent'[c] <= Limit[c]
BY Limits DEF TypeOK, Spend

LEMMA RenderType == TypeOK => Render \in [stable : Runtime, canary : Runtime]
<1> SUFFICES ASSUME TypeOK PROVE Render \in [stable : Runtime, canary : Runtime]
  OBVIOUS
<1> DEFINE c == IF active.step > 0 /\ active.stable = row THEN active.dep ELSE 0
<1>1. c \in Runtime /\ row \in Runtime
  BY CanaryAssumption DEF TypeOK, Runtime
<1>2. Render = [stable |-> row, canary |-> c]
  BY DEF Render
<1> HIDE DEF c
<1> QED
  BY <1>1, <1>2

-----------------------------------------------------------------------------
(* Who changes what                                                        *)

LEMMA LoadedSteps == ASSUME [Next]_vars PROVE loaded' \in {loaded, Render}
BY DEF Next, vars, Pipeline, Recovery, Deploy, Begin, SetStep, Before, WriteStep, Watch,
       Catch, Rollback, Held, Final, Unwind, Flip, Revert, Retire, Switch, Drain,
       RecoverClaim, RecoverEnd, RecoverSelect, RecoverConfirm, RecoverRetire,
       OtherWrite, Promote, Cancel, Lapse, Crash, WriteOk, WriteFails

\* Releases are stopped by the pipeline with its lease, and by the recovery.
LEMMA UpSteps ==
    ASSUME [Next]_vars
    PROVE  \/ up' = up
           \/ Deploy
           \/ /\ pc = "retire" /\ Leased /\ active = None /\ row # dep
              /\ up' = up \ {dep} /\ journal' = "none"
           \/ pc = "drain" /\ Leased /\ row # prev /\ up' = up \ {prev} /\ journal' = "none"
           \/ RecoverRetire
BY DEF Next, vars, Pipeline, Recovery, Begin, SetStep, Before, WriteStep, Watch, Catch,
       Rollback, Held, Final, Unwind, Flip, Revert, Retire, Switch, Drain, RecoverClaim,
       RecoverEnd, RecoverSelect, RecoverConfirm, OtherWrite, Promote, Cancel, Lapse,
       Crash, Complete

\* The row changes with the pipeline's lease or the recovery's.
LEMMA RowSteps ==
    ASSUME [Next]_vars
    PROVE  \/ row' = row
           \/ pc = "final" /\ Leased /\ Owned /\ row' = dep /\ pc' = "flip" /\ journal' = journal
           \/ pc \in {"flip", "switch"} /\ Leased /\ row' = prev /\ pc' \in {"revert", "idle"}
           \/ RecoverSelect
BY DEF Next, vars, Pipeline, Recovery, Deploy, Begin, SetStep, Before, WriteStep, Watch,
       Catch, Rollback, Held, Final, Unwind, Flip, Revert, Retire, Switch, Drain,
       RecoverClaim, RecoverEnd, RecoverConfirm, RecoverRetire, OtherWrite, Promote,
       Cancel, Lapse, Crash, GotoWith, Leave

\* So does the registry, but for the end of a canary and a promotion.
LEMMA ActiveSteps ==
    ASSUME [Next]_vars
    PROVE  \/ active' = active
           \/ active' = None
           \/ /\ pc = "begin" /\ Leased /\ pc' = "step" /\ journal' = journal
              /\ active' = [dep |-> dep, stable |-> prev, step |-> 0, promote |-> FALSE]
           \/ /\ pc = "step" /\ Leased /\ Owned /\ pc' = "before" /\ journal' = journal
              /\ active' = [active EXCEPT !.step = @ + 1]
           \/ \E d \in 1..N : Promote(d)
BY DEF Next, vars, Pipeline, Recovery, Deploy, Begin, SetStep, Before, WriteStep, Watch,
       Catch, Rollback, Held, Final, Unwind, Flip, Revert, Retire, Switch, Drain,
       RecoverClaim, RecoverEnd, RecoverSelect, RecoverConfirm, RecoverRetire,
       OtherWrite, Cancel, Lapse, Crash, Checked, Goto, lease

LEMMA DepSteps ==
    ASSUME [Next]_vars
    PROVE  (dep' = dep /\ prev' = prev) \/ Deploy
BY DEF Next, vars, Pipeline, Recovery, Begin, SetStep, Before, WriteStep, Watch, Catch,
       Rollback, Held, Final, Unwind, Flip, Revert, Retire, Switch, Drain, RecoverClaim,
       RecoverEnd, RecoverSelect, RecoverConfirm, RecoverRetire, OtherWrite, Promote,
       Cancel, Lapse, Crash, pipeline, Goto, GotoWith, Leave, Complete

LEMMA SpentSteps ==
    ASSUME [Next]_vars
    PROVE  spent' = spent \/ \E b \in Budget : Spend(b)
BY DEF Next, vars, Pipeline, Recovery, Deploy, Begin, SetStep, Before, WriteStep, Watch,
       Catch, Rollback, Held, Final, Unwind, Flip, Revert, Retire, Switch, Drain,
       RecoverClaim, RecoverEnd, RecoverSelect, RecoverConfirm, RecoverRetire,
       OtherWrite, Promote, Cancel, Lapse, Crash, WriteOk, WriteFails, Budget

LEMMA StepType == ASSUME TypeOK, RouteInv, [Next]_vars PROVE TypeOK'
<1>1. dep' \in 0..N /\ prev' \in Runtime
  <2>1. CASE Deploy
    BY <2>1, CanaryAssumption DEF Deploy, TypeOK, Runtime
  <2> QED  BY <2>1, DepSteps DEF TypeOK
<1>2. row' \in Runtime
  <2>1. CASE RecoverSelect
    <3>1. Selected \in {prev, dep, row}
      BY DEF Selected
    <3> QED  BY <2>1, <3>1, CanaryAssumption DEF RecoverSelect, TypeOK, Runtime
  <2> QED  BY <2>1, RowSteps, CanaryAssumption DEF TypeOK, Runtime
<1>3. up' \subseteq Runtime
  <2>1. CASE Deploy
    BY <2>1, CanaryAssumption DEF Deploy, TypeOK, Runtime
  <2>2. CASE RecoverRetire
    BY <2>2 DEF RecoverRetire, TypeOK
  <2> QED  BY <2>1, <2>2, UpSteps DEF TypeOK
<1>4. status' \in {"active", "cancelled", "done"} /\ seen' \in {"active", "cancelled", "done"}
  BY DEF Next, vars, Pipeline, Recovery, Deploy, Begin, SetStep, Before, WriteStep,
         Watch, Catch, Rollback, Held, Final, Unwind, Flip, Revert, Retire, Switch,
         Drain, RecoverClaim, RecoverEnd, RecoverSelect, RecoverConfirm, RecoverRetire,
         OtherWrite, Promote, Cancel, Lapse, Crash, pipeline, lease, recovery, ghosts,
         Goto, GotoWith, Leave, Complete, RecoverGivesUp, TypeOK
<1>5. pc' \in Stages /\ tries' \in 0..1
  BY DEF Next, vars, Pipeline, Recovery, Deploy, Begin, SetStep, Before, WriteStep,
         Watch, Catch, Rollback, Held, Final, Unwind, Flip, Revert, Retire, Switch,
         Drain, RecoverClaim, RecoverEnd, RecoverSelect, RecoverConfirm, RecoverRetire,
         OtherWrite, Promote, Cancel, Lapse, Crash, pipeline, lease, recovery, ghosts,
         Goto, GotoWith, Leave, Complete, RecoverGivesUp, TypeOK, Stages
<1>6. /\ journal' \in {"none", "pipe", "free", "rec"}
      /\ rec' \in {"idle", "claimed", "select", "confirm", "retire"}
      /\ (rec' # "idle") = (journal' = "rec")
  BY DEF Next, vars, Pipeline, Recovery, Deploy, Begin, SetStep, Before, WriteStep,
         Watch, Catch, Rollback, Held, Final, Unwind, Flip, Revert, Retire, Switch,
         Drain, RecoverClaim, RecoverEnd, RecoverSelect, RecoverConfirm, RecoverRetire,
         OtherWrite, Promote, Cancel, Lapse, Crash, pipeline, lease, recovery, ghosts,
         Goto, GotoWith, Leave, Complete, RecoverGivesUp, TypeOK, Leased
<1>7. active' \in Entries
  <2>1. active \in Entries
    BY DEF TypeOK, Entries
  <2>2. CASE active' = [dep |-> dep, stable |-> prev, step |-> 0, promote |-> FALSE]
    BY <2>2, CanaryAssumption DEF TypeOK, Entries
  <2>3. CASE /\ pc = "step" /\ Owned /\ active' = [active EXCEPT !.step = @ + 1]
    <3>1. active.step \in 0..Steps /\ active.step < Steps
      BY <2>1, <2>3 DEF RouteInv, Registry, Entries
    <3>2. active.step + 1 \in 0..Steps
      BY <3>1, CanaryAssumption
    <3> QED  BY <2>1, <2>3, <3>2 DEF Entries
  <2>4. ASSUME NEW d \in 1..N, Promote(d) PROVE active' \in Entries
    BY <2>1, <2>4 DEF Promote, Entries
  <2> QED  BY <2>1, <2>2, <2>3, <2>4, ActiveSteps, NoneEntry
<1>8. loaded' \in [stable : Runtime, canary : Runtime]
  BY LoadedSteps, RenderType DEF TypeOK
<1>9. {intends', touched', confirmed', interrupted'} \subseteq BOOLEAN
  <2>1. intends' \in {intends, TRUE, FALSE} /\ touched' \in {touched, TRUE, FALSE}
    BY DEF Next, vars, Pipeline, Recovery, Deploy, Begin, SetStep, Before, WriteStep,
           Watch, Catch, Rollback, Held, Final, Unwind, Flip, Revert, Retire, Switch,
           Drain, RecoverClaim, RecoverEnd, RecoverSelect, RecoverConfirm,
           RecoverRetire, OtherWrite, Promote, Cancel, Lapse, Crash, pipeline, lease,
           recovery, ghosts, Goto, GotoWith, Leave, Complete, RecoverGivesUp
  <2>2. confirmed' \in {confirmed, TRUE, FALSE}
    BY DEF Next, vars, Pipeline, Recovery, Deploy, Begin, SetStep, Before, WriteStep,
           Watch, Catch, Rollback, Held, Final, Unwind, Flip, Revert, Retire, Switch,
           Drain, RecoverClaim, RecoverEnd, RecoverSelect, RecoverConfirm,
           RecoverRetire, OtherWrite, Promote, Cancel, Lapse, Crash, pipeline, lease,
           recovery, ghosts, Goto, GotoWith, Leave, Complete, RecoverGivesUp
  <2>3. interrupted' \in {interrupted, FALSE} \/ Crash
    BY DEF Next, vars, Pipeline, Recovery, Deploy, Begin, SetStep, Before, WriteStep,
           Watch, Catch, Rollback, Held, Final, Unwind, Flip, Revert, Retire, Switch,
           Drain, RecoverClaim, RecoverEnd, RecoverSelect, RecoverConfirm,
           RecoverRetire, OtherWrite, Promote, Cancel, Lapse, pipeline, lease, recovery,
           ghosts, Goto, GotoWith, Leave, Complete, RecoverGivesUp
  <2>4. Crash => interrupted' \in BOOLEAN
    BY Zenon DEF Crash
  <2> QED  BY <2>1, <2>2, <2>3, <2>4, Zenon DEF TypeOK
<1>10. asked' \subseteq 1..N /\ passed' \in 0..Steps
  BY CanaryAssumption DEF Next, vars, Pipeline, Recovery, Deploy, Begin, SetStep,
         Before, WriteStep, Watch, Catch, Rollback, Held, Final, Unwind, Flip, Revert,
         Retire, Switch, Drain, RecoverClaim, RecoverEnd, RecoverSelect, RecoverConfirm,
         RecoverRetire, OtherWrite, Promote, Cancel, Lapse, Crash, pipeline, lease,
         recovery, ghosts, Goto, GotoWith, Leave, Complete, RecoverGivesUp, TypeOK
<1>11. spent' \in [Budget -> Nat] /\ \A b \in Budget : spent'[b] <= Limit[b]
  <2>1. CASE spent' = spent
    BY <2>1 DEF TypeOK
  <2> QED  BY <2>1, SpentSteps, SpendType
<1> QED
  BY <1>1, <1>2, <1>3, <1>4, <1>5, <1>6, <1>7, <1>8, <1>9, <1>10, <1>11 DEF TypeOK, Entries

-----------------------------------------------------------------------------
(* What the loaded routes use is up                                        *)

\* The transition is opened by a deployment, and closed by whoever stopped a
\* release of it; the lease is lost once and for all.
LEMMA JournalSteps ==
    ASSUME TypeOK, [Next]_vars
    PROVE  /\ journal' = "pipe" => journal = "pipe" \/ Deploy
           /\ journal' # "none" => journal # "none" \/ Deploy
           /\ journal' = "none" =>
                 \/ journal = "none"
                 \/ pc = "retire" /\ Leased /\ active = None
                 \/ pc = "drain" /\ Leased
                 \/ rec = "retire"
           /\ pc' # "idle" => pc # "idle" \/ Deploy
           /\ Deploy => /\ pc = "idle" /\ journal = "none" /\ dep' = dep + 1 /\ prev' = row
                        /\ row' = row /\ loaded' = loaded /\ active' = active /\ rec' = rec
                        /\ up' = up \cup {dep + 1} /\ pc' = "begin" /\ ~interrupted'
           /\ rec' \in {"select", "confirm", "retire"} =>
                 active' = None \/ rec \in {"select", "confirm", "retire"}
BY DEF Next, vars, Pipeline, Recovery, Deploy, Begin, SetStep, Before, WriteStep, Watch,
       Catch, Rollback, Held, Final, Unwind, Flip, Revert, Retire, Switch, Drain,
       RecoverClaim, RecoverEnd, RecoverSelect, RecoverConfirm, RecoverRetire,
       OtherWrite, Promote, Cancel, Lapse, Crash, pipeline, lease, recovery, ghosts,
       Goto, GotoWith, Leave, Complete, RecoverGivesUp, Leased, TypeOK

LEMMA RenderFacts ==
    ASSUME TypeOK, RouteInv
    PROVE  /\ Render.stable = row /\ (Render.canary = 0 \/ Render.canary = dep)
           /\ active = None => Render.canary = 0
           /\ Render.canary # 0 => dep \in up
<1>1. active = None => active.step = 0
  BY NoneEntry
<1>2. Render.stable = row /\ Render.canary = IF active.step > 0 /\ active.stable = row
                                             THEN active.dep ELSE 0
  BY DEF Render
<1> QED
  BY <1>1, <1>2 DEF RouteInv, Registry, BothKept, TypeOK

LEMMA StepRoute == ASSUME TypeOK, RouteInv, [Next]_vars PROVE RouteInv'
<1> USE JournalSteps
<1>t. /\ dep \in Nat /\ prev \in Nat /\ row \in Nat
      /\ loaded.stable \in Nat /\ loaded.canary \in Nat
      /\ (rec # "idle") = (journal = "rec")
  BY CanaryAssumption DEF TypeOK, Runtime
<1>i. /\ Ordered /\ BothKept /\ Registry /\ Routed
      /\ NotYetRouted /\ WrittenAway /\ Switched /\ Recovered
  BY DEF RouteInv
<1>r. RecoverSelect => row' \in {prev, dep, row} /\ journal = "rec"
  BY <1>t DEF RecoverSelect, Selected
<1>1. Ordered'
  <2>1. CASE Deploy
    BY <1>t, <1>i, <2>1 DEF Ordered
  <2>2. CASE dep' = dep /\ prev' = prev
    <3>1. row' <= dep
      BY <1>t, <1>i, <1>r, RowSteps DEF Ordered, BothKept
    <3>2. loaded'.stable <= dep /\ loaded'.canary <= dep
      BY <1>t, <1>i, LoadedSteps, RenderFacts DEF Ordered
    <3> QED  BY <1>i, <2>2, <3>1, <3>2 DEF Ordered
  <2> QED  BY <2>1, <2>2, DepSteps
<1>2. BothKept'
  <2>1. CASE Deploy
    BY <1>t, <1>i, <2>1 DEF BothKept, Routed
  <2>2. CASE ~Deploy
    <3>1. dep' = dep /\ prev' = prev
      BY <2>2, DepSteps
    <3>2. RecoverRetire => up' = up \/ journal' = "none"
      BY DEF RecoverRetire
    <3>3. journal' # "none" => dep \in up' /\ prev \in up'
      BY <1>i, <2>2, <3>2, UpSteps DEF BothKept
    <3>4. interrupted' => pc' = "idle"
      <4>1. interrupted' => pc' = "idle" \/ interrupted
        BY DEF Next, vars, Pipeline, Recovery, Deploy, Begin, SetStep, Before,
               WriteStep, Watch, Catch, Rollback, Held, Final, Unwind, Flip, Revert,
               Retire, Switch, Drain, RecoverClaim, RecoverEnd, RecoverSelect,
               RecoverConfirm, RecoverRetire, OtherWrite, Promote, Cancel, Lapse, Crash,
               pipeline, lease, recovery, ghosts, Goto, GotoWith, Leave, Complete,
               RecoverGivesUp
      <4> QED  BY <1>i, <2>2, <4>1 DEF BothKept
    <3> QED  BY <1>i, <2>2, <3>1, <3>3, <3>4 DEF BothKept
  <2> QED  BY <2>1, <2>2
<1>3. Registry'
  <2>0. None.dep = 0 /\ None.step = 0 /\ None.promote = FALSE
    BY NoneEntry
  <2>1. active' # None => active'.dep = dep' /\ journal' # "none"
    <3>1. SUFFICES ASSUME active' # None PROVE active'.dep = dep' /\ journal' # "none"
      OBVIOUS
    <3>2. CASE active' = active
      BY <1>i, <3>1, <3>2, DepSteps DEF Registry, Switched
    <3>3. CASE /\ pc = "begin" /\ Leased /\ journal' = journal
               /\ active' = [dep |-> dep, stable |-> prev, step |-> 0, promote |-> FALSE]
      BY <3>3, DepSteps DEF Leased
    <3>4. CASE /\ pc = "step" /\ Leased /\ Owned /\ journal' = journal
               /\ active' = [active EXCEPT !.step = @ + 1]
      <4>1. active'.dep = active.dep
        BY <3>4 DEF TypeOK
      <4> QED  BY <3>4, <4>1, DepSteps DEF Leased, Owned
    <3>5. ASSUME NEW d \in 1..N, Promote(d) PROVE active'.dep = dep' /\ journal' # "none"
      <4>1. /\ active'.dep = active.dep /\ active.dep = d /\ active # None
            /\ dep' = dep /\ journal' = journal
        BY <2>0, <3>5 DEF Promote, TypeOK, pipeline, lease
      <4> QED  BY <1>i, <4>1 DEF Registry
    <3> QED  BY <3>1, <3>2, <3>3, <3>4, <3>5, ActiveSteps
  <2>2. active'.promote => active'.dep \in asked'
    <3>1. asked \subseteq asked'
      BY DEF Next, vars, Pipeline, Recovery, Deploy, Begin, SetStep, Before, WriteStep,
             Watch, Catch, Rollback, Held, Final, Unwind, Flip, Revert, Retire, Switch,
             Drain, RecoverClaim, RecoverEnd, RecoverSelect, RecoverConfirm,
             RecoverRetire, OtherWrite, Promote, Cancel, Lapse, Crash, ghosts
    <3>2. CASE active' = [active EXCEPT !.step = @ + 1]
      <4>1. active'.dep = active.dep /\ active'.promote = active.promote
        BY <3>2 DEF TypeOK
      <4> QED  BY <1>i, <3>1, <4>1 DEF Registry
    <3>3. ASSUME NEW d \in 1..N, Promote(d) PROVE active'.dep \in asked'
      BY <3>3 DEF Promote, TypeOK
    <3>4. CASE active' = [dep |-> dep, stable |-> prev, step |-> 0, promote |-> FALSE]
      BY <3>4
    <3> QED  BY <1>i, <2>0, <3>1, <3>2, <3>3, <3>4, ActiveSteps DEF Registry
  <2>3. pc' = "step" /\ Owned' => active'.step < Steps
    <3>1. SUFFICES ASSUME pc' = "step", Owned' PROVE active'.step < Steps
      OBVIOUS
    <3>2. /\ pc # "idle" /\ dep' = dep
          /\ \/ active' = active /\ (pc = "step" \/ active.step # Steps)
             \/ active' = None
             \/ active' = [dep |-> dep, stable |-> prev, step |-> 0, promote |-> FALSE]
             \/ pc = "step" /\ \E d \in 1..N : Promote(d)
      <4>1. pc # "idle" /\ dep' = dep
        BY <3>1, DepSteps
      <4>2. pc = "step" => \/ active' = active \/ active' = None
                          \/ \E d \in 1..N : Promote(d)
        BY <3>1 DEF Next, vars, Pipeline, Recovery, Deploy, Begin, SetStep, Before,
               WriteStep, Watch, Catch, Rollback, Held, Final, Unwind, Flip, Revert,
               Retire, Switch, Drain, RecoverClaim, RecoverEnd, RecoverSelect,
               RecoverConfirm, RecoverRetire, OtherWrite, Cancel, Lapse, Crash, Goto,
               Leave, Checked
      <4>3. pc # "step" => Begin \/ Watch
        BY <3>1 DEF Next, vars, Pipeline, Recovery, Deploy, SetStep, Before, WriteStep,
               Catch, Rollback, Held, Final, Unwind, Flip, Revert, Retire, Switch,
               Drain, RecoverClaim, RecoverEnd, RecoverSelect, RecoverConfirm,
               RecoverRetire, OtherWrite, Promote, Cancel, Lapse, Crash, pipeline,
               lease, recovery, ghosts, Goto, GotoWith, Leave, Complete, RecoverGivesUp
      <4> QED  BY <3>1, <4>1, <4>2, <4>3 DEF Begin, Watch, Goto, Leave
    <3>3. ASSUME pc = "step", NEW d \in 1..N, Promote(d)
          PROVE  active'.step = active.step /\ active.dep = active'.dep
      BY <3>3 DEF Promote, TypeOK
    <3>4. active.step \in 0..Steps /\ Steps \in Nat \ {0}
      BY CanaryAssumption DEF TypeOK
    <3> QED  BY <1>i, <2>0, <3>1, <3>2, <3>3, <3>4 DEF Registry, Owned
  <2>4. rec' \in {"select", "confirm", "retire"} => active' = None
    <3>1. ASSUME active = None, NEW d \in 1..N, Promote(d) PROVE FALSE
      BY <2>0, <3>1 DEF Promote
    <3>2. SUFFICES ASSUME rec' \in {"select", "confirm", "retire"},
                          rec \in {"select", "confirm", "retire"} PROVE active' = None
      OBVIOUS
    <3> QED  BY <1>t, <1>i, <3>1, <3>2, ActiveSteps DEF Registry, Leased
  <2> QED  BY <2>1, <2>2, <2>3, <2>4 DEF Registry
<1>4. Routed'
  <2>1. CASE Deploy
    BY <1>i, <2>1 DEF Routed
  <2>2. CASE up' = up
    <3>1. row' \in up
      <4>1. dep > 0 /\ journal # "none" => dep \in up /\ prev \in up
        BY <1>i DEF BothKept
      <4> QED  BY <1>i, <1>r, <4>1, RowSteps DEF Routed, BothKept, Leased
    <3>2. loaded'.stable \in up /\ (loaded'.canary = 0 \/ loaded'.canary \in up)
      BY <1>i, LoadedSteps, RenderFacts DEF Routed
    <3> QED  BY <2>2, <3>1, <3>2 DEF Routed
  <2>3. CASE /\ pc = "retire" /\ Leased /\ active = None /\ row # dep /\ up' = up \ {dep}
    <3>1. row' = row
      BY <1>t, <1>r, <2>3, RowSteps DEF Leased
    <3>2. Unwritten(dep) /\ dep > 0
      BY <1>i, <2>3 DEF WrittenAway, BothKept
    <3>3. loaded'.stable \in up' /\ (loaded'.canary = 0 \/ loaded'.canary \in up')
      BY <1>i, <2>3, <3>2, LoadedSteps, RenderFacts DEF Routed, Unwritten
    <3> QED  BY <1>i, <2>3, <3>1, <3>3 DEF Routed
  <2>4. CASE pc = "drain" /\ Leased /\ row # prev /\ up' = up \ {prev}
    <3>1. row' = row
      BY <1>t, <1>r, <2>4, RowSteps DEF Leased
    <3>2. loaded' = Render /\ active = None
      BY <1>i, <2>4, LoadedSteps DEF Switched
    <3> QED  BY <1>i, <2>4, <3>1, <3>2, RenderFacts DEF Routed
  <2>5. CASE RecoverRetire
    <3>1. /\ row' = row /\ (up' = up \/ up' = up \ ({prev, dep} \ {row})) /\ rec = "retire"
          /\ loaded' = loaded
      BY <2>5 DEF RecoverRetire
    <3>2. loaded = Render /\ active = None
      BY <1>i, <3>1 DEF Recovered, Registry
    <3> QED  BY <1>i, <3>1, <3>2, RenderFacts DEF Routed
  <2> QED  BY <2>1, <2>2, <2>3, <2>4, <2>5, UpSteps
\* Without a write that changes them, and without a step of their owner, the
\* routes of an unchanged row and an empty registry stay what they are.
<1>5. NotYetRouted'
  <2>1. SUFFICES ASSUME Leased', pc' = "begin"
                 PROVE  active' = None /\ row' # dep' /\ Unwritten(dep)'
    BY DEF NotYetRouted
  <2>2. CASE Deploy
    BY <1>t, <1>i, <2>2 DEF Ordered, Registry, Unwritten
  <2>3. CASE ~Deploy
    <3>1. Leased /\ pc = "begin" /\ dep' = dep
      <4>1. pc = "begin"
        BY <2>1, <2>3 DEF Next, vars, Pipeline, Recovery, Begin, SetStep, Before,
               WriteStep, Watch, Catch, Rollback, Held, Final, Unwind, Flip, Revert,
               Retire, Switch, Drain, RecoverClaim, RecoverEnd, RecoverSelect,
               RecoverConfirm, RecoverRetire, OtherWrite, Promote, Cancel, Lapse, Crash,
               pipeline, lease, recovery, ghosts, Goto, GotoWith, Leave, Complete,
               RecoverGivesUp
      <4> QED  BY <2>1, <2>3, <4>1, DepSteps DEF Leased
    <3>2. active = None /\ row # dep /\ Unwritten(dep)
      BY <1>i, <3>1 DEF NotYetRouted
    <3>3. row' = row /\ active' = None
      <4>1. ASSUME NEW d \in 1..N, Promote(d) PROVE FALSE
        BY <3>2, <4>1, NoneEntry DEF Promote
      <4> QED  BY <1>t, <1>r, <2>1, <3>1, <3>2, <4>1, RowSteps, ActiveSteps DEF Leased
    <3> QED  BY <1>i, <3>1, <3>2, <3>3, LoadedSteps, RenderFacts DEF Unwritten, BothKept
  <2> QED  BY <2>2, <2>3
<1>6. WrittenAway'
  <2>1. SUFFICES ASSUME Leased', pc' = "retire", active' = None, row' # dep' PROVE Unwritten(dep)'
    BY DEF WrittenAway
  <2>2. Leased /\ dep' = dep /\ dep > 0 /\ row' = row
    <3>1. ~Deploy
      BY <2>1
    <3>2. Leased /\ dep' = dep
      BY <2>1, <3>1, DepSteps DEF Leased
    <3>3. pc \notin {"final", "flip", "switch"}
      BY <2>1 DEF Next, vars, Pipeline, Recovery, Deploy, Begin, SetStep, Before,
             WriteStep, Watch, Catch, Rollback, Held, Final, Unwind, Flip, Revert,
             Retire, Switch, Drain, RecoverClaim, RecoverEnd, RecoverSelect,
             RecoverConfirm, RecoverRetire, OtherWrite, Promote, Cancel, Lapse, Crash,
             pipeline, lease, recovery, ghosts, Goto, GotoWith, Leave, Complete,
             RecoverGivesUp
    <3> QED  BY <1>t, <1>i, <1>r, <3>2, <3>3, RowSteps DEF BothKept, Leased
  <2>3. \/ pc \in {"begin", "retire"} /\ active = None
        \/ loaded' = Render /\ active = None
    <3>1. ASSUME NEW d \in 1..N, Promote(d) PROVE active' # None
      <4>1. active'.promote = TRUE
        BY <3>1 DEF Promote, TypeOK
      <4> QED  BY <4>1, NoneEntry
    <3> QED
      BY <1>t, <2>1, <2>2, <3>1 DEF Next, vars, Pipeline, Recovery, Deploy, Begin,
             SetStep, Before, WriteStep, Watch, Catch, Rollback, Held, Final, Unwind,
             Flip, Revert, Retire, Switch, Drain, RecoverClaim, RecoverEnd,
             RecoverSelect, RecoverConfirm, RecoverRetire, OtherWrite, Cancel, Lapse,
             Crash, pipeline, lease, recovery, ghosts, Goto, GotoWith, Leave, Complete,
             RecoverGivesUp, WriteOk, Leased
  <2>4. CASE pc = "begin" /\ active = None
    BY <1>i, <2>2, <2>4, LoadedSteps, RenderFacts DEF NotYetRouted, Unwritten
  <2>5. CASE pc = "retire" /\ active = None
    BY <1>i, <2>1, <2>2, <2>5, LoadedSteps, RenderFacts DEF WrittenAway, Unwritten
  <2>6. CASE loaded' = Render /\ active = None
    BY <2>1, <2>2, <2>6, RenderFacts DEF Unwritten
  <2> QED  BY <2>3, <2>4, <2>5, <2>6
<1>7. Switched'
  <2>1. SUFFICES ASSUME Leased', pc' \in {"flip", "switch", "drain"}
                 PROVE  /\ active' = None /\ row' = dep'
                        /\ pc' \in {"switch", "drain"} => loaded' = Render'
    BY DEF Switched
  <2>2. Leased /\ dep' = dep /\ ~Deploy
    BY <2>1, DepSteps DEF Leased
  <2>3. \/ pc = "final" /\ active' = None /\ row' = dep /\ pc' = "flip"
        \/ /\ pc \in {"flip", "switch", "drain"} /\ row' = row
           /\ pc' \in {"switch", "drain"} => pc \in {"switch", "drain"} \/ loaded' = Render
    BY <1>t, <2>1, <2>2 DEF Next, vars, Pipeline, Recovery, Deploy, Begin, SetStep,
           Before, WriteStep, Watch, Catch, Rollback, Held, Final, Unwind, Flip, Revert,
           Retire, Switch, Drain, RecoverClaim, RecoverEnd, RecoverSelect,
           RecoverConfirm, RecoverRetire, OtherWrite, Promote, Cancel, Lapse, Crash,
           pipeline, lease, recovery, ghosts, Goto, GotoWith, Leave, Complete,
           RecoverGivesUp, WriteOk, Leased, Owned
  <2>4. CASE pc \in {"flip", "switch", "drain"} /\ row' = row
    <3>1. active = None /\ row = dep
      BY <1>i, <2>2, <2>4 DEF Switched
    <3>2. ASSUME NEW d \in 1..N, Promote(d) PROVE FALSE
      BY <3>1, <3>2, NoneEntry DEF Promote
    <3>3. active' = None
      BY <2>4, <3>1, <3>2, ActiveSteps
    <3>4. Render' = Render
      BY <2>4, <3>1, <3>3 DEF Render
    <3>5. pc \in {"switch", "drain"} => loaded' = Render
      BY <1>i, <2>2, LoadedSteps DEF Switched
    <3> QED  BY <2>2, <2>3, <2>4, <3>1, <3>3, <3>4, <3>5
  <2> QED  BY <2>2, <2>3, <2>4
<1>8. Recovered'
  <2>1. SUFFICES ASSUME rec' = "retire" PROVE loaded' = Render'
    BY DEF Recovered
  <2>2. row' = row /\ ((rec = "confirm" /\ loaded' = Render) \/ rec = "retire")
    BY <1>t, <2>1 DEF Next, vars, Pipeline, Recovery, Deploy, Begin, SetStep, Before,
           WriteStep, Watch, Catch, Rollback, Held, Final, Unwind, Flip, Revert, Retire,
           Switch, Drain, RecoverClaim, RecoverEnd, RecoverSelect, RecoverConfirm,
           RecoverRetire, OtherWrite, Promote, Cancel, Lapse, Crash, pipeline, lease,
           recovery, ghosts, Goto, GotoWith, Leave, Complete, RecoverGivesUp, WriteOk,
           Leased
  <2>3. active = None /\ active' = None
    BY <1>3, <1>i, <2>1, <2>2 DEF Registry
  <2>4. Render' = Render
    BY <2>2, <2>3 DEF Render
  <2> QED  BY <1>i, <2>2, <2>4, LoadedSteps DEF Recovered
<1> QED
  BY <1>1, <1>2, <1>3, <1>4, <1>5, <1>6, <1>7, <1>8 DEF RouteInv

LEMMA InitRoute == Init => RouteInv
<1> SUFFICES ASSUME Init PROVE RouteInv
  OBVIOUS
<1>1. Ordered /\ BothKept /\ Registry
  BY NoneEntry DEF Init, Ordered, BothKept, Registry
<1>2. Routed /\ NotYetRouted /\ WrittenAway /\ Switched /\ Recovered
  BY DEF Init, Routed, NotYetRouted, WrittenAway, Switched, Recovered, Leased
<1> QED
  BY <1>1, <1>2 DEF RouteInv

\* The types and the invariant of the routes, by one induction: a type needs
\* that no step is set beyond the last, the invariant needs the types.
LEMMA RouteInvariant == Spec => [](TypeOK /\ RouteInv)
<1>1. Init => TypeOK /\ RouteInv
  BY InitType, InitRoute
<1>2. TypeOK /\ RouteInv /\ [Next]_vars => (TypeOK /\ RouteInv)'
  BY StepType, StepRoute
<1> QED
  BY <1>1, <1>2, PTL DEF Spec

\* Type correctness, the bounds of the traffic steps and of the budgets included:
\* setCanaryStep never goes beyond the last share (canary.ts).
THEOREM TypeCorrect == Spec => []TypeOK
BY RouteInvariant, PTL

\* Route everything back before the container is stopped, for any number of
\* deployments, faults, lapses, cancels and restarts: whoever stops a release,
\* the pipeline or the recovery, no loaded route sends traffic to it.
THEOREM RoutedIsUpHolds == Spec => []RoutedIsUp
<1>1. TypeOK /\ RouteInv => RoutedIsUp
  BY DEF RouteInv, Routed, RoutedIsUp
<1> QED
  BY <1>1, RouteInvariant, PTL

-----------------------------------------------------------------------------
(* All traffic is earned                                                   *)

LEMMA StepEarning == ASSUME TypeOK, RouteInv, Earning, [Next]_vars PROVE Earning'
<1>t. dep \in Nat /\ row \in Nat /\ prev \in Nat
  BY CanaryAssumption DEF TypeOK, Runtime
<1>1. CASE Deploy
  BY <1>1, <1>t DEF Deploy, Earning, RouteInv, Ordered
<1>2. CASE Watch
  <2>1. /\ pc = "watch" /\ row' = row /\ intends' = intends /\ dep' = dep /\ asked' = asked
        /\ pc' \in {"held", "step", "catch"}
        /\ pc' = "held" => passed' = Steps \/ (Owned /\ active.promote)
    BY <1>2 DEF Watch, Goto, lease, Checked
  <2>2. ~intends /\ row # dep
    BY <2>1 DEF Earning
  <2>3. pc' = "held" => Earned'
    BY <2>1 DEF RouteInv, Registry, Owned, Earned
  <2> QED  BY <2>1, <2>2, <2>3 DEF Earning
<1>3. CASE ~Deploy /\ ~Watch
  <2>1. dep' = dep /\ prev' = prev
    BY <1>3, DepSteps
  <2>2. Earned => Earned'
    <3>1. passed' = passed /\ asked \subseteq asked'
      BY <1>3 DEF Next, vars, Pipeline, Recovery, Begin, SetStep, Before, WriteStep,
             Catch, Rollback, Held, Final, Unwind, Flip, Revert, Retire, Switch, Drain,
             RecoverClaim, RecoverEnd, RecoverSelect, RecoverConfirm, RecoverRetire,
             OtherWrite, Promote, Cancel, Lapse, Crash, ghosts
    <3> QED  BY <2>1, <3>1 DEF Earned
  <2>3. /\ pc' \in {"begin", "step", "before", "write", "watch"} =>
              pc \in {"begin", "step", "before", "write", "watch"} /\ (intends' => intends)
        /\ pc' \in {"held", "final"} => pc \in {"held", "final"}
        /\ intends' => intends \/ pc = "held"
    BY <1>3 DEF Next, vars, Pipeline, Recovery, Begin, SetStep, Before, WriteStep,
           Catch, Rollback, Held, Final, Unwind, Flip, Revert, Retire, Switch, Drain,
           RecoverClaim, RecoverEnd, RecoverSelect, RecoverConfirm, RecoverRetire,
           OtherWrite, Promote, Cancel, Lapse, Crash, pipeline, lease, recovery, ghosts,
           Goto, GotoWith, Leave, Complete, RecoverGivesUp
  <2>4. row' = dep /\ dep > 0 => row = dep \/ pc = "final" \/ (intends /\ pc = "idle")
    <3>1. dep > 0 => prev # dep
      BY <1>t DEF RouteInv, Ordered
    <3>2. RecoverSelect => row' \in {row, prev} \/ (intends /\ pc = "idle")
      BY DEF RecoverSelect, Selected, RouteInv, BothKept
    <3> QED  BY <1>t, <3>1, <3>2, RowSteps
  <2>5. pc' \in {"begin", "step", "before", "write", "watch"} => ~intends' /\ row' # dep'
    <3>1. dep > 0 \/ pc = "idle"
      BY <1>t DEF RouteInv, BothKept
    <3> QED  BY <2>1, <2>3, <2>4, <3>1 DEF Earning
  <2>6. pc' \in {"held", "final"} \/ intends' => Earned'
    BY <2>2, <2>3 DEF Earning
  <2>7. row' = dep' /\ dep' > 0 => Earned'
    BY <2>1, <2>2, <2>4 DEF Earning
  <2> QED  BY <2>5, <2>6, <2>7 DEF Earning
<1> QED
  BY <1>1, <1>2, <1>3

\* All traffic goes to a candidate only after every step passed or its promotion
\* was asked for, for any number of deployments and restarts: an interrupted
\* switch that the recovery completes was earned before, and a promotion of an
\* earlier deployment never counts.
THEOREM SwitchIsEarnedHolds == Spec => []SwitchIsEarned
<1>1. Init => Earning
  BY DEF Init, Earning
<1>2. TypeOK /\ RouteInv /\ Earning /\ [Next]_vars => Earning'
  BY StepEarning
<1>3. Earning => SwitchIsEarned
  BY DEF Earning, Earned, SwitchIsEarned
<1> QED
  BY <1>1, <1>2, <1>3, RouteInvariant, PTL DEF Spec
=============================================================================
