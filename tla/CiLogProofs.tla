----------------------------- MODULE CiLogProofs -----------------------------
(***************************************************************************)
(* Proofs about CiLog for every number of chunks, tries, crashes and       *)
(* failed appends.  The order and the completeness of the log rest on the  *)
(* shipped driver: the statements of appendLog run without another handler *)
(* in between, so at most one handler is past its check, and it is about   *)
(* the chunk that logSeq comes to.                                         *)
(***************************************************************************)
EXTENDS CiLog, FiniteSetTheorems, TLAPS

Stages == {"sent", "update", "append", "answer", "refuse"}
Handlers == [id : Ids, read : 0..Chunks, stage : Stages]

\* A handler that moves on stays a handler of the same try.
LEMMA Moved ==
    ASSUME NEW h \in Handlers, NEW s \in Stages
    PROVE  /\ [h EXCEPT !.stage = s] \in Handlers
           /\ [h EXCEPT !.stage = s].stage = s
           /\ [h EXCEPT !.stage = s].read = h.read
           /\ SeqOf([h EXCEPT !.stage = s]) = SeqOf(h)
BY DEF Handlers, SeqOf

\* The same, with the count that it read.
LEMMA Read ==
    ASSUME NEW h \in Handlers, NEW r \in 0..Chunks, NEW s \in Stages
    PROVE  /\ [h EXCEPT !.read = r, !.stage = s] \in Handlers
           /\ [h EXCEPT !.read = r, !.stage = s].stage = s
           /\ [h EXCEPT !.read = r, !.stage = s].read = r
           /\ SeqOf([h EXCEPT !.read = r, !.stage = s]) = SeqOf(h)
BY DEF Handlers, SeqOf

LEMMA SeqRange ==
    ASSUME NEW h \in Handlers
    PROVE  SeqOf(h) \in 1..Chunks
BY LogAssumption DEF Handlers, Ids, SeqOf

LEMMA TypeInit == Init => TypeOK
<1> SUFFICES ASSUME Init PROVE TypeOK
  OBVIOUS
<1>1. waiting \in BOOLEAN /\ over \in BOOLEAN
  BY Zenon DEF Init
<1>2. file \in Seq(1..Chunks)
  BY DEF Init
<1>3. /\ 0 \in 0..MaxTries /\ 1 \in 1..(Chunks + 1) /\ 0 \in 0..Chunks
      /\ 0 \in 0..MaxCrashes /\ 0 \in 0..MaxFaults
  BY LogAssumption
<1> QED
  BY <1>1, <1>2, <1>3 DEF Init, TypeOK

\* Every step keeps every variable in its type.
LEMMA TypePreserved ==
    ASSUME TypeOK, [Next]_vars
    PROVE  TypeOK'
<1> USE LogAssumption
<1>0. handlers \subseteq Handlers
  BY DEF TypeOK, Handlers, Stages
<1>1. CASE Send
  <2>1. [id |-> <<next, tries + 1>>, read |-> 0, stage |-> "sent"] \in Handlers
    BY <1>1 DEF Send, TypeOK, Handlers, Stages, Ids
  <2>2. handlers' \subseteq Handlers
    BY <1>0, <1>1, <2>1 DEF Send
  <2>3. waiting' \in BOOLEAN
    BY <1>1, Zenon DEF Send
  <2>4. tries' \in 0..MaxTries
    BY <1>1 DEF Send, TypeOK
  <2> QED
    BY <1>1, <2>2, <2>3, <2>4 DEF Send, Panel, TypeOK, Handlers, Stages
<1>2. CASE Disconnect
  BY <1>2 DEF Disconnect, Panel, TypeOK
<1>3. CASE GiveUp
  BY <1>3 DEF GiveUp, Panel, TypeOK
<1>4. CASE End
  BY <1>4 DEF End, Shipper, TypeOK
<1>5. CASE Crash
  <2>1. waiting' \in BOOLEAN
    BY <1>5, Zenon DEF Crash
  <2> QED
    BY <1>5, <2>1 DEF Crash, TypeOK
<1>6. ASSUME NEW h \in handlers, Check(h) PROVE TypeOK'
  <2>1. \A s \in Stages : [h EXCEPT !.read = logSeq, !.stage = s] \in Handlers
    BY <1>0, Read DEF TypeOK
  <2>2. handlers' \subseteq Handlers
    <3>1. PICK s \in Stages :
             handlers' = (handlers \ {h}) \cup {[h EXCEPT !.read = logSeq, !.stage = s]}
      BY <1>6, Zenon DEF Check, Stages
    <3> QED
      BY <1>0, <2>1, <3>1
  <2> QED
    BY <1>6, <2>2 DEF Check, Shipper, Panel, TypeOK, Handlers, Stages
<1>7. ASSUME NEW h \in handlers, Update(h) PROVE TypeOK'
  <2>1. handlers' \subseteq Handlers
    <3>1. \E s \in Stages : handlers' = (handlers \ {h}) \cup {[h EXCEPT !.stage = s]}
      BY <1>7 DEF Update, Goto, Stages
    <3> QED
      BY <1>0, <3>1, Moved
  <2>2. logSeq' \in 0..Chunks
    BY <1>0, <1>7, SeqRange DEF Update, TypeOK
  <2> QED
    BY <1>7, <2>1, <2>2 DEF Update, Shipper, TypeOK, Handlers, Stages
<1>8. ASSUME NEW h \in handlers, Store(h) PROVE TypeOK'
  <2>1. handlers' \subseteq Handlers
    BY <1>0, <1>8, Moved DEF Store, Goto, Stages
  <2>2. Append(file, SeqOf(h)) \in Seq(1..Chunks)
    BY <1>0, SeqRange DEF TypeOK
  <2>3. file' \in Seq(1..Chunks)
    BY <1>8, <2>2 DEF Store, TypeOK
  <2> QED
    BY <1>8, <2>1, <2>3 DEF Store, Shipper, TypeOK, Handlers, Stages
<1>9. ASSUME NEW h \in handlers, Answer(h) PROVE TypeOK'
  <2>1. SeqOf(h) \in 1..Chunks
    BY <1>0, SeqRange
  <2>2. handlers' \subseteq Handlers
    BY <1>0, <1>9 DEF Answer
  <2>3. CASE waiting /\ h.id = <<next, tries>>
    <3>1. next = SeqOf(h)
      BY <2>3 DEF SeqOf
    <3>2. waiting' \in BOOLEAN
      BY <1>9, <2>3, Zenon DEF Answer
    <3>3. acked' \subseteq 1..Chunks
      BY <1>9, <2>1, <2>3 DEF Answer, TypeOK
    <3>4. next' \in 1..(Chunks + 1) /\ tries' \in 0..MaxTries
      BY <1>9, <2>1, <2>3, <3>1 DEF Answer
    <3> QED
      BY <1>9, <2>2, <3>2, <3>3, <3>4 DEF Answer, Panel, TypeOK, Handlers, Stages
  <2>4. CASE ~(waiting /\ h.id = <<next, tries>>)
    BY <1>9, <2>2, <2>4 DEF Answer, Panel, Shipper, TypeOK, Handlers, Stages
  <2> QED
    BY <2>3, <2>4
<1>10. ASSUME NEW h \in handlers, StoreFails(h) PROVE TypeOK'
  <2>1. handlers' \subseteq Handlers
    BY <1>0, <1>10 DEF StoreFails
  <2>2. waiting' \in BOOLEAN
    BY <1>10, Zenon DEF StoreFails
  <2> QED
    BY <1>10, <2>1, <2>2 DEF StoreFails, TypeOK, Handlers, Stages
<1>11. CASE UNCHANGED vars
  BY <1>11 DEF vars, TypeOK
<1> QED
  BY <1>1, <1>2, <1>3, <1>4, <1>5, <1>6, <1>7, <1>8, <1>9, <1>10, <1>11 DEF Next, Handler

\* Type correctness of the runner's and the panel's bookkeeping; no assumption
\* on the driver.
THEOREM TypeCorrect == Spec => []TypeOK
BY TypeInit, TypePreserved, PTL DEF Spec

-----------------------------------------------------------------------------

\* What the log holds of chunk n, if it has room for it.
Stored(n) == n <= Room => \E i \in DOMAIN file : file[i] = n

\* A handler is past its check but not through with its statements.
Busy(h) == h.stage \in {"update", "append"}

\* The statements of one handler at a time.
OneBusy == \A g, h \in handlers : Busy(g) /\ Busy(h) => g = h

\* What a handler past its check knows: it adds the chunk after the count it
\* read; once it counted the chunk, no later one is counted or stored.
BusyKnows ==
    \A h \in handlers :
        /\ Busy(h) => SeqOf(h) = h.read + 1
        /\ h.stage = "append" => logSeq = SeqOf(h) /\ \A i \in DOMAIN file : file[i] < SeqOf(h)

\* Nothing is stored before it is counted.
CountedFirst == \A i \in DOMAIN file : file[i] <= logSeq

\* Chunk n is counted and its append still ahead.
InHand(n) == \E h \in handlers : h.stage = "append" /\ SeqOf(h) = n

\* What was counted, is not in the file and will not come into it.
Gap == {n \in 1..logSeq : ~Stored(n) /\ ~InHand(n)}

\* What is answered or acknowledged was counted before, and its append is over.
AnsweredIsCounted ==
    /\ \A h \in handlers : h.stage = "answer" => SeqOf(h) <= logSeq /\ ~InHand(SeqOf(h))
    /\ \A n \in acked : n <= logSeq /\ ~InHand(n)

\* A chunk gets into the gap only by a panel death or a failed append.
GapIsPaidFor == Cardinality(Gap) <= crashes + faults

LogInv == InOrder /\ OneBusy /\ BusyKnows /\ CountedFirst /\ AnsweredIsCounted /\ GapIsPaidFor

\* How the file grows in one step, and what stays stored.
LEMMA FileGrows ==
    ASSUME file \in Seq(1..Chunks), NEW c \in 1..Chunks, file' = Append(file, c)
    PROVE  /\ DOMAIN file = 1..Len(file) /\ Len(file) \in Nat
           /\ DOMAIN file' = 1..(Len(file) + 1)
           /\ \A i \in DOMAIN file : file'[i] = file[i]
           /\ file'[Len(file) + 1] = c
OBVIOUS

\* With the shipped driver, a step is of no handler or of the only busy one.
LEMMA Alone ==
    ASSUME ~DriverSuspends, NEW h \in handlers, MayRun(h)
    PROVE  \A g \in handlers : Busy(g) => g = h
BY DEF MayRun, Busy

\* What one more element costs.
LEMMA OneMore ==
    ASSUME NEW S, IsFiniteSet(S), NEW x, NEW T, T \subseteq S \cup {x}
    PROVE  /\ Cardinality(S) \in Nat /\ Cardinality(T) \in Nat
           /\ Cardinality(T) <= Cardinality(S) + 1
           /\ T \subseteq S => Cardinality(T) <= Cardinality(S)
<1>1. IsFiniteSet(S \cup {x}) /\ Cardinality(S) \in Nat
  BY FS_AddElement, FS_CardinalityType
<1>2. Cardinality(S \cup {x}) \in {Cardinality(S), Cardinality(S) + 1}
  BY FS_AddElement
<1>3. IsFiniteSet(T) /\ Cardinality(T) <= Cardinality(S \cup {x})
  BY <1>1, FS_Subset
<1>4. T \subseteq S => Cardinality(T) <= Cardinality(S)
  BY FS_Subset
<1> QED
  BY <1>1, <1>2, <1>3, <1>4, FS_CardinalityType

\* The gap is a finite set of chunks; as long as it does not grow it is paid for.
LEMMA GapFinite ==
    ASSUME TypeOK
    PROVE  IsFiniteSet(Gap) /\ crashes \in Nat /\ faults \in Nat
<1>1. IsFiniteSet(1..logSeq)
  BY FS_Interval DEF TypeOK
<1> QED
  BY <1>1, FS_Subset DEF Gap, TypeOK

LEMMA GapKept ==
    ASSUME TypeOK, GapIsPaidFor, Gap' \subseteq Gap, UNCHANGED <<crashes, faults>>
    PROVE  GapIsPaidFor'
<1> DEFINE D == Gap'
<1>1. Cardinality(D) <= Cardinality(Gap) /\ Cardinality(D) \in Nat /\ Cardinality(Gap) \in Nat
  <2>1. D \subseteq Gap \cup {0}
    OBVIOUS
  <2> HIDE DEF D
  <2>2. D \subseteq Gap
    BY DEF D
  <2> QED
    BY <2>1, <2>2, GapFinite, OneMore
<1> QED
  BY <1>1, GapFinite DEF GapIsPaidFor

LEMMA GapGrows ==
    ASSUME TypeOK, GapIsPaidFor, NEW x, Gap' \subseteq Gap \cup {x},
           crashes' + faults' = crashes + faults + 1
    PROVE  GapIsPaidFor'
<1> DEFINE D == Gap'
<1>1. /\ Cardinality(D) <= Cardinality(Gap) + 1
      /\ Cardinality(D) \in Nat /\ Cardinality(Gap) \in Nat
  <2>1. D \subseteq Gap \cup {x}
    OBVIOUS
  <2> HIDE DEF D
  <2> QED
    BY <2>1, GapFinite, OneMore
<1> QED
  BY <1>1, GapFinite DEF GapIsPaidFor

LEMMA LogInvInit == Init => LogInv
<1> SUFFICES ASSUME Init PROVE LogInv
  OBVIOUS
<1>1. Gap = {}
  BY DEF Init, Gap
<1>2. GapIsPaidFor
  BY <1>1, FS_EmptySet DEF Init, GapIsPaidFor
<1> QED
  BY <1>2 DEF Init, LogInv, InOrder, OneBusy, BusyKnows, CountedFirst, AnsweredIsCounted

\* A step that neither counts nor stores, nor touches a handler between the two.
LEMMA Aside ==
    ASSUME TypeOK, GapIsPaidFor, UNCHANGED <<logSeq, file, crashes, faults>>,
           \A n : InHand(n)' <=> InHand(n)
    PROVE  GapIsPaidFor'
<1>1. Gap' \subseteq Gap
  BY DEF Gap, Stored
<1> QED
  BY <1>1, GapKept

\* The invariant of the log's order and completeness is inductive.
LEMMA LogInvPreserved ==
    ASSUME ~DriverSuspends, TypeOK, LogInv, [Next]_vars
    PROVE  LogInv'
<1> USE LogAssumption
<1>0. /\ handlers \subseteq Handlers /\ logSeq \in 0..Chunks
      /\ file \in Seq(1..Chunks) /\ acked \subseteq 1..Chunks
  BY DEF TypeOK, Handlers, Stages
<1>1. CASE Send
  <2> DEFINE new == [id |-> <<next, tries + 1>>, read |-> 0, stage |-> "sent"]
  <2>1. new.stage = "sent"
    OBVIOUS
  <2> HIDE DEF new
  <2>2. handlers' = handlers \cup {new} /\ UNCHANGED <<acked, logSeq, file, crashes, faults>>
    BY <1>1 DEF Send, Panel, new
  <2>3. \A n : InHand(n)' <=> InHand(n)
    BY <2>1, <2>2 DEF InHand
  <2>4. AnsweredIsCounted'
    BY <2>1, <2>2, <2>3 DEF LogInv, AnsweredIsCounted
  <2> QED
    BY <2>1, <2>2, <2>3, <2>4, Aside DEF LogInv, InOrder, OneBusy, BusyKnows, CountedFirst, Busy
<1>2. CASE Disconnect \/ GiveUp \/ End
  <2>1. UNCHANGED <<handlers, acked, logSeq, file, crashes, faults>>
    BY <1>2 DEF Disconnect, GiveUp, End, Panel, Shipper
  <2>2. \A n : InHand(n)' <=> InHand(n)
    BY <2>1 DEF InHand
  <2>3. AnsweredIsCounted'
    BY <2>1, <2>2 DEF LogInv, AnsweredIsCounted
  <2> QED
    BY <2>1, <2>2, <2>3, Aside DEF LogInv, InOrder, OneBusy, BusyKnows, CountedFirst, Busy
<1>3. CASE Crash
  <2>1. handlers' = {} /\ crashes' = crashes + 1 /\ UNCHANGED <<acked, logSeq, file, faults>>
    BY <1>3 DEF Crash
  <2>2. AnsweredIsCounted'
    BY <2>1 DEF LogInv, AnsweredIsCounted, InHand
  <2>3. PICK x : \A n : InHand(n) => n = x
    BY DEF LogInv, OneBusy, Busy, InHand
  <2>4. Gap' \subseteq Gap \cup {x}
    BY <2>1, <2>3 DEF Gap, Stored
  <2>5. GapIsPaidFor'
    BY <2>1, <2>4, GapFinite, GapGrows DEF LogInv
  <2> QED
    BY <2>1, <2>2, <2>5 DEF LogInv, InOrder, OneBusy, BusyKnows, CountedFirst
<1>4. ASSUME NEW h \in handlers, Check(h) PROVE LogInv'
  <2>1. PICK s \in Stages :
           /\ handlers' = (handlers \ {h}) \cup {[h EXCEPT !.read = logSeq, !.stage = s]}
           /\ s = "answer" => SeqOf(h) <= logSeq
           /\ s = "update" => SeqOf(h) = logSeq + 1
           /\ s \in {"answer", "refuse", "update"}
    <3> DEFINE st == IF over THEN "refuse"
                     ELSE IF SeqOf(h) <= logSeq THEN "answer"
                     ELSE IF SeqOf(h) # logSeq + 1 THEN "refuse" ELSE "update"
    <3>1. handlers' = (handlers \ {h}) \cup {[h EXCEPT !.read = logSeq, !.stage = st]}
      BY <1>4, Zenon DEF Check
    <3>2. /\ st \in {"answer", "refuse", "update"}
          /\ st = "answer" => SeqOf(h) <= logSeq
          /\ st = "update" => SeqOf(h) = logSeq + 1
      OBVIOUS
    <3> HIDE DEF st
    <3> QED
      BY <3>1, <3>2 DEF Stages
  <2> DEFINE k == [h EXCEPT !.read = logSeq, !.stage = s]
  <2>2. k.stage = s /\ k.read = logSeq /\ SeqOf(k) = SeqOf(h)
    <3>1. h \in Handlers
      BY <1>0
    <3> QED
      BY <3>1 DEF Handlers, SeqOf
  <2> HIDE DEF k
  <2>3. handlers' = (handlers \ {h}) \cup {k} /\ UNCHANGED <<acked, logSeq, file, crashes, faults>>
    BY <1>4, <2>1 DEF Check, Shipper, Panel, k
  <2>4. h.stage = "sent" /\ \A g \in handlers : ~Busy(g)
    BY <1>4, Alone DEF Check, Busy
  <2>5. OneBusy' /\ BusyKnows'
    BY <2>1, <2>2, <2>3, <2>4 DEF OneBusy, BusyKnows, Busy
  <2>6. \A n : InHand(n)' <=> InHand(n)
    BY <2>1, <2>2, <2>3, <2>4 DEF InHand
  <2>7. \A n : ~InHand(n)
    BY <2>4 DEF InHand, Busy
  <2>8. AnsweredIsCounted'
    BY <2>1, <2>2, <2>3, <2>6, <2>7 DEF LogInv, AnsweredIsCounted
  <2> QED
    BY <2>3, <2>5, <2>6, <2>8, Aside DEF LogInv, InOrder, CountedFirst
<1>5. ASSUME NEW h \in handlers, Update(h) PROVE LogInv'
  <2>1. h.stage = "update" /\ Busy(h) /\ \A g \in handlers : Busy(g) => g = h
    BY <1>5, Alone DEF Update, Busy
  <2>2. SeqOf(h) = h.read + 1 /\ SeqOf(h) \in 1..Chunks
    BY <1>0, <2>1, SeqRange DEF LogInv, BusyKnows
  <2>3. UNCHANGED <<acked, file, crashes, faults>>
    BY <1>5 DEF Update, Shipper
  <2>6. \A n : ~InHand(n)
    BY <2>1 DEF InHand, Busy
  <2>4. CASE over \/ logSeq # h.read
    <3> DEFINE k == [h EXCEPT !.stage = "refuse"]
    <3>1. k.stage = "refuse"
      BY <1>0, Moved DEF Stages
    <3> HIDE DEF k
    <3>2. handlers' = (handlers \ {h}) \cup {k} /\ logSeq' = logSeq
      BY <1>5, <2>4 DEF Update, Goto, k
    <3>3. OneBusy' /\ BusyKnows'
      BY <2>1, <2>3, <3>1, <3>2 DEF LogInv, OneBusy, BusyKnows, Busy
    <3>4. \A n : ~InHand(n)'
      BY <2>6, <3>1, <3>2 DEF InHand
    <3>5. AnsweredIsCounted'
      BY <2>3, <3>1, <3>2, <3>4 DEF LogInv, AnsweredIsCounted
    <3> QED
      BY <2>3, <2>6, <3>2, <3>3, <3>4, <3>5, Aside DEF LogInv, InOrder, CountedFirst
  <2>5. CASE ~(over \/ logSeq # h.read)
    <3> DEFINE k == [h EXCEPT !.stage = "append"]
    <3>1. k.stage = "append" /\ SeqOf(k) = SeqOf(h) /\ k.read = h.read
      BY <1>0, Moved DEF Stages
    <3> HIDE DEF k
    <3>2. /\ handlers' = (handlers \ {h}) \cup {k}
          /\ logSeq' = SeqOf(h) /\ logSeq = h.read
      BY <1>5, <2>5 DEF Update, Goto, k
    <3>3. \A i \in DOMAIN file : file[i] \in 1..Chunks /\ file[i] <= logSeq
      BY <1>0 DEF LogInv, CountedFirst
    <3>4. OneBusy'
      BY <2>1, <3>1, <3>2 DEF OneBusy, Busy
    <3>5. BusyKnows' /\ CountedFirst'
      BY <1>0, <2>1, <2>2, <2>3, <3>1, <3>2, <3>3 DEF BusyKnows, CountedFirst, Busy
    <3>6. \A n : InHand(n)' <=> n = SeqOf(k)
      BY <2>1, <3>1, <3>2 DEF InHand, Busy
    <3>7. AnsweredIsCounted'
      <4>1. \A g \in handlers : g.stage = "answer" => SeqOf(g) < SeqOf(k)
        BY <1>0, <2>2, <3>1, <3>2, SeqRange DEF LogInv, AnsweredIsCounted
      <4>2. \A n \in acked : n \in 1..Chunks /\ n < SeqOf(k)
        BY <1>0, <2>2, <3>1, <3>2 DEF LogInv, AnsweredIsCounted
      <4>3. \A g \in handlers' : g.stage = "answer" => g \in handlers /\ SeqOf(g) \in 1..Chunks
        BY <1>0, <3>1, <3>2, SeqRange
      <4> QED
        BY <2>2, <2>3, <3>1, <3>2, <3>6, <4>1, <4>2, <4>3 DEF AnsweredIsCounted
    <3>8. GapIsPaidFor'
      <4>1. \A n \in 1..logSeq' : n \in 1..logSeq \/ n = SeqOf(k)
        BY <1>0, <2>2, <3>1, <3>2
      <4>2. Gap' \subseteq Gap
        BY <2>3, <2>6, <3>6, <4>1 DEF Gap, Stored
      <4> QED
        BY <2>3, <4>2, GapKept DEF LogInv
    <3> QED
      BY <2>3, <3>4, <3>5, <3>7, <3>8 DEF LogInv, InOrder
  <2> QED
    BY <2>4, <2>5
<1>6. ASSUME NEW h \in handlers, Store(h) PROVE LogInv'
  <2>1. h.stage = "append" /\ Busy(h) /\ \A g \in handlers : Busy(g) => g = h
    BY <1>6, Alone DEF Store, Busy
  <2>2. /\ SeqOf(h) = h.read + 1 /\ SeqOf(h) \in 1..Chunks /\ logSeq = SeqOf(h)
        /\ \A i \in DOMAIN file : file[i] < SeqOf(h)
    BY <1>0, <2>1, SeqRange DEF LogInv, BusyKnows
  <2> DEFINE k == [h EXCEPT !.stage = "answer"]
  <2>3. k.stage = "answer" /\ SeqOf(k) = SeqOf(h)
    BY <1>0, Moved DEF Stages
  <2> HIDE DEF k
  <2>4. handlers' = (handlers \ {h}) \cup {k} /\ UNCHANGED <<acked, logSeq, crashes, faults>>
    BY <1>6 DEF Store, Goto, Shipper, k
  <2>5. h.read \in Nat /\ Room \in Nat /\ (h.read < Room <=> SeqOf(h) <= Room)
    BY <1>0, <2>2 DEF Handlers
  <2>6. InOrder' /\ CountedFirst' /\ (\A n \in 1..Chunks : Stored(n) => Stored(n)') /\ Stored(SeqOf(h))'
    <3>1. CASE h.read < Room
      <4>1. file' = Append(file, SeqOf(h))
        BY <1>6, <3>1 DEF Store
      <4>2. /\ DOMAIN file = 1..Len(file) /\ Len(file) \in Nat
            /\ DOMAIN file' = 1..(Len(file) + 1)
            /\ \A i \in DOMAIN file : file'[i] = file[i] /\ file[i] \in 1..Chunks
            /\ file'[Len(file) + 1] = SeqOf(h)
        <5>1. \A i \in DOMAIN file : file[i] \in 1..Chunks
          BY <1>0
        <5> QED
          BY <1>0, <2>2, <4>1, <5>1, FileGrows, Zenon
      <4>3. InOrder'
        <5> SUFFICES ASSUME NEW i \in DOMAIN file', NEW j \in DOMAIN file', i < j
                     PROVE  file'[i] < file'[j]
          BY DEF InOrder
        <5>1. i \in DOMAIN file /\ file'[i] = file[i]
          BY <4>2
        <5>2. CASE j \in DOMAIN file
          BY <4>2, <5>1, <5>2 DEF LogInv, InOrder
        <5>3. CASE j = Len(file) + 1
          BY <2>2, <4>2, <5>1, <5>3
        <5> QED
          BY <4>2, <5>2, <5>3
      <4>4. CountedFirst'
        BY <2>2, <2>4, <4>2 DEF LogInv, CountedFirst
      <4>5. ASSUME NEW n \in 1..Chunks, Stored(n) PROVE Stored(n)'
        BY <4>2, <4>5 DEF Stored
      <4>6. Stored(SeqOf(h))'
        <5>1. Len(file) + 1 \in DOMAIN file'
          BY <4>2
        <5> QED
          BY <4>2, <5>1 DEF Stored
      <4> QED
        BY <4>3, <4>4, <4>5, <4>6
    <3>2. CASE ~(h.read < Room)
      <4>1. file' = file /\ ~(SeqOf(h) <= Room)
        BY <1>6, <2>5, <3>2 DEF Store
      <4> QED
        BY <2>4, <4>1 DEF LogInv, InOrder, CountedFirst, Stored
    <3> QED
      BY <3>1, <3>2
  <2>7. OneBusy' /\ BusyKnows'
    BY <2>1, <2>3, <2>4 DEF OneBusy, BusyKnows, Busy
  <2>8. \A n : ~InHand(n)' /\ (InHand(n) => n = SeqOf(h))
    BY <2>1, <2>3, <2>4 DEF InHand, Busy
  <2>9. AnsweredIsCounted'
    BY <1>0, <2>2, <2>3, <2>4, <2>8 DEF LogInv, AnsweredIsCounted
  <2>10. GapIsPaidFor'
    <3>1. \A n \in 1..logSeq : n \in 1..Chunks
      BY <1>0
    <3>2. Gap' \subseteq Gap
      BY <2>4, <2>6, <2>8, <3>1 DEF Gap
    <3> QED
      BY <2>4, <3>2, GapKept DEF LogInv
  <2> QED
    BY <2>6, <2>7, <2>9, <2>10 DEF LogInv
<1>7. ASSUME NEW h \in handlers, Answer(h) PROVE LogInv'
  <2>1. /\ handlers' = handlers \ {h} /\ UNCHANGED <<logSeq, file, crashes, faults>>
        /\ h.stage # "append"
    BY <1>7 DEF Answer, Panel
  <2>2. acked' = acked \/ (h.stage = "answer" /\ acked' = acked \cup {SeqOf(h)})
    BY <1>7 DEF Answer, Shipper
  <2>3. \A n : InHand(n)' <=> InHand(n)
    BY <2>1 DEF InHand
  <2>4. AnsweredIsCounted'
    BY <2>1, <2>2, <2>3 DEF LogInv, AnsweredIsCounted
  <2> QED
    BY <2>1, <2>3, <2>4, Aside DEF LogInv, InOrder, OneBusy, BusyKnows, CountedFirst, Busy
<1>8. ASSUME NEW h \in handlers, StoreFails(h) PROVE LogInv'
  <2>1. h.stage = "append" /\ \A g \in handlers : Busy(g) => g = h
    BY <1>8, Alone DEF StoreFails, Busy
  <2>2. /\ handlers' = handlers \ {h} /\ faults' = faults + 1
        /\ UNCHANGED <<acked, logSeq, file, crashes>>
    BY <1>8 DEF StoreFails
  <2>3. \A n : ~InHand(n)' /\ (InHand(n) => n = SeqOf(h))
    BY <2>1, <2>2 DEF InHand, Busy
  <2>4. AnsweredIsCounted'
    BY <2>2, <2>3 DEF LogInv, AnsweredIsCounted
  <2>5. Gap' \subseteq Gap \cup {SeqOf(h)}
    BY <2>2, <2>3 DEF Gap, Stored
  <2>6. GapIsPaidFor'
    BY <2>2, <2>5, GapFinite, GapGrows DEF LogInv
  <2> QED
    BY <2>2, <2>4, <2>6 DEF LogInv, InOrder, OneBusy, BusyKnows, CountedFirst
<1>9. CASE UNCHANGED vars
  <2>1. UNCHANGED <<handlers, acked, logSeq, file, crashes, faults>>
    BY <1>9 DEF vars
  <2>2. \A n : InHand(n)' <=> InHand(n)
    BY <2>1 DEF InHand
  <2>3. AnsweredIsCounted'
    BY <2>1, <2>2 DEF LogInv, AnsweredIsCounted
  <2> QED
    BY <2>1, <2>2, <2>3, Aside DEF LogInv, InOrder, OneBusy, BusyKnows, CountedFirst, Busy
<1> QED
  BY <1>1, <1>2, <1>3, <1>4, <1>5, <1>6, <1>7, <1>8, <1>9 DEF Next, Handler

\* With the shipped driver the log keeps its order, and holds no chunk twice,
\* for every number of chunks, retries, broken connections and panel restarts.
THEOREM InOrderHolds == ~DriverSuspends => (Spec => []InOrder)
<1> SUFFICES ASSUME ~DriverSuspends PROVE Spec => []InOrder
  OBVIOUS
<1>1. TypeOK /\ LogInv /\ [Next]_vars => LogInv'
  BY LogInvPreserved
<1>2. LogInv => InOrder
  BY DEF LogInv
<1> QED
  BY <1>1, <1>2, LogInvInit, TypeCorrect, PTL DEF Spec

\* With the shipped driver, each panel death and each failed append costs at most
\* one chunk that the panel acknowledged, whatever is sent again afterwards.
THEOREM AckedIsStoredHolds == ~DriverSuspends => (Spec => []AckedIsStored)
<1> SUFFICES ASSUME ~DriverSuspends PROVE Spec => []AckedIsStored
  OBVIOUS
<1>1. TypeOK /\ LogInv /\ [Next]_vars => LogInv'
  BY LogInvPreserved
<1>2. TypeOK /\ LogInv => AckedIsStored
  <2> SUFFICES ASSUME TypeOK, LogInv PROVE AckedIsStored
    OBVIOUS
  <2>1. Lost \subseteq Gap \cup {0} /\ Lost \subseteq Gap
    <3>1. acked \subseteq 1..Chunks /\ logSeq \in 0..Chunks
      BY DEF TypeOK
    <3>2. \A n \in acked : n \in 1..logSeq /\ ~InHand(n)
      BY <3>1, LogAssumption DEF LogInv, AnsweredIsCounted
    <3> QED
      BY <3>2 DEF Lost, Gap, Stored
  <2>2. /\ Cardinality(Lost) <= Cardinality(Gap)
        /\ Cardinality(Lost) \in Nat /\ Cardinality(Gap) \in Nat
    BY <2>1, GapFinite, OneMore
  <2> QED
    BY <2>2, GapFinite DEF LogInv, GapIsPaidFor, AckedIsStored
<1> QED
  BY <1>1, <1>2, LogInvInit, TypeCorrect, PTL DEF Spec
=============================================================================
