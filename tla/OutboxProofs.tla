---------------------------- MODULE OutboxProofs ----------------------------
(* Theorems about Outbox, for every set of rows and of pods, every batch   *)
(* size and every choice of interruptions.                                 *)
EXTENDS Outbox, TLAPS

----------------------------------------------------------------------------
(* Types.                                                                  *)

\* Whatever batch a sweep writes, the collection keeps its type.
LEMMA SentTyped ==
    ASSUME rows \in [Rows -> {"absent", "pending", "sent"}], NEW S
    PROVE  Sent(S) \in [Rows -> {"absent", "pending", "sent"}]
BY DEF Sent

\* A batch consists of rows that are pending when it is loaded.
LEMMA OldestIsPending == ASSUME NEW n PROVE Oldest(Pending, n) \subseteq Pending
BY DEF Oldest

\* Every action of the collection, of the sweep and of a pod's life keeps
\* the type invariant.
LEMMA TypeStep == TypeOK /\ [Next]_vars => TypeOK'
<1> SUFFICES ASSUME TypeOK, [Next]_vars PROVE TypeOK'
  OBVIOUS
<1> USE DEF TypeOK
<1>1. ASSUME NEW r \in Rows, Stage(r) PROVE TypeOK'
  BY <1>1 DEF Stage
<1>2. ASSUME NEW p \in Pods, Find(p) PROVE TypeOK'
  <2>1. Oldest(Pending, MaxBatch) \in SUBSET Rows
    BY OldestIsPending DEF Pending
  <2> QED
    BY <1>2, <2>1 DEF Find
<1>3. ASSUME NEW p \in Pods, Publish(p) PROVE TypeOK'
  <2>1. [r \in Rows |-> IF r \in batch[p] THEN handed[p][r] + 1 ELSE handed[p][r]]
            \in [Rows -> Nat]
    BY <1>3
  <2>2. Buffered(p) \in SUBSET Rows
    BY <1>3 DEF Buffered
  <2> QED
    BY <1>3, <2>1, <2>2 DEF Publish
<1>4. ASSUME NEW p \in Pods, Flush(p) PROVE TypeOK'
  BY <1>4, SentTyped DEF Flush, EndSweep
<1>5. ASSUME NEW p \in Pods, FlushFails(p) PROVE TypeOK'
  BY <1>5, SentTyped DEF FlushFails, EndSweep, Interrupted
<1>6. ASSUME NEW p \in Pods, Accept(p) \/ Refuse(p) PROVE TypeOK'
  BY <1>6 DEF Accept, Refuse
<1>7. ASSUME NEW p \in Pods, Gone(p) PROVE TypeOK'
  BY <1>7 DEF Gone, EndSweep, Interrupted
<1>8. ASSUME NEW p \in Pods,
             Start(p) \/ OpenBus(p) \/ Terminate(p) \/ StopTimer(p) \/ CloseBus(p)
      PROVE  TypeOK'
  BY <1>8 DEF Start, OpenBus, Terminate, StopTimer, CloseBus
<1>9. CASE UNCHANGED vars
  BY <1>9 DEF vars
<1> QED
  BY <1>1, <1>2, <1>3, <1>4, <1>5, <1>6, <1>7, <1>8, <1>9
     DEF Next, Sweep, Life, Exit, Crash

\* The collection, the pods and the history stay well typed.
THEOREM TypeCorrect == Spec => []TypeOK
<1>1. Init => TypeOK
  BY DEF Init, TypeOK
<1> QED
  BY <1>1, TypeStep, PTL DEF Spec

----------------------------------------------------------------------------
(* How often a pod publishes an event.  The bound is not inductive: it has *)
(* to say that a pod which may still publish the event (its row is pending *)
(* and not in the hands of a flush, or it is in a batch not yet published) *)
(* has one publication left.                                               *)

\* Is r in the batch that pod p has published and not yet flushed?
Flushing(p, r) == pc[p] = "flush" /\ r \in batch[p]

\* Will pod p publish r in the sweep it has begun?
Bound(p, r) == pc[p] = "publish" /\ r \in batch[p]

Budget ==
    \A p \in Pods, r \in Rows :
        /\ handed[p][r] <= 1 + interrupted[p]
        /\ Bound(p, r) => handed[p][r] <= interrupted[p]
        /\ rows[r] # "sent" /\ ~Flushing(p, r) => handed[p][r] <= interrupted[p]

\* A write stamps 'sent', it never takes the stamp away.
LEMMA SentStays ==
    ASSUME TypeOK, [Next]_vars, NEW r \in Rows, rows[r] = "sent"
    PROVE  rows'[r] = "sent"
BY DEF TypeOK, Next, vars, Sweep, Life, Stage, Find, Publish, Flush, FlushFails, Sent,
       Accept, Refuse, Start, OpenBus, Terminate, StopTimer, CloseBus, Exit, Crash, Gone

\* Each action keeps the budget of every pod, whatever the other pods do.
LEMMA BudgetStep == TypeOK /\ Budget /\ [Next]_vars => Budget'
<1> SUFFICES ASSUME TypeOK, Budget, [Next]_vars PROVE Budget'
  OBVIOUS
<1> USE DEF TypeOK, Budget, Flushing, Bound
<1>1. ASSUME NEW r \in Rows, Stage(r) PROVE Budget'
  BY <1>1 DEF Stage
<1>2. ASSUME NEW p \in Pods, Find(p) PROVE Budget'
  <2>1. \A r \in batch'[p] : rows[r] = "pending"
    BY <1>2, OldestIsPending DEF Find, Pending
  <2> QED
    BY <1>2, <2>1 DEF Find
<1>3. ASSUME NEW p \in Pods, Publish(p) PROVE Budget'
  <2>1. \A r \in Rows : handed'[p][r] = IF r \in batch[p] THEN handed[p][r] + 1 ELSE handed[p][r]
    BY <1>3 DEF Publish
  <2>2. \A q \in Pods \ {p} : handed'[q] = handed[q] /\ pc'[q] = pc[q]
    BY <1>3 DEF Publish
  <2> QED
    BY <1>3, <2>1, <2>2 DEF Publish
<1>4. ASSUME NEW p \in Pods, Flush(p) PROVE Budget'
  BY <1>4, SentStays DEF Flush, Sent, EndSweep
<1>5. ASSUME NEW p \in Pods, FlushFails(p) PROVE Budget'
  BY <1>5, SentStays DEF FlushFails, EndSweep, Interrupted
<1>6. ASSUME NEW p \in Pods, Gone(p) PROVE Budget'
  BY <1>6 DEF Gone, EndSweep, Interrupted
<1>7. ASSUME NEW p \in Pods,
             \/ Accept(p) \/ Refuse(p) \/ Start(p) \/ OpenBus(p) \/ Terminate(p) \/ StopTimer(p)
             \/ CloseBus(p)
      PROVE  Budget'
  BY <1>7 DEF Accept, Refuse, Start, OpenBus, Terminate, StopTimer, CloseBus
<1>8. CASE UNCHANGED vars
  BY <1>8 DEF vars
<1> QED
  BY <1>1, <1>2, <1>3, <1>4, <1>5, <1>6, <1>7, <1>8 DEF Next, Sweep, Life, Exit, Crash

\* A pod publishes the same event again only after an interruption of its
\* own: at most once per crash, shutdown or failed flush, plus once.
THEOREM PublishesBounded == Spec => []HandedOncePerInterruption
<1>1. Init => TypeOK /\ Budget
  BY DEF Init, TypeOK, Budget, Bound, Flushing
<1>2. TypeOK /\ Budget /\ [Next]_vars => (TypeOK /\ Budget)'
  BY TypeStep, BudgetStep
<1>3. Budget => HandedOncePerInterruption
  BY DEF Budget, HandedOncePerInterruption
<1> QED
  BY <1>1, <1>2, <1>3, PTL DEF Spec

----------------------------------------------------------------------------
(* What a sent row can lose its event to.  On its way from the sweep to    *)
(* the broker an event is first in a batch, then in a buffer: the          *)
(* invariant says so for the batches that are published and not flushed,   *)
(* and that what is buffered was handed over by that pod.                  *)

\* The memory that held the publication of r is gone.
Orphaned(r) == \E p \in Pods : handed[p][r] > 0 /\ MemoryLost(p)

Held(r) ==
    \/ r \in accepted \/ \E p \in Pods : r \in buffer[p]
    \/ r \in refused \/ r \in dropped \/ Orphaned(r)

Kept ==
    /\ \A p \in Pods : \A r \in buffer[p] : handed[p][r] > 0
    /\ \A r \in Rows : rows[r] = "sent" \/ (\E p \in Pods : Flushing(p, r)) => Held(r)

\* The count of publications never falls.
LEMMA HandedGrows ==
    ASSUME TypeOK, [Next]_vars, NEW p \in Pods, NEW r \in Rows
    PROVE  handed[p][r] \in Nat /\ handed'[p][r] >= handed[p][r]
<1>1. CASE \E q \in Pods : Publish(q)
  <2>1. PICK q \in Pods : Publish(q)
    BY <1>1
  <2>2. handed'[p][r] \in {handed[p][r], handed[p][r] + 1}
    BY <2>1 DEF TypeOK, Publish
  <2> QED
    BY <2>2 DEF TypeOK
<1>2. CASE ~\E q \in Pods : Publish(q)
  <2>1. handed' = handed
    BY <1>2 DEF Next, vars, Sweep, Life, Stage, Find, Flush, FlushFails, Accept, Refuse, Start,
                OpenBus, Terminate, StopTimer, CloseBus, Exit, Crash, Gone
  <2> QED
    BY <2>1 DEF TypeOK
<1> QED
  BY <1>1, <1>2

\* What is on its way stays on its way, whatever step the system takes.
LEMMA HeldStays ==
    ASSUME TypeOK, Kept, [Next]_vars, NEW r \in Rows, Held(r)
    PROVE  Held(r)'
<1> USE DEF TypeOK, Held, Orphaned, MemoryLost
<1>1. ASSUME NEW p \in Pods, handed[p][r] > 0 PROVE handed'[p][r] > 0
  <2>1. handed'[p][r] \in Nat
    BY TypeStep
  <2> QED
    BY <1>1, <2>1, HandedGrows
<1>2. ASSUME NEW p \in Pods, MemoryLost(p) PROVE MemoryLost(p)'
  <2>1. died \subseteq died'
    BY DEF Next, vars, Sweep, Life, Stage, Find, Publish, Flush, FlushFails,
           Accept, Refuse, Start, OpenBus, Terminate, StopTimer, CloseBus, Exit, Crash, Gone
  <2>2. ASSUME phase[p] = "closing", ~channel[p], p \notin died'
        PROVE  phase'[p] = "closing" /\ ~channel'[p]
    <3>1. CASE \E q \in Pods : Life(q)
      BY <2>2, <3>1 DEF Life, Start, OpenBus, Terminate, StopTimer, CloseBus, Exit, Crash, Gone
    <3>2. CASE ~\E q \in Pods : Life(q)
      BY <2>2, <3>2 DEF Next, vars, Sweep, Stage, Find, Publish, Flush, FlushFails, Accept, Refuse
    <3> QED
      BY <3>1, <3>2
  <2> QED
    BY <1>2, <2>1, <2>2
<1>3. accepted \cup refused \cup dropped \subseteq accepted' \cup refused' \cup dropped'
  BY DEF Next, vars, Sweep, Life, Stage, Find, Publish, Flush, FlushFails,
         Accept, Refuse, Start, OpenBus, Terminate, StopTimer, CloseBus, Exit, Crash, Gone
<1>4. ASSUME NEW p \in Pods, r \in buffer[p]
      PROVE  r \in accepted' \/ r \in refused' \/ r \in buffer'[p] \/ MemoryLost(p)'
  BY <1>4 DEF Next, vars, Sweep, Life, Stage, Find, Publish, Buffered, Flush, FlushFails,
         Accept, Refuse, Start, OpenBus, Terminate, StopTimer, CloseBus, Exit, Crash, Gone
<1>5. ASSUME NEW p \in Pods, r \in buffer[p] PROVE handed'[p][r] > 0
  BY <1>1, <1>5 DEF Kept
<1> QED
  BY <1>1, <1>2, <1>3, <1>4, <1>5

\* Every action keeps what is on its way: Publish puts the batch into the
\* buffer of a pod that has a channel, or drops it where there is none.
LEMMA KeptStep == ASSUME TypeOK, Kept, [Next]_vars PROVE Kept'
<1>1. ASSUME NEW p \in Pods, NEW r \in buffer'[p] PROVE handed'[p][r] > 0
  <2>1. r \in Rows /\ handed'[p][r] \in Nat
    BY <1>1, TypeStep DEF TypeOK
  <2>2. CASE r \in buffer[p]
    BY <2>1, <2>2, HandedGrows DEF Kept
  <2>3. CASE r \notin buffer[p]
    <3>1. CASE \E q \in Pods : Publish(q)
      <4>1. PICK q \in Pods : Publish(q)
        BY <3>1
      <4>2. q = p /\ r \in batch[p]
        BY <1>1, <2>3, <4>1 DEF TypeOK, Publish, Buffered
      <4> QED
        BY <2>1, <4>1, <4>2 DEF TypeOK, Publish
    <3>2. CASE ~\E q \in Pods : Publish(q)
      <4> SUFFICES buffer'[p] \subseteq buffer[p]
        BY <1>1, <2>3
      <4>1. CASE \E q \in Pods : Accept(q) \/ Refuse(q)
        BY <4>1 DEF TypeOK, Accept, Refuse
      <4>2. CASE \E q \in Pods : Gone(q) \/ CloseBus(q)
        BY <4>2 DEF TypeOK, Gone, CloseBus
      <4>3. CASE UNCHANGED buffer
        BY <4>3
      <4>4. CASE \E q \in Pods : Start(q) \/ OpenBus(q) \/ Terminate(q) \/ StopTimer(q)
        BY <4>3, <4>4 DEF Start, OpenBus, Terminate, StopTimer
      <4>5. CASE \E q \in Pods : Find(q) \/ Flush(q) \/ FlushFails(q)
        BY <4>3, <4>5 DEF Find, Flush, FlushFails
      <4> QED
        BY <3>2, <4>1, <4>2, <4>3, <4>4, <4>5 DEF Next, vars, Sweep, Life, Exit, Crash, Stage
    <3> QED
      BY <3>1, <3>2
  <2> QED
    BY <2>2, <2>3
<1>2. ASSUME NEW p \in Pods, NEW r \in Rows, Flushing(p, r)', ~Flushing(p, r) PROVE Held(r)'
  <2>1. Publish(p) /\ r \in batch[p]
    BY <1>2 DEF TypeOK, Flushing, Next, vars, Sweep, Life, Stage, Find, Publish, Flush, FlushFails,
         EndSweep, Accept, Refuse, Start, OpenBus, Terminate, StopTimer, CloseBus, Exit, Crash, Gone
  <2>2. CASE channel[p]
    BY <2>1, <2>2 DEF TypeOK, Publish, Buffered, Held
  <2>3. CASE ~channel[p]
    BY <2>1, <2>3 DEF Publish, Held
  <2> QED
    BY <2>2, <2>3
<1>3. ASSUME NEW r \in Rows, rows'[r] = "sent", rows[r] # "sent"
      PROVE  \E p \in Pods : Flushing(p, r)
  BY <1>3 DEF TypeOK, Flushing, Next, vars, Sweep, Life, Stage, Find, Publish, Flush, FlushFails,
         Sent, Accept, Refuse, Start, OpenBus, Terminate, StopTimer, CloseBus, Exit, Crash, Gone
<1>4. ASSUME NEW r \in Rows, rows'[r] = "sent" \/ \E p \in Pods : Flushing(p, r)'
      PROVE  Held(r)'
  BY <1>2, <1>3, <1>4, HeldStays DEF Kept
<1> QED
  BY <1>1, <1>4 DEF Kept

\* An event that is marked sent is with the broker or in the buffer of a
\* pod, or its loss has one of the three causes: for every number of pods,
\* every batch size and every order of sweeps, boots, crashes and refusals.
THEOREM LossesHaveCauses == Spec => []LossHasACause
<1>1. Init => TypeOK /\ Kept
  BY DEF Init, TypeOK, Kept, Flushing
<1>2. TypeOK /\ Kept /\ [Next]_vars => (TypeOK /\ Kept)'
  BY TypeStep, KeptStep
<1>3. TypeOK /\ Kept => LossHasACause
  <2> SUFFICES ASSUME TypeOK, Kept, NEW r \in Rows, rows[r] = "sent" PROVE Held(r)
    BY DEF LossHasACause, Held, Orphaned
  <2> QED
    BY DEF Kept
<1> QED
  BY <1>1, <1>2, <1>3, PTL DEF Spec

----------------------------------------------------------------------------
(* A single replica implements EventDelivery.  What makes the step from    *)
(* the find to the flush sound is that nobody else writes the rows of the  *)
(* batch meanwhile; a second pod does, and the refinement is lost.         *)

\* The rows a pod works on are still pending; once published, handed.
Claimed ==
    \A p \in Pods, r \in Rows :
        /\ Bound(p, r) => rows[r] = "pending"
        /\ Flushing(p, r) => rows[r] = "pending" /\ handed[p][r] > 0

Single == Pods # {} /\ \A p, q \in Pods : p = q

\* With one pod, only its own flush settles the rows of its batch.
LEMMA ClaimedStep == Single /\ TypeOK /\ Claimed /\ [Next]_vars => Claimed'
<1> SUFFICES ASSUME Single, TypeOK, Claimed, [Next]_vars PROVE Claimed'
  OBVIOUS
<1> USE DEF TypeOK, Claimed, Flushing, Bound
<1>1. ASSUME NEW r \in Rows, Stage(r) PROVE Claimed'
  BY <1>1 DEF Stage
<1>2. ASSUME NEW p \in Pods, Find(p) PROVE Claimed'
  <2>1. \A r \in batch'[p] : rows[r] = "pending"
    BY <1>2, OldestIsPending DEF Find, Pending
  <2> QED
    BY <1>2, <2>1 DEF Find
<1>3. ASSUME NEW p \in Pods, Publish(p) PROVE Claimed'
  <2>1. \A r \in Rows : handed'[p][r] = IF r \in batch[p] THEN handed[p][r] + 1 ELSE handed[p][r]
    BY <1>3 DEF Publish
  <2>2. \A q \in Pods : q = p
    BY DEF Single
  <2> QED
    BY <1>3, <2>1, <2>2 DEF Publish
<1>4. ASSUME NEW p \in Pods, Flush(p) \/ FlushFails(p) \/ Gone(p) PROVE Claimed'
  <2>1. pc'[p] = "idle"
    BY <1>4 DEF Flush, FlushFails, Gone, EndSweep
  <2>2. \A q \in Pods : q = p
    BY DEF Single
  <2> QED
    BY <2>1, <2>2
<1>5. ASSUME NEW p \in Pods,
             \/ Accept(p) \/ Refuse(p) \/ Start(p) \/ OpenBus(p) \/ Terminate(p) \/ StopTimer(p)
             \/ CloseBus(p)
      PROVE  Claimed'
  BY <1>5 DEF Accept, Refuse, Start, OpenBus, Terminate, StopTimer, CloseBus
<1>6. CASE UNCHANGED vars
  BY <1>6 DEF vars
<1> QED
  BY <1>1, <1>2, <1>3, <1>4, <1>5, <1>6 DEF Next, Sweep, Life, Exit, Crash

\* Writing 'sent' on handed, pending rows settles them.
LEMMA SettleStep ==
    ASSUME TypeOK, NEW S \in SUBSET Rows, rows' = Sent(S), handed' = handed,
           \A r \in S : rows[r] = "pending" /\ handed[ThePod][r] > 0
    PROVE  Delivery!Settle(S)
<1>1. {r \in Rows : rows'[r] # "absent"} = {r \in Rows : rows[r] # "absent"}
  BY DEF TypeOK, Sent
<1>2. {r \in Rows : rows'[r] = "sent"} = {r \in Rows : rows[r] = "sent"} \cup S
  BY DEF TypeOK, Sent
<1>3. S \subseteq {r \in Rows : rows[r] # "absent"} \ {r \in Rows : rows[r] = "sent"}
  OBVIOUS
<1> QED
  BY <1>1, <1>2, <1>3 DEF Delivery!Settle

\* Every step of the dispatcher is a step of EventDelivery, or invisible.
LEMMA SweepStep ==
    Single /\ TypeOK /\ Claimed /\ [Next]_vars => [Delivery!Next]_(Delivery!vars)
<1> SUFFICES ASSUME Single, TypeOK, Claimed, [Next]_vars
             PROVE  Delivery!Next \/ UNCHANGED Delivery!vars
  OBVIOUS
<1>1. ASSUME rows' = rows, handed' = handed PROVE UNCHANGED Delivery!vars
  BY <1>1 DEF Delivery!vars
<1>2. ASSUME NEW r \in Rows, Stage(r) PROVE Delivery!Next
  <2>1. {q \in Rows : rows'[q] # "absent"} = {q \in Rows : rows[q] # "absent"} \cup {r}
    BY <1>2 DEF Stage, TypeOK
  <2>2. {q \in Rows : rows'[q] = "sent"} = {q \in Rows : rows[q] = "sent"}
    BY <1>2 DEF Stage, TypeOK
  <2>3. Delivery!Promise(r)
    BY <1>2, <2>1, <2>2 DEF Stage, Delivery!Promise
  <2> QED
    BY <2>3 DEF Delivery!Next
<1>3. ASSUME NEW p \in Pods, Publish(p) PROVE Delivery!Next \/ UNCHANGED Delivery!vars
  <2>1. p = ThePod
    BY DEF Single, ThePod
  <2>2. /\ rows' = rows
        /\ handed'[ThePod] = [r \in Rows |-> IF r \in batch[p] THEN handed[ThePod][r] + 1
                                                              ELSE handed[ThePod][r]]
    BY <1>3, <2>1 DEF Publish, TypeOK
  <2>3. batch[p] \subseteq {r \in Rows : rows[r] # "absent"} \ {r \in Rows : rows[r] = "sent"}
    BY <1>3 DEF Publish, Claimed, Bound, TypeOK
  <2>4. Delivery!Hand(batch[p])
    BY <2>2, <2>3 DEF Delivery!Hand
  <2>5. CASE batch[p] = {}
    <3>1. handed'[ThePod] = handed[ThePod]
      BY <2>1, <2>2, <2>5 DEF TypeOK
    <3> QED
      BY <2>2, <3>1 DEF Delivery!vars
  <2>6. CASE batch[p] # {}
    BY <2>4, <2>6 DEF Delivery!Next, TypeOK
  <2> QED
    BY <2>5, <2>6
<1>4. ASSUME NEW p \in Pods, NEW S \in SUBSET batch[p], pc[p] = "flush",
             rows' = Sent(S), handed' = handed
      PROVE  Delivery!Next \/ UNCHANGED Delivery!vars
  <2>1. p = ThePod
    BY DEF Single, ThePod
  <2>2. S \in SUBSET Rows
    BY DEF TypeOK
  <2>3. \A r \in S : rows[r] = "pending" /\ handed[ThePod][r] > 0
    BY <1>4, <2>1, <2>2 DEF Claimed, Flushing
  <2>4. Delivery!Settle(S)
    BY <1>4, <2>2, <2>3, SettleStep
  <2>5. CASE S = {}
    <3>1. rows' = rows
      BY <1>4, <2>5 DEF Sent, TypeOK
    <3> QED
      BY <1>1, <1>4, <3>1
  <2>6. CASE S # {}
    BY <2>2, <2>4, <2>6 DEF Delivery!Next
  <2> QED
    BY <2>5, <2>6
<1>5. ASSUME NEW p \in Pods, Flush(p) \/ FlushFails(p)
      PROVE  Delivery!Next \/ UNCHANGED Delivery!vars
  BY <1>4, <1>5 DEF Flush, FlushFails
<1>6. ASSUME NEW p \in Pods, Find(p) \/ Accept(p) \/ Refuse(p) \/ Life(p)
      PROVE  UNCHANGED Delivery!vars
  BY <1>1, <1>6 DEF Find, Accept, Refuse, Life, Start, OpenBus, Terminate, StopTimer, CloseBus,
                    Exit, Crash, Gone
<1>7. CASE UNCHANGED vars
  BY <1>1, <1>7 DEF vars
<1> QED
  BY <1>2, <1>3, <1>5, <1>6, <1>7 DEF Next, Sweep

\* With one replica the dispatcher implements EventDelivery, whatever
\* interrupts it: only staged events are handed to the bus, a row is marked
\* sent only after that, and a marked row is never handed over again.
THEOREM SweepDelivers == ASSUME Single PROVE Spec => DeliverySafe
<1>1. Init => TypeOK /\ Claimed /\ Delivery!Init
  <2>1. Init => TypeOK /\ Claimed
    BY DEF Init, TypeOK, Claimed, Bound, Flushing
  <2>2. ThePod \in Pods
    BY Single DEF Single, ThePod
  <2>3. Init => Delivery!Init
    BY <2>2 DEF Init, Delivery!Init
  <2> QED
    BY <2>1, <2>3
<1>2. TypeOK /\ Claimed /\ [Next]_vars => (TypeOK /\ Claimed)' /\ [Delivery!Next]_(Delivery!vars)
  BY Single, TypeStep, ClaimedStep, SweepStep
<1> QED
  BY <1>1, <1>2, PTL DEF Spec, DeliverySafe, Delivery!Spec
=============================================================================
