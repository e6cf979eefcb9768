------------------------------- MODULE Outbox -------------------------------
(***************************************************************************)
(* The transactional outbox: the collection outbox_events, the dispatcher  *)
(* in every pod of the service (libs/messaging/src/outbox) and the event   *)
(* bus it publishes on (libs/messaging/src/amqp/event-bus.service.ts).     *)
(*                                                                         *)
(* A sweep awaits twice: the find and the flush.  The loop between them    *)
(* publishes the whole batch without an await, and never learns of a       *)
(* failure: RpcClientService.publishEvent catches everything, the bus does *)
(* not await the broker and a later refusal ends in a log line.  So        *)
(* `attempts` moves only together with the status 'sent', the catch branch *)
(* of the loop is dead code and no row ever becomes 'failed'; neither is   *)
(* in the model.                                                           *)
(***************************************************************************)
EXTENDS Naturals, FiniteSets

CONSTANTS
    Rows,       \* ids of outbox rows, numbered in the order of createdAt
    Pods,       \* replicas of the service
    MaxBatch,   \* MAX_BATCH
    Allowed,    \* the interruptions that happen, a subset of Interruptions
    MaxInterruptions    \* bound on the interruptions of one pod

Interruptions == {"crash", "shutdown", "flushFails", "slowBoot", "refusal"}

ASSUME RowsAssumption == Rows \subseteq Nat
ASSUME MaxBatchAssumption == MaxBatch \in Nat \ {0}
ASSUME AllowedAssumption == Allowed \subseteq Interruptions
ASSUME BoundAssumption == MaxInterruptions \in Nat

VARIABLES
    rows,       \* the collection: status by row, "absent" before it is staged
    phase,      \* life cycle of a pod
    armed,      \* is the sweep timer of the pod alive (not shuttingDown)?
    channel,    \* has the bus of the pod a channel?
    pc,         \* where the sweep of the pod waits; running = (pc # "idle")
    batch,      \* the rows that sweep loaded
    buffer,     \* published rows the broker has not confirmed yet
    accepted,   \* rows the broker has confirmed
    dropped,    \* history: rows published where there was no channel
    refused,    \* history: rows whose publication the broker has refused
    handed,     \* history: handed[p][r], calls of publishEvent for r in p
    interrupted,\* history: crashes, shutdowns and failed flushes of a pod
    died        \* history: the pods whose process ended at least once

vars == <<rows, phase, armed, channel, pc, batch, buffer, accepted, dropped, refused, handed, interrupted, died>>

TypeOK ==
    /\ rows \in [Rows -> {"absent", "pending", "sent"}]
    /\ phase \in [Pods -> {"down", "booting", "up", "closing"}]
    /\ armed \in [Pods -> BOOLEAN]
    /\ channel \in [Pods -> BOOLEAN]
    /\ pc \in [Pods -> {"idle", "publish", "flush"}]
    /\ batch \in [Pods -> SUBSET Rows]
    /\ buffer \in [Pods -> SUBSET Rows]
    /\ accepted \in SUBSET Rows
    /\ dropped \in SUBSET Rows
    /\ refused \in SUBSET Rows
    /\ handed \in [Pods -> [Rows -> Nat]]
    /\ interrupted \in [Pods -> Nat]
    /\ died \in SUBSET Pods

Init ==
    /\ rows = [r \in Rows |-> "absent"]
    /\ phase = [p \in Pods |-> "down"]
    /\ armed = [p \in Pods |-> FALSE]
    /\ channel = [p \in Pods |-> FALSE]
    /\ pc = [p \in Pods |-> "idle"]
    /\ batch = [p \in Pods |-> {}]
    /\ buffer = [p \in Pods |-> {}]
    /\ accepted = {} /\ dropped = {} /\ refused = {}
    /\ handed = [p \in Pods |-> [r \in Rows |-> 0]]
    /\ interrupted = [p \in Pods |-> 0]
    /\ died = {}

----------------------------------------------------------------------------
(* Staging. createdAt is set when the entity is created, the row appears   *)
(* with the flush: rows may appear in another order than their ids.        *)

Stage(r) ==
    /\ rows[r] = "absent"
    /\ rows' = [rows EXCEPT ![r] = "pending"]
    /\ UNCHANGED <<phase, armed, channel, pc, batch, buffer, accepted, dropped, refused, handed, interrupted, died>>

----------------------------------------------------------------------------
(* The sweep.                                                              *)

\* Slip: the filter on the status is lost.
Staged == {r \in Rows : rows[r] # "absent"}

Pending == {r \in Rows : rows[r] = "pending"}

\* orderBy createdAt ascending, limit n.
Oldest(S, n) == {r \in S : Cardinality({q \in S : q < r}) < n}

\* The timer fires every two seconds after the last sweep ended; the first
\* time that may be before the bus has its channel.
Find(p) ==
    /\ armed[p] /\ pc[p] = "idle"
    /\ phase[p] = "booting" => "slowBoot" \in Allowed
    /\ Pending # {}
    /\ batch' = [batch EXCEPT ![p] = Oldest(Pending, MaxBatch)]
    /\ pc' = [pc EXCEPT ![p] = "publish"]
    /\ UNCHANGED <<rows, phase, armed, channel, buffer, accepted, dropped, refused, handed, interrupted, died>>

\* Slip: the bus takes nothing while something is still unconfirmed.
BufferedWhenQuiet(p) == IF channel[p] /\ buffer[p] = {} THEN batch[p] ELSE buffer[p]

\* EventBusService.publish: without a channel the event is dropped with a
\* warning and the return value FALSE, which publishEvent ignores.
Buffered(p) == IF channel[p] THEN buffer[p] \cup batch[p] ELSE buffer[p]

Publish(p) ==
    /\ pc[p] = "publish"
    /\ handed' = [handed EXCEPT ![p] = [r \in Rows |->
                    IF r \in batch[p] THEN handed[p][r] + 1 ELSE handed[p][r]]]
    /\ buffer' = [buffer EXCEPT ![p] = Buffered(p)]
    /\ dropped' = IF channel[p] THEN dropped ELSE dropped \cup batch[p]
    /\ pc' = [pc EXCEPT ![p] = "flush"]
    /\ UNCHANGED <<rows, phase, armed, channel, batch, accepted, refused, interrupted, died>>

\* Slips: the status is stamped on every row still waiting, or it is one
\* that no other part of the code knows.
AllSent(S) == [r \in Rows |-> IF rows[r] = "pending" THEN "sent" ELSE rows[r]]
Dispatched(S) == [r \in Rows |-> IF r \in S THEN "dispatched" ELSE rows[r]]

Sent(S) == [r \in Rows |-> IF r \in S THEN "sent" ELSE rows[r]]

\* The sweep is over: `finally` clears the running flag and arms the timer.
EndSweep(p) ==
    /\ pc' = [pc EXCEPT ![p] = "idle"]
    /\ batch' = [batch EXCEPT ![p] = {}]

Flush(p) ==
    /\ pc[p] = "flush"
    /\ rows' = Sent(batch[p])
    /\ EndSweep(p)
    /\ UNCHANGED <<phase, armed, channel, buffer, accepted, dropped, refused, handed, interrupted, died>>

Interrupted(p) == interrupted' = [interrupted EXCEPT ![p] = @ + 1]

\* The write fails; it may have reached some of the documents. The sweep
\* rejects, unhandled, and the timer is armed again.
FlushFails(p) ==
    /\ "flushFails" \in Allowed /\ interrupted[p] < MaxInterruptions
    /\ pc[p] = "flush"
    /\ \E S \in SUBSET batch[p] : rows' = Sent(S)
    /\ EndSweep(p) /\ Interrupted(p)
    /\ UNCHANGED <<phase, armed, channel, buffer, accepted, dropped, refused, handed, died>>

----------------------------------------------------------------------------
(* The bus. amqp-connection-manager keeps what is published while the      *)
(* broker is away, in memory, and delivers it whenever it is connected.    *)

Accept(p) ==
    /\ channel[p]
    /\ \E r \in buffer[p] :
        /\ accepted' = accepted \cup {r}
        /\ buffer' = [buffer EXCEPT ![p] = @ \ {r}]
    /\ UNCHANGED <<rows, phase, armed, channel, pc, batch, dropped, refused, handed, interrupted, died>>

\* The broker refuses a message, or it cannot be put on the channel: the
\* promise of ChannelWrapper.publish rejects, the `catch` logs and nobody
\* publishes the event again. The row may be marked 'sent' by then, or be
\* marked so later: the sweep does not learn of it.
Refuse(p) ==
    /\ "refusal" \in Allowed
    /\ channel[p]
    /\ \E r \in buffer[p] :
        /\ refused' = refused \cup {r}
        /\ buffer' = [buffer EXCEPT ![p] = @ \ {r}]
    /\ UNCHANGED <<rows, phase, armed, channel, pc, batch, accepted, dropped, handed, interrupted, died>>

----------------------------------------------------------------------------
(* The life of a pod.                                                      *)

\* OutboxDispatcher.onModuleInit arms the timer...
Start(p) ==
    /\ phase[p] = "down"
    /\ phase' = [phase EXCEPT ![p] = "booting"]
    /\ armed' = [armed EXCEPT ![p] = TRUE]
    /\ UNCHANGED <<rows, channel, pc, batch, buffer, accepted, dropped, refused, handed, interrupted, died>>

\* ... and EventBusService.onApplicationBootstrap creates the channel.
OpenBus(p) ==
    /\ phase[p] = "booting"
    /\ phase' = [phase EXCEPT ![p] = "up"]
    /\ channel' = [channel EXCEPT ![p] = TRUE]
    /\ UNCHANGED <<rows, armed, pc, batch, buffer, accepted, dropped, refused, handed, interrupted, died>>

\* SIGTERM: the two onModuleDestroy hooks, then process.exit. A sweep that
\* is in flight goes on meanwhile.
Terminate(p) ==
    /\ "shutdown" \in Allowed /\ interrupted[p] < MaxInterruptions
    /\ phase[p] = "up"
    /\ phase' = [phase EXCEPT ![p] = "closing"]
    /\ UNCHANGED <<rows, armed, channel, pc, batch, buffer, accepted, dropped, refused, handed, interrupted, died>>

StopTimer(p) ==
    /\ phase[p] = "closing" /\ armed[p]
    /\ armed' = [armed EXCEPT ![p] = FALSE]
    /\ UNCHANGED <<rows, phase, channel, pc, batch, buffer, accepted, dropped, refused, handed, interrupted, died>>

\* channel.close() rejects whatever is still buffered.
CloseBus(p) ==
    /\ phase[p] = "closing" /\ channel[p]
    /\ channel' = [channel EXCEPT ![p] = FALSE]
    /\ buffer' = [buffer EXCEPT ![p] = {}]
    /\ UNCHANGED <<rows, phase, armed, pc, batch, accepted, dropped, refused, handed, interrupted, died>>

\* The process is gone, with everything it held in memory.
Gone(p) ==
    /\ phase' = [phase EXCEPT ![p] = "down"]
    /\ armed' = [armed EXCEPT ![p] = FALSE]
    /\ channel' = [channel EXCEPT ![p] = FALSE]
    /\ buffer' = [buffer EXCEPT ![p] = {}]
    /\ EndSweep(p) /\ Interrupted(p)
    /\ died' = died \cup {p}
    /\ UNCHANGED <<rows, accepted, dropped, refused, handed>>

Exit(p) == phase[p] = "closing" /\ ~armed[p] /\ ~channel[p] /\ Gone(p)

\* The kernel, the node, or the 60 s limit on the first connection.
Crash(p) ==
    /\ "crash" \in Allowed /\ interrupted[p] < MaxInterruptions
    /\ phase[p] # "down"
    /\ Gone(p)

----------------------------------------------------------------------------

Sweep(p) == Find(p) \/ Publish(p) \/ Flush(p) \/ FlushFails(p)

Life(p) ==
    Start(p) \/ OpenBus(p) \/ Terminate(p) \/ StopTimer(p) \/ CloseBus(p) \/ Exit(p) \/ Crash(p)

Next ==
    \/ \E r \in Rows : Stage(r)
    \/ \E p \in Pods : Sweep(p) \/ Accept(p) \/ Refuse(p) \/ Life(p)

Spec == Init /\ [][Next]_vars

\* k8s restarts a pod, its hooks run, the timer fires again after every
\* sweep, flushes do not fail for ever, and the broker comes back.
Fairness ==
    \A p \in Pods :
        /\ WF_vars(Start(p)) /\ WF_vars(OpenBus(p))
        /\ WF_vars(StopTimer(p)) /\ WF_vars(CloseBus(p)) /\ WF_vars(Exit(p))
        /\ WF_vars(Find(p)) /\ WF_vars(Publish(p)) /\ SF_vars(Flush(p)) /\ WF_vars(Accept(p))

FairSpec == Spec /\ Fairness

----------------------------------------------------------------------------
(* Properties.                                                             *)

\* sweep: a pod publishes the same event once more only for a flush of its
\* own that did not complete, whatever the other pods do to the row.
HandedOncePerInterruption ==
    \A p \in Pods, r \in Rows : handed[p][r] <= 1 + interrupted[p]

\* The process has ended once, or its bus is closed.
MemoryLost(p) == p \in died \/ (phase[p] = "closing" /\ ~channel[p])

\* An event whose row says 'sent' is with the broker, on its way to it, or
\* its loss has one of three causes: the broker refused it (an error in the
\* log, event-bus.service.ts:240), it was published where there was no
\* channel (a warning, :222), or the process that published it ended or
\* closed its bus with it. Neither a failed flush nor the sweep of another
\* pod loses an event.
LossHasACause ==
    \A r \in Rows : rows[r] = "sent" =>
        \/ r \in accepted \/ \E p \in Pods : r \in buffer[p]
        \/ r \in refused \/ r \in dropped
        \/ \E p \in Pods : handed[p][r] > 0 /\ MemoryLost(p)

\* The at-least-once promise of the outbox, up to the broker.
EveryEventAccepted == \A r \in Rows : rows[r] = "pending" ~> r \in accepted

\* The promise of the dispatcher up to the bus, with a single replica: the
\* sweep implements EventDelivery.
ThePod == CHOOSE p \in Pods : TRUE

Delivery == INSTANCE EventDelivery WITH
    Events <- Rows,
    promised <- {r \in Rows : rows[r] # "absent"},
    handed <- handed[ThePod],
    settled <- {r \in Rows : rows[r] = "sent"}

DeliverySafe == Delivery!Spec
DeliveryFair == Delivery!FairSpec
=============================================================================
