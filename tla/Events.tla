------------------------------- MODULE Events -------------------------------
(***************************************************************************)
(* A domain event from its outbox row to the handler: the publishing side  *)
(* is Outbox; here its broker routes what it accepts to the queues of the  *)
(* subscribed services (the topology of EventBusService), their handlers   *)
(* run, and EventDeadLetterInterceptor turns a handler that throws into a  *)
(* message of the dead-letter queue of its service.                        *)
(*                                                                         *)
(* One process per subscribed service. The repository ships the subscriber *)
(* side as a library and declares no handler of its own: what a handler    *)
(* does is a choice, it returns or it throws.  Queues are durable and      *)
(* events persistent, so the broker loses nothing it has accepted; the     *)
(* consumer acknowledges nothing (noAck), so a message leaves its queue    *)
(* for good when the broker sends it, and is lost if the connection breaks *)
(* before it arrives.                                                      *)
(***************************************************************************)
EXTENDS Outbox

CONSTANTS
    Services,   \* the services with a queue of their own (selfQueue)
    Interest,   \* Interest[c]: rows whose pattern is in subscribesTo of c
    MaxEnds     \* bound on the ends of the process of one service

ASSUME InterestAssumption == Interest \in [Services -> SUBSET Rows]
ASSUME EndsAssumption == MaxEnds \in Nat

VARIABLES
    declared,   \* services whose queue exists
    bound,      \* services whose queue is bound to the exchange
    life,       \* the process of a service
    bus,        \* has its EventBusService a channel?
    queue,      \* queue[c][r]: copies of event r in the queue of c
    wire,       \* copies the broker has sent and c has not received yet
    running,    \* copies whose handler is running
    handled,    \* copies whose handler returned
    outgoing,   \* dead letters in the memory of the channel wrapper
    letters,    \* letters[c][r]: dead letters of r in the DLQ of c
    routed,     \* history: copies the exchange put into the queue of c
    threw,      \* history: handlers of c that threw on r
    severed,    \* history: copies lost with a connection of c
    rejected,   \* history: dead letters of c the broker refused
    ends        \* history: ends of the process of c

consumer == <<life, bus, running, handled, outgoing, threw, ends>>
broker == <<declared, bound, queue, wire, letters, routed, severed, rejected>>
eventVars == <<vars, consumer, broker>>

NoCopies == [c \in Services |-> [r \in Rows |-> 0]]
Put(bag, c, r) == [bag EXCEPT ![c][r] = @ + 1]
Take(bag, c, r) == [bag EXCEPT ![c][r] = @ - 1]

Forget(bag, c) == [bag EXCEPT ![c] = [r \in Rows |-> 0]]

Copies == [Services -> [Rows -> Nat]]

EventsTypeOK ==
    /\ declared \in SUBSET Services /\ bound \in SUBSET declared
    /\ life \in [Services -> {"down", "booting", "joined", "up", "closing"}]
    /\ bus \in [Services -> BOOLEAN]
    /\ queue \in Copies /\ wire \in Copies /\ running \in Copies /\ handled \in Copies
    /\ outgoing \in Copies /\ letters \in Copies
    /\ routed \in Copies /\ threw \in Copies
    /\ severed \in Copies /\ rejected \in Copies
    /\ ends \in [Services -> Nat]

EventsInit ==
    /\ Init
    /\ declared \in SUBSET Services /\ bound = {}
    /\ life = [c \in Services |-> "down"]
    /\ bus = [c \in Services |-> FALSE]
    /\ queue = NoCopies /\ wire = NoCopies /\ running = NoCopies /\ handled = NoCopies
    /\ outgoing = NoCopies /\ letters = NoCopies
    /\ routed = NoCopies /\ threw = NoCopies
    /\ severed = NoCopies /\ rejected = NoCopies
    /\ ends = [c \in Services |-> 0]

----------------------------------------------------------------------------
(* The broker.                                                             *)

\* Names carry the prefix of the stage, so that stages stay apart.
Prefixed(c) == <<"prefix", c>>

\* Slip: the dead letters are published under the bare name of the queue.
BareName(c) == <<"", c>>

\* DLQ_SERVICE_NAME, the routing key of the dead letters of c.
ServiceName(c) == Prefixed(c)

\* Slip: the dead-letter exchange is a fanout, as one comment still has it.
EveryDlq(key) == Services

\* The queue c.dlq is bound to the dead-letter exchange under the name of
\* the queue of c.
DeadLetterQueues(key) == {c \in Services : Prefixed(c) = key}

\* The topic exchange: a copy for each bound queue with the pattern; without
\* one the event is gone (mandatory: false).
Receivers(r) == {c \in bound : r \in Interest[c]}

Copied(bag, r) ==
    [c \in Services |-> [q \in Rows |->
        IF q = r /\ c \in Receivers(r) THEN bag[c][q] + 1 ELSE bag[c][q]]]

Route(p) ==
    /\ Accept(p)
    /\ \E r \in buffer[p] \ buffer'[p] :
        queue' = Copied(queue, r) /\ routed' = Copied(routed, r)
    /\ UNCHANGED <<declared, bound, wire, letters, severed, rejected, consumer>>

\* The RMQ client of a peer asserts the queue before it sends to it.
PeerDeclares(c) ==
    /\ c \notin declared
    /\ declared' = declared \cup {c}
    /\ UNCHANGED <<vars, consumer, bound, queue, wire, letters, routed, severed, rejected>>

----------------------------------------------------------------------------
(* The process of a subscribed service.                                    *)

Boot(c) ==
    /\ life[c] = "down"
    /\ life' = [life EXCEPT ![c] = "booting"]
    /\ UNCHANGED <<vars, broker, bus, running, handled, outgoing, threw, ends>>

\* Slip: a binding waits for no queue.
BindsAnyway(c) == TRUE

\* bindQueue fails, and with it the set-up, while the queue does not exist.
CanBind(c) == Interest[c] # {} => c \in declared

\* The set-up of the channel binds the queue once per pattern.
Bindings(c) == IF Interest[c] # {} THEN bound \cup {c} ELSE bound

\* EventBusService.onApplicationBootstrap. Nest runs the hook before it
\* starts the consumer, whatever the comment on the binding says.
Join(c) ==
    /\ life[c] = "booting"
    /\ CanBind(c)
    /\ life' = [life EXCEPT ![c] = "joined"]
    /\ bus' = [bus EXCEPT ![c] = TRUE]
    /\ bound' = Bindings(c)
    /\ UNCHANGED <<vars, declared, queue, wire, letters, routed, severed, rejected>>
    /\ UNCHANGED <<running, handled, outgoing, threw, ends>>

\* The rest of app.listen: the consumer asserts its queue and consumes it.
Listen(c) ==
    /\ life[c] = "joined"
    /\ life' = [life EXCEPT ![c] = "up"]
    /\ declared' = declared \cup {c}
    /\ UNCHANGED <<vars, bound, queue, wire, letters, routed, severed, rejected>>
    /\ UNCHANGED <<bus, running, handled, outgoing, threw, ends>>

\* noAck: the broker forgets the message as it sends it. The consumer is
\* cancelled only after the destroy hooks.
Deliver(c) ==
    /\ life[c] \in {"up", "closing"}
    /\ \E r \in Rows :
        /\ queue[c][r] > 0
        /\ queue' = Take(queue, c, r) /\ wire' = Put(wire, c, r)
    /\ UNCHANGED <<vars, consumer, declared, bound, letters, routed, severed, rejected>>

Receive(c) ==
    /\ life[c] \in {"up", "closing"}
    /\ \E r \in Rows :
        /\ wire[c][r] > 0
        /\ wire' = Take(wire, c, r) /\ running' = Put(running, c, r)
    /\ UNCHANGED <<vars, declared, bound, queue, letters, routed, severed, rejected>>
    /\ UNCHANGED <<life, bus, handled, outgoing, threw, ends>>

\* The connection of the consumer breaks and is opened anew. The process
\* lives and its handlers run on; what was on the wire is nowhere.
Sever(c) ==
    /\ \E r \in Rows : wire[c][r] > 0
    /\ severed' = [severed EXCEPT ![c] = [r \in Rows |-> severed[c][r] + wire[c][r]]]
    /\ wire' = Forget(wire, c)
    /\ UNCHANGED <<vars, consumer, declared, bound, queue, letters, routed, rejected>>

Return(c) ==
    /\ \E r \in Rows :
        /\ running[c][r] > 0
        /\ running' = Take(running, c, r) /\ handled' = Put(handled, c, r)
    /\ UNCHANGED <<vars, broker, life, bus, outgoing, threw, ends>>

\* Slip: the error is swallowed before it is recorded.
Swallowed(c, r) == outgoing

\* publishToDeadLetter: without a channel the letter is dropped with a
\* warning.
WithLetter(c, r) == IF bus[c] THEN Put(outgoing, c, r) ELSE outgoing

\* The handler throws; the interceptor records the event and swallows.
Throw(c) ==
    /\ \E r \in Rows :
        /\ running[c][r] > 0
        /\ running' = Take(running, c, r)
        /\ threw' = Put(threw, c, r)
        /\ outgoing' = WithLetter(c, r)
    /\ UNCHANGED <<vars, broker, life, bus, handled, ends>>

\* The broker takes a dead letter and routes it by the name of the service.
DeadLetter(c) ==
    /\ bus[c]
    /\ \E r \in Rows :
        /\ outgoing[c][r] > 0
        /\ outgoing' = Take(outgoing, c, r)
        /\ letters' = [d \in Services |->
                IF d \in DeadLetterQueues(ServiceName(c))
                THEN [letters[d] EXCEPT ![r] = @ + 1] ELSE letters[d]]
    /\ UNCHANGED <<vars, declared, bound, queue, wire, routed, severed, rejected>>
    /\ UNCHANGED <<life, bus, running, handled, threw, ends>>

\* The broker refuses the dead letter: publishToDeadLetter has returned long
\* ago, its `catch` logs, and the event is recorded nowhere else.
RefuseLetter(c) ==
    /\ "refusal" \in Allowed
    /\ bus[c]
    /\ \E r \in Rows :
        /\ outgoing[c][r] > 0
        /\ outgoing' = Take(outgoing, c, r) /\ rejected' = Put(rejected, c, r)
    /\ UNCHANGED <<vars, declared, bound, queue, wire, letters, routed, severed>>
    /\ UNCHANGED <<life, bus, running, handled, threw, ends>>

\* SIGTERM: app.close runs the destroy hook of the bus, which rejects what
\* is buffered, while deliveries and handlers go on; then the process exits.
Stop(c) ==
    /\ life[c] = "up" /\ ends[c] < MaxEnds
    /\ life' = [life EXCEPT ![c] = "closing"]
    /\ UNCHANGED <<vars, broker, bus, running, handled, outgoing, threw, ends>>

CloseChannel(c) ==
    /\ life[c] = "closing" /\ bus[c]
    /\ bus' = [bus EXCEPT ![c] = FALSE]
    /\ outgoing' = Forget(outgoing, c)
    /\ UNCHANGED <<vars, broker, life, running, handled, threw, ends>>

\* The end of the process: after app.close, at the limit of 60 s for the
\* first connection, or killed at any moment. Its connection ends with it.
End(c) ==
    /\ life[c] # "down"
    /\ (life[c] = "closing" /\ ~bus[c]) \/ ends[c] < MaxEnds
    /\ life' = [life EXCEPT ![c] = "down"]
    /\ bus' = [bus EXCEPT ![c] = FALSE]
    /\ wire' = Forget(wire, c)
    /\ running' = Forget(running, c) /\ outgoing' = Forget(outgoing, c)
    /\ ends' = [ends EXCEPT ![c] = @ + 1]
    /\ UNCHANGED <<vars, declared, bound, queue, letters, routed, severed, rejected>>
    /\ UNCHANGED <<handled, threw>>

----------------------------------------------------------------------------

Publisher ==
    /\ \/ \E r \in Rows : Stage(r)
       \/ \E p \in Pods : Sweep(p) \/ Refuse(p) \/ Life(p)
    /\ UNCHANGED <<consumer, broker>>

Consumer(c) ==
    Boot(c) \/ Join(c) \/ Listen(c) \/ Deliver(c) \/ Receive(c) \/ Sever(c)
        \/ Return(c) \/ Throw(c) \/ DeadLetter(c) \/ RefuseLetter(c)
        \/ Stop(c) \/ CloseChannel(c) \/ End(c)

EventsNext ==
    \/ Publisher
    \/ \E p \in Pods : Route(p)
    \/ \E c \in Services : PeerDeclares(c) \/ Consumer(c)

EventsSpec == EventsInit /\ [][EventsNext]_eventVars

\* Outbox!Fairness for the publisher. Processes are restarted, handlers end,
\* and the broker comes back; nobody promises that a peer ever declares the
\* queue of a service that waits for it.
EventsFairness ==
    /\ \A p \in Pods :
        /\ WF_eventVars(Start(p) /\ UNCHANGED <<consumer, broker>>)
        /\ WF_eventVars(OpenBus(p) /\ UNCHANGED <<consumer, broker>>)
        /\ WF_eventVars(Find(p) /\ UNCHANGED <<consumer, broker>>)
        /\ WF_eventVars(Publish(p) /\ UNCHANGED <<consumer, broker>>)
        /\ SF_eventVars(Flush(p) /\ UNCHANGED <<consumer, broker>>)
        /\ WF_eventVars(Route(p))
    /\ \A c \in Services :
        /\ WF_eventVars(Boot(c)) /\ WF_eventVars(Join(c)) /\ WF_eventVars(Listen(c))
        /\ WF_eventVars(Deliver(c)) /\ WF_eventVars(Receive(c)) /\ WF_eventVars(Return(c) \/ Throw(c))
        /\ WF_eventVars(DeadLetter(c)) /\ WF_eventVars(CloseChannel(c))
        /\ WF_eventVars(life[c] = "closing" /\ End(c))

FairEventsSpec == EventsSpec /\ EventsFairness

----------------------------------------------------------------------------
(* Properties.                                                             *)

\* The process of c has run without an end, and is not on its way to one.
Unbroken(c) == ends[c] = 0 /\ life[c] # "closing"

\* "Failed handlers go to the per-service DLQ so we don't silently drop
\* events": while the process of a service lives, each copy it was sent is
\* waiting, under way, being handled, handled, or a dead letter, exactly
\* once, or it was lost in one of two ways: with a broken connection, or as
\* a dead letter that the broker refused. A handler that throws loses none.
EveryCopyAccounted ==
    \A c \in Services, r \in Rows : Unbroken(c) =>
        routed[c][r] = queue[c][r] + wire[c][r] + running[c][r] + handled[c][r]
                            + outgoing[c][r] + letters[c][r] + severed[c][r] + rejected[c][r]

\* Dead letters of one service do not reach the queue of another: no DLQ
\* holds more letters of an event than handlers of its own service threw.
LettersAreOwn ==
    \A c \in Services, r \in Rows : letters[c][r] + outgoing[c][r] <= threw[c][r]

\* One copy of the event ended where an event may end.
Settled(c, r) == handled[c][r] + letters[c][r] > 0

\* A copy, or the event itself, was lost though every process lives.
LostAlive(c, r) == severed[c][r] + rejected[c][r] > 0 \/ r \in refused \cup dropped

\* A process that may have had the event ended, or is about to.
LostWithProcess(c) == ~Unbroken(c) \/ died # {} \/ \E p \in Pods : phase[p] = "closing"

\* The promise from end to end: an event the broker has not seen before a
\* subscriber is bound is handled by it or lies in its DLQ in the end,
\* unless one of the known losses meets it: a refusal, a dropped publish, a
\* broken connection, the end of a process. It never just waits.
EventuallySettled ==
    \A c \in Services, r \in Rows :
        (rows[r] = "pending" /\ r \notin accepted /\ c \in bound /\ r \in Interest[c])
            ~> (Settled(c, r) \/ LostAlive(c, r) \/ LostWithProcess(c))
=============================================================================
