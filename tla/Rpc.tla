-------------------------------- MODULE Rpc ---------------------------------
(***************************************************************************)
(* One RPC of the gateway to the user-service: RpcClientService.send, the  *)
(* durable queue, the handler in a pod of the user-service, its            *)
(* RpcAllExceptionsFilter, and the reply. The consumer acknowledges        *)
(* nothing (noAck), so a message is delivered at most once. The gateway's  *)
(* timeout neither recalls the message nor stops the handler.              *)
(***************************************************************************)
EXTENDS Naturals

VARIABLES
    caller,     \* the gateway: has it sent the request, has it the answer?
    message,    \* where the request, later its reply, is
    status,     \* the status send() resolves or rejects with, 0 before
    outcome,    \* history: the status the handler meant to give
    committed   \* history: did the handler change the database?

rpcVars == <<caller, message, status, outcome, committed>>

\* What a handler throws: a MicroserviceException with its status, or any
\* other Error (of Mongo, say). No handler throws an HttpException or a plain
\* RpcException, and the ValidationPipe throws none either: the payloads are
\* typed by interfaces, which it does not validate.
Thrown == [kind : {"micro"}, status : {400, 404, 409}] \cup [kind : {"error"}, status : {0}]

NoWire == [shape |-> "none", status |-> 0]

\* A reply on the wire: the result, or the error with its payload nested.
Wire == [shape : {"none", "result", "nested"}, status : {0, 200, 400, 404, 409, 500}]

RpcType ==
    /\ caller \in {"idle", "waiting", "done"}
    /\ message.at \in {"none", "queue", "pod", "reply", "gone"} /\ message.wire \in Wire
    /\ status \in {0, 200, 400, 404, 409, 500, 503, 504}
    /\ outcome \in {0, 200, 400, 404, 409, 500}
    /\ committed \in BOOLEAN

RpcInit ==
    /\ caller = "idle" /\ status = 0 /\ outcome = 0 /\ committed = FALSE
    /\ message = [at |-> "none", wire |-> NoWire]

\* send: the client publishes the request, or has no connection, which is an
\* error of unknown shape.
Send ==
    /\ caller = "idle"
    /\ \/ /\ caller' = "waiting" /\ message' = [message EXCEPT !.at = "queue"]
          /\ UNCHANGED status
       \/ caller' = "done" /\ status' = 503 /\ UNCHANGED message
    /\ UNCHANGED <<outcome, committed>>

\* A pod takes the message off the queue, for good.
Consume ==
    /\ message.at = "queue"
    /\ message' = [message EXCEPT !.at = "pod"]
    /\ UNCHANGED <<caller, status, outcome, committed>>

\* Slip: what the filter does not know is blamed on the request.
BlameTheRequest(thrown) ==
    [shape |-> "nested", status |-> IF thrown.kind = "micro" THEN thrown.status ELSE 400]

\* RpcAllExceptionsFilter: a MicroserviceException passes, an Error is a 500.
RpcFilter(thrown) ==
    [shape |-> "nested", status |-> IF thrown.kind = "micro" THEN thrown.status ELSE 500]

\* Whoever throws a MicroserviceException has changed nothing; an Error may
\* also come after the write.
HandlerEnds ==
    /\ message.at = "pod"
    /\ \/ /\ message' = [at |-> "reply", wire |-> [shape |-> "result", status |-> 200]]
          /\ outcome' = 200 /\ committed' = TRUE
       \/ \E thrown \in Thrown :
            /\ message' = [at |-> "reply", wire |-> RpcFilter(thrown)]
            /\ outcome' = IF thrown.kind = "micro" THEN thrown.status ELSE 500
            /\ committed' \in IF thrown.kind = "micro" THEN {FALSE} ELSE BOOLEAN
    /\ UNCHANGED <<caller, status>>

\* The pod dies with the handler before or after its write.
PodDies ==
    /\ message.at = "pod"
    /\ message' = [message EXCEPT !.at = "gone"]
    /\ committed' \in BOOLEAN
    /\ UNCHANGED <<caller, status, outcome>>

\* The broker is restarted: neither requests nor replies are persistent.
BrokerLoses ==
    /\ message.at \in {"queue", "reply"}
    /\ message' = [message EXCEPT !.at = "gone"]
    /\ UNCHANGED <<caller, status, outcome, committed>>

\* Slip: only a payload at the top level of the error is recognised.
TopLevelOnly(wire) == IF wire.shape = "result" THEN 200 ELSE 503

\* unwrapError finds the payload in the `error` field of what arrives.
UnwrapError(wire) == wire.status

\* The reply arrives; after the timeout nobody listens to it.
Arrive ==
    /\ message.at = "reply"
    /\ message' = [message EXCEPT !.at = "gone"]
    /\ IF caller = "waiting"
       THEN caller' = "done" /\ status' = UnwrapError(message.wire)
       ELSE UNCHANGED <<caller, status>>
    /\ UNCHANGED <<outcome, committed>>

\* timeout(15 s) in send.
Timeout ==
    /\ caller = "waiting"
    /\ caller' = "done" /\ status' = 504
    /\ UNCHANGED <<message, outcome, committed>>

Transport == Consume \/ HandlerEnds \/ PodDies \/ BrokerLoses \/ Arrive
=============================================================================
