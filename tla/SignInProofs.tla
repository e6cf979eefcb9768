---------------------------- MODULE SignInProofs ----------------------------
(* What a client may conclude from the answer to its sign-in: in any order *)
(* of the provider's answers, the transport's losses and the timers.       *)
EXTENDS SignIn, SequenceTheorems, TLAPS

\* The orders in which client ids are tried.
Orders == {<<"ios">>, <<"android">>, <<"ios", "android">>, <<"android", "ios">>}

Asking == [stage : Stages, clients : Seq(Platforms), tries : 0..2]
Message == [at : {"none", "queue", "pod", "reply", "gone"}, wire : Wire]

\* Which verdicts are still possible. A genuine id_token loses no client id
\* but those that were asked in vain.
VerifierInv ==
    /\ req \in Requests /\ configured \in SUBSET Platforms /\ heard \in SUBSET Answers
    /\ asking \in Asking /\ asking.clients \in Seq(configured)
    /\ asking.stage = "start" => asking.tries = 0
    /\ asking.stage = "publicInfo" =>
            /\ HasIdToken /\ asking.clients \in Orders
            /\ Genuine /\ "garbled" \notin heard =>
                    \E n \in 1..Len(asking.clients) : asking.clients[n] = req.app
    /\ asking.stage = "userInfo" =>
            ~HasIdToken /\ req.shape # "missing" /\ req.provider # "google" /\ asking.tries \in {1, 2}
    /\ asking.stage = "rejected" /\ Genuine => "garbled" \in heard

\* What the gateway can know of the handler at the other end.
CallInv ==
    /\ RpcType /\ message \in Message /\ payload \in Payload
    /\ caller = "idle" => status = 0 /\ message.at = "none"
    /\ caller = "waiting" => status = 0 /\ message.at # "none"
    /\ message.at \in {"none", "queue", "pod"} => outcome = 0 /\ ~committed
    /\ message.at = "reply" => message.wire.status = outcome
    /\ outcome = 200 => committed
    /\ outcome \in {400, 404, 409} => ~committed
    /\ status \notin {0, 504} => status = outcome \/ (status = 503 /\ message.at = "none")
    /\ asking.stage # "accepted" => caller = "idle"
    /\ payload.verified => payload.email = "provider" /\ req.mail = "attested"

\* What is left of two client ids after the first.
LEMMA TailOfTwo ==
    ASSUME NEW a, NEW b
    PROVE  Tail(<<a, b>>) = <<b>>
<1>1. <<a, b>> \in Seq({a, b}) /\ <<b>> \in Seq({a, b})
  OBVIOUS
<1>2. Tail(<<a, b>>) \in Seq({a, b}) /\ Len(Tail(<<a, b>>)) = 1 /\ Tail(<<a, b>>)[1] = b
  BY <1>1
<1>3. Len(<<b>>) = 1 /\ \A i \in 1..1 : Tail(<<a, b>>)[i] = <<b>>[i]
  BY <1>2
<1> QED
  BY <1>1, <1>2, <1>3, SeqEqual

\* Putting together the ids that are set, at most one from either side.
LEMMA OneAndOne ==
    ASSUME NEW a, NEW b
    PROVE  <<a>> \o <<b>> = <<a, b>> /\ <<>> \o <<b>> = <<b>> /\ <<a>> \o <<>> = <<a>>
<1>1. <<a>> \in Seq({a, b}) /\ <<b>> \in Seq({a, b}) /\ <<a, b>> \in Seq({a, b})
  OBVIOUS
<1>2. Len(<<a>> \o <<b>>) = 2 /\ Len(<<a, b>>) = 2
  BY <1>1
<1>3. (<<a>> \o <<b>>)[1] = a /\ (<<a>> \o <<b>>)[2] = b
  BY <1>1
<1>4. \A i \in 1..2 : (<<a>> \o <<b>>)[i] = <<a, b>>[i]
  BY <1>3
<1>5. <<a>> \o <<b>> \in Seq({a, b})
  BY <1>1, ConcatProperties
<1>6. <<a>> \o <<b>> = <<a, b>>
  BY <1>1, <1>2, <1>4, <1>5, SeqEqual
<1> QED
  BY <1>1, <1>6, ConcatEmptySeq

\* orderedClientIds: every id that is set is tried, once, and no other.
LEMMA ClientIds ==
    ASSUME configured \in SUBSET Platforms, configured # {}
    PROVE  /\ OrderedClientIds \in Orders /\ OrderedClientIds \in Seq(configured)
           /\ \A p \in configured : \E n \in 1..Len(OrderedClientIds) : OrderedClientIds[n] = p
<1>1. configured = {"ios"} \/ configured = {"android"} \/ configured = {"ios", "android"}
  BY DEF Platforms
<1>2. ByHint = <<"ios", "android">> \/ ByHint = <<"android", "ios">>
  BY DEF ByHint
<1>3. /\ <<"ios">> \o <<"android">> = <<"ios", "android">>
      /\ <<"android">> \o <<"ios">> = <<"android", "ios">>
      /\ <<>> \o <<"ios">> = <<"ios">> /\ <<"ios">> \o <<>> = <<"ios">>
      /\ <<>> \o <<"android">> = <<"android">> /\ <<"android">> \o <<>> = <<"android">>
  BY OneAndOne
<1>4. \/ configured = {"ios"} /\ OrderedClientIds = <<"ios">>
      \/ configured = {"android"} /\ OrderedClientIds = <<"android">>
      \/ configured = {"ios", "android"} /\ OrderedClientIds = <<"ios", "android">>
      \/ configured = {"ios", "android"} /\ OrderedClientIds = <<"android", "ios">>
  <2>1. OrderedClientIds = (IF ByHint[1] \in configured THEN <<ByHint[1]>> ELSE <<>>)
                           \o (IF ByHint[2] \in configured THEN <<ByHint[2]>> ELSE <<>>)
    BY DEF OrderedClientIds
  <2>2. CASE ByHint = <<"ios", "android">>
    <3>1. ByHint[1] = "ios" /\ ByHint[2] = "android"
      BY <2>2
    <3> QED
      BY <1>1, <1>3, <2>1, <3>1
  <2>3. CASE ByHint = <<"android", "ios">>
    <3>1. ByHint[1] = "android" /\ ByHint[2] = "ios"
      BY <2>3
    <3> QED
      BY <1>1, <1>3, <2>1, <3>1
  <2> QED
    BY <1>2, <2>2, <2>3
<1>5. CASE configured = {"ios"} /\ OrderedClientIds = <<"ios">>
  BY <1>5 DEF Orders
<1>6. CASE configured = {"android"} /\ OrderedClientIds = <<"android">>
  BY <1>6 DEF Orders
<1>7. CASE configured = {"ios", "android"} /\ OrderedClientIds = <<"ios", "android">>
  BY <1>7 DEF Orders
<1>8. CASE configured = {"ios", "android"} /\ OrderedClientIds = <<"android", "ios">>
  BY <1>8 DEF Orders
<1> QED
  BY <1>4, <1>5, <1>6, <1>7, <1>8

----------------------------------------------------------------------------
(* The dialogue with the provider.                                         *)

\* The first request is prepared: refused at once is only what is no token.
LEMMA BeginSound ==
    ASSUME VerifierInv, Begin
    PROVE  VerifierInv'
<1> USE DEF Begin, Platforms
<1>1. /\ req' = req /\ configured' = configured /\ heard' = heard
      /\ HasIdToken' = HasIdToken /\ Genuine' = Genuine
  BY DEF HasIdToken, Genuine
<1>2. asking \in Asking /\ asking.stage = "start" /\ asking.clients \in Seq(configured)
  BY DEF VerifierInv
<1>3. CASE req.shape = "missing" \/ req.provider = "google" \/ (HasIdToken /\ configured = {})
  <2>1. asking' = [asking EXCEPT !.stage = "rejected"]
    BY <1>3
  <2>2. ~Genuine
    BY <1>3 DEF Genuine
  <2> QED
    BY <1>1, <1>2, <2>1, <2>2 DEF VerifierInv, Asking, Stages
<1>4. CASE /\ req.shape # "missing" /\ req.provider # "google"
           /\ HasIdToken /\ configured # {}
  <2>1. asking' = [stage |-> "publicInfo", clients |-> OrderedClientIds, tries |-> 0]
    BY <1>4
  <2>2. /\ OrderedClientIds \in Orders /\ OrderedClientIds \in Seq(configured)
        /\ \A p \in configured : \E n \in 1..Len(OrderedClientIds) : OrderedClientIds[n] = p
    BY <1>4, ClientIds DEF VerifierInv
  <2>3. OrderedClientIds \in Seq(Platforms)
    BY <2>2 DEF Orders
  <2>4. Genuine => req.app \in configured
    BY <1>4 DEF Genuine
  <2> QED
    <3>1. /\ asking'.stage = "publicInfo" /\ asking'.clients = OrderedClientIds
          /\ asking' \in Asking
      BY <2>1, <2>3 DEF Asking, Stages
    <3>2. /\ req' \in Requests /\ configured' \in SUBSET Platforms /\ heard' \in SUBSET Answers
          /\ asking'.clients \in Seq(configured')
      BY <1>1, <2>2, <3>1 DEF VerifierInv
    <3>3. /\ HasIdToken' /\ asking'.clients \in Orders
          /\ Genuine' => \E n \in 1..Len(asking'.clients) : asking'.clients[n] = req'.app
      BY <1>1, <1>4, <2>2, <2>4, <3>1
    <3> QED
      BY <3>1, <3>2, <3>3 DEF VerifierInv
<1>5. CASE req.shape # "missing" /\ req.provider # "google" /\ ~HasIdToken
  <2>1. asking' = [stage |-> "userInfo", clients |-> <<>>, tries |-> 2]
    BY <1>5
  <2> QED
    BY <1>1, <1>5, <2>1 DEF VerifierInv, Asking, Stages
<1> QED
  BY <1>3, <1>4, <1>5

\* verifyIdToken: an id that is passed over was not the token's.
LEMMA AskPublicInfoSound ==
    ASSUME VerifierInv, AskPublicInfo
    PROVE  VerifierInv'
<1>1. /\ req' = req /\ configured' = configured
      /\ HasIdToken' = HasIdToken /\ Genuine' = Genuine
  BY DEF AskPublicInfo, HasIdToken, Genuine
<1>2. /\ asking \in Asking /\ asking.stage = "publicInfo" /\ HasIdToken
      /\ asking.clients \in Orders /\ asking.clients \in Seq(configured)
      /\ heard \subseteq Answers
  BY DEF AskPublicInfo, VerifierInv
<1>3. PICK answer \in Says(req.app = Head(asking.clients)) :
        /\ heard' = heard \cup {answer}
        /\ asking' =
            IF answer = "user" THEN [asking EXCEPT !.stage = "accepted"]
            ELSE IF answer \in Outages THEN [asking EXCEPT !.stage = "unavailable"]
            ELSE IF Len(asking.clients) = 1 THEN [asking EXCEPT !.stage = "rejected"]
            ELSE [asking EXCEPT !.clients = Tail(@)]
  BY DEF AskPublicInfo
<1>4. /\ heard' \subseteq Answers /\ answer \in Answers
      /\ answer = "denied" => req.app # Head(asking.clients)
  BY <1>2, <1>3 DEF Says, Answers
<1>5. CASE answer = "user" \/ answer \in Outages
  <2>1. \/ asking' = [asking EXCEPT !.stage = "accepted"]
        \/ asking' = [asking EXCEPT !.stage = "unavailable"]
    BY <1>3, <1>5
  <2> QED
    BY <1>1, <1>2, <1>4, <2>1 DEF VerifierInv, Asking, Stages
<1>6. CASE answer \in {"denied", "garbled"} /\ Len(asking.clients) = 1
  <2>1. asking' = [asking EXCEPT !.stage = "rejected"]
    BY <1>3, <1>6 DEF Outages
  <2>2. Genuine => "garbled" \in heard'
    <3>1. SUFFICES ASSUME Genuine, "garbled" \notin heard, answer = "denied"
                   PROVE  FALSE
      BY <1>3, <1>6
    <3>2. \E n \in 1..Len(asking.clients) : asking.clients[n] = req.app
      BY <1>2, <3>1 DEF VerifierInv
    <3>3. asking.clients[1] = req.app /\ Head(asking.clients) = asking.clients[1]
      BY <1>2, <1>6, <3>2 DEF Orders
    <3> QED
      BY <1>4, <3>1, <3>3
  <2> QED
    BY <1>1, <1>2, <1>4, <2>1, <2>2 DEF VerifierInv, Asking, Stages
<1>7. CASE answer \in {"denied", "garbled"} /\ Len(asking.clients) # 1
  <2>1. asking' = [asking EXCEPT !.clients = Tail(@)]
    BY <1>3, <1>7 DEF Outages
  <2>2. asking.clients = <<"ios", "android">> \/ asking.clients = <<"android", "ios">>
    BY <1>2, <1>7 DEF Orders
  <2>3. Len(asking.clients) = 2 /\ asking.clients[2] \in Platforms
    BY <2>2 DEF Platforms
  <2>4. Head(asking.clients) = asking.clients[1] /\ asking.clients[2] \in configured
    BY <1>2, <2>3
  <2>5. Tail(asking.clients) = <<asking.clients[2]>>
    <3>1. asking.clients = <<asking.clients[1], asking.clients[2]>>
      BY <2>2
    <3> QED
      BY <3>1, TailOfTwo, Zenon
  <2>6. /\ Tail(asking.clients) \in Seq(configured) /\ Tail(asking.clients) \in Seq(Platforms)
        /\ Tail(asking.clients) \in Orders
    <3>1. <<asking.clients[2]>> \in Seq(configured) /\ <<asking.clients[2]>> \in Seq(Platforms)
      BY <2>3, <2>4
    <3>2. <<asking.clients[2]>> \in Orders
      BY <2>3 DEF Orders, Platforms
    <3> QED
      BY <2>5, <3>1, <3>2
  <2>7. Genuine /\ "garbled" \notin heard' =>
            \E n \in 1..Len(Tail(asking.clients)) : Tail(asking.clients)[n] = req.app
    <3>1. SUFFICES ASSUME Genuine, "garbled" \notin heard, answer = "denied"
                   PROVE  asking.clients[2] = req.app
      BY <1>3, <1>7, <2>5
    <3>2. \E n \in 1..Len(asking.clients) : asking.clients[n] = req.app
      BY <1>2, <3>1 DEF VerifierInv
    <3> QED
      BY <1>4, <2>3, <2>4, <3>1, <3>2
  <2>8. /\ asking'.stage = "publicInfo" /\ asking'.clients = Tail(asking.clients)
        /\ asking' \in Asking
    BY <1>2, <2>1, <2>6 DEF Asking
  <2>9. /\ req' \in Requests /\ configured' \in SUBSET Platforms /\ heard' \in SUBSET Answers
        /\ asking'.clients \in Seq(configured')
    BY <1>1, <1>4, <2>6, <2>8 DEF VerifierInv
  <2>10. asking'.stage = "publicInfo" =>
            /\ HasIdToken' /\ asking'.clients \in Orders
            /\ Genuine' /\ "garbled" \notin heard' =>
                    \E n \in 1..Len(asking'.clients) : asking'.clients[n] = req'.app
    BY <1>1, <1>2, <2>6, <2>7, <2>8
  <2> QED
    BY <2>8, <2>9, <2>10 DEF VerifierInv
<1> QED
  BY <1>4, <1>5, <1>6, <1>7 DEF Answers, Outages

\* verifyAccessToken and Yandex: only a token that is none is refused.
LEMMA AskUserInfoSound ==
    ASSUME VerifierInv, AskUserInfo
    PROVE  VerifierInv'
<1>1. /\ req' = req /\ configured' = configured
      /\ HasIdToken' = HasIdToken /\ Genuine' = Genuine
  BY DEF AskUserInfo, HasIdToken, Genuine
<1>2. /\ asking \in Asking /\ asking.stage = "userInfo" /\ heard \subseteq Answers
      /\ ~HasIdToken /\ asking.tries \in {1, 2} /\ asking.clients \in Seq(configured)
  BY DEF AskUserInfo, VerifierInv
<1>3. PICK answer \in Says(req.app # "forged") :
        /\ heard' = heard \cup {answer}
        /\ asking' =
            CASE answer = "user" -> [asking EXCEPT !.stage = "accepted"]
              [] answer = "failing" -> AskAgain
              [] answer = "network" -> [asking EXCEPT !.stage = "unavailable"]
              [] OTHER -> [asking EXCEPT !.stage = "rejected"]
  BY DEF AskUserInfo
<1>4. heard' \subseteq Answers /\ answer \in Answers
  BY <1>2, <1>3 DEF Says, Answers
<1>5. CASE answer \in {"user", "network"} \/ (answer = "failing" /\ asking.tries = 1)
  <2>1. \/ asking' = [asking EXCEPT !.stage = "accepted"]
        \/ asking' = [asking EXCEPT !.stage = "unavailable"]
    BY <1>3, <1>5 DEF AskAgain
  <2> QED
    BY <1>1, <1>2, <1>4, <2>1 DEF VerifierInv, Asking, Stages
<1>6. CASE answer = "failing" /\ asking.tries # 1
  <2>1. asking' = [asking EXCEPT !.tries = @ - 1]
    BY <1>3, <1>6 DEF AskAgain
  <2>2. asking.tries = 2
    BY <1>2, <1>6
  <2>3. /\ asking'.stage = "userInfo" /\ asking'.tries = 1 /\ asking'.clients = asking.clients
        /\ asking' \in Asking
    BY <1>2, <2>1, <2>2 DEF Asking
  <2> QED
    BY <1>1, <1>2, <1>4, <2>3 DEF VerifierInv
<1>7. CASE answer \in {"denied", "garbled"}
  <2>1. asking' = [asking EXCEPT !.stage = "rejected"]
    BY <1>3, <1>7
  <2>2. Genuine => "garbled" \in heard'
    BY <1>2, <1>3, <1>7 DEF Genuine, Says
  <2> QED
    BY <1>1, <1>2, <1>4, <2>1, <2>2 DEF VerifierInv, Asking, Stages
<1> QED
  BY <1>4, <1>5, <1>6, <1>7 DEF Answers

\* Nothing but the dialogue touches what the verdict rests on.
LEMMA VerifierStep ==
    ASSUME VerifierInv, [Next]_vars
    PROVE  VerifierInv'
<1>1. CASE Ask
  BY <1>1, BeginSound, AskPublicInfoSound, AskUserInfoSound DEF Ask, Verify
<1>2. CASE UNCHANGED verifierVars
  BY <1>2 DEF VerifierInv, verifierVars, HasIdToken, Genuine
<1> QED
  BY <1>1, <1>2 DEF Next, CallUserService, Carry, GiveUp, vars

----------------------------------------------------------------------------
(* The call of the user-service.                                           *)

\* The verifiers have no part in the call, and end before it starts.
LEMMA AskKeepsCall ==
    ASSUME VerifierInv, CallInv, Ask
    PROVE  CallInv'
<1>1. req' = req /\ asking.stage # "accepted" /\ UNCHANGED <<rpcVars, payload>>
  BY DEF Ask, Verify, Begin, AskPublicInfo, AskUserInfo
<1>2. caller = "idle"
  BY <1>1 DEF CallInv
<1> QED
  BY <1>1, <1>2 DEF CallInv, RpcType, rpcVars

\* oauthLogin, upgrade: what goes out is what was attested, nothing else.
LEMMA CallUserServiceSound ==
    ASSUME VerifierInv, CallInv, CallUserService
    PROVE  CallInv'
<1>1. /\ req' = req /\ asking' = asking /\ asking.stage = "accepted" /\ caller = "idle"
      /\ payload' = PayloadFor /\ UNCHANGED <<outcome, committed>>
      /\ req \in Requests
  BY DEF CallUserService, Send, verifierVars, VerifierInv
<1>2. /\ \/ caller' = "waiting" /\ message' = [message EXCEPT !.at = "queue"] /\ status' = status
         \/ caller' = "done" /\ status' = 503 /\ message' = message
  BY DEF CallUserService, Send
<1>3. message.at = "none" /\ outcome = 0 /\ ~committed /\ status = 0
  BY <1>1 DEF CallInv
<1>4. PayloadFor \in Payload
      /\ (PayloadFor.verified => PayloadFor.email = "provider" /\ req.mail = "attested")
  <2>1. Identity.email \in {"none", "provider"} /\ Identity.verified \in BOOLEAN
        /\ (Identity.verified => req.mail = "attested")
    BY DEF Identity
  <2>2. ClientMail \in {"none", "client"}
    BY DEF ClientMail
  <2>3. CASE req.via = "upgrade"
    <3>1. PayloadFor = [email |-> ClientMail, verified |-> FALSE]
      BY <2>3 DEF PayloadFor, NoPayload
    <3> QED
      BY <2>2, <3>1 DEF Payload
  <2>4. CASE req.via # "upgrade" /\ Identity.email = "none"
    <3>1. PayloadFor = [email |-> ClientMail, verified |-> FALSE]
      BY <2>4 DEF PayloadFor
    <3> QED
      BY <2>2, <3>1 DEF Payload
  <2>5. CASE req.via # "upgrade" /\ Identity.email # "none"
    <3>1. PayloadFor = [email |-> Identity.email, verified |-> Identity.verified]
      BY <2>1, <2>5 DEF PayloadFor
    <3> QED
      BY <2>1, <2>5, <3>1 DEF Payload
  <2> QED
    BY <2>3, <2>4, <2>5
<1>5. message' \in Message /\ message'.at \in {"none", "queue"} /\ message'.wire \in Wire
      /\ (caller' = "waiting" => message'.at = "queue")
      /\ (caller' = "done" => message'.at = "none" /\ status' = 503)
      /\ (caller' = "waiting" => status' = 0)
      /\ caller' \in {"waiting", "done"}
  BY <1>2, <1>3 DEF CallInv, Message
<1> QED
  BY <1>1, <1>3, <1>4, <1>5 DEF CallInv, RpcType

\* A message moves on or is lost; the outcome is what the reply says.
LEMMA CarrySound ==
    ASSUME VerifierInv, CallInv, Carry
    PROVE  CallInv'
<1>1. req' = req /\ asking' = asking /\ payload' = payload
  BY DEF Carry, verifierVars
<1>2. CASE Consume \/ BrokerLoses
  <2>1. /\ message' = [message EXCEPT !.at = "pod"] \/ message' = [message EXCEPT !.at = "gone"]
        /\ message'.at = "pod" => message.at = "queue"
        /\ message.at # "none"
        /\ UNCHANGED <<caller, status, outcome, committed>>
    BY <1>2 DEF Consume, BrokerLoses, CallInv, Message
  <2>2. /\ message' \in Message /\ message'.at \in {"pod", "gone"} /\ message'.wire \in Wire
    BY <2>1 DEF CallInv, Message
  <2> QED
    BY <1>1, <2>1, <2>2 DEF CallInv, RpcType
<1>3. CASE HandlerEnds
  <2>1. /\ message.at = "pod" /\ UNCHANGED <<caller, status>>
        /\ outcome = 0 /\ ~committed
        /\ caller # "idle" /\ status \in {0, 504}
    BY <1>3 DEF HandlerEnds, CallInv
  <2> DEFINE Replied ==
        /\ message' \in Message /\ message'.at = "reply" /\ message'.wire.status = outcome'
        /\ message'.wire \in Wire
        /\ outcome' \in {200, 400, 404, 409, 500} /\ committed' \in BOOLEAN
        /\ outcome' = 200 => committed'
        /\ outcome' \in {400, 404, 409} => ~committed'
  <2>2. Replied
    <3>1. CASE /\ message' = [at |-> "reply", wire |-> [shape |-> "result", status |-> 200]]
               /\ outcome' = 200 /\ committed' = TRUE
      BY <3>1 DEF Message, Wire
    <3>2. ASSUME NEW thrown \in Thrown,
                 /\ message' = [at |-> "reply", wire |-> RpcFilter(thrown)]
                 /\ outcome' = IF thrown.kind = "micro" THEN thrown.status ELSE 500
                 /\ committed' \in IF thrown.kind = "micro" THEN {FALSE} ELSE BOOLEAN
          PROVE  Replied
      <4>1. CASE thrown.kind = "micro"
        <5>1. thrown.status \in {400, 404, 409}
          BY <4>1 DEF Thrown
        <5>2. RpcFilter(thrown) = [shape |-> "nested", status |-> thrown.status]
          BY <4>1 DEF RpcFilter
        <5> QED
          BY <3>2, <4>1, <5>1, <5>2 DEF Message, Wire
      <4>2. CASE thrown.kind # "micro"
        <5>1. RpcFilter(thrown) = [shape |-> "nested", status |-> 500]
          BY <4>2 DEF RpcFilter
        <5> QED
          BY <3>2, <4>2, <5>1 DEF Message, Wire
      <4> QED
        BY <4>1, <4>2
    <3> HIDE DEF Replied
    <3> QED
      BY <1>3, <3>1, <3>2 DEF HandlerEnds
  <2> QED
    BY <1>1, <2>1, <2>2 DEF CallInv, RpcType
<1>4. CASE PodDies
  <2>1. /\ message.at = "pod" /\ message' = [message EXCEPT !.at = "gone"]
        /\ UNCHANGED <<caller, status, outcome>> /\ committed' \in BOOLEAN
        /\ outcome = 0
    BY <1>4 DEF PodDies, CallInv
  <2>2. message' \in Message /\ message'.at = "gone" /\ message'.wire \in Wire
    BY <2>1 DEF CallInv, Message
  <2> QED
    BY <1>1, <2>1, <2>2 DEF CallInv, RpcType
<1>5. CASE Arrive
  <2>1. /\ message.at = "reply" /\ message' = [message EXCEPT !.at = "gone"]
        /\ message.wire.status = outcome
        /\ UNCHANGED <<outcome, committed>>
        /\ \/ caller = "waiting" /\ caller' = "done" /\ status' = outcome
           \/ caller # "waiting" /\ UNCHANGED <<caller, status>>
    BY <1>5 DEF Arrive, CallInv, UnwrapError
  <2>2. message' \in Message /\ message'.at = "gone" /\ message'.wire \in Wire
    BY <2>1 DEF CallInv, Message
  <2> QED
    BY <1>1, <2>1, <2>2 DEF CallInv, RpcType
<1> QED
  BY <1>2, <1>3, <1>4, <1>5 DEF Carry, Transport

\* The gateway stops waiting; message and handler go on.
LEMMA GiveUpSound ==
    ASSUME VerifierInv, CallInv, GiveUp
    PROVE  CallInv'
<1>1. /\ caller = "waiting" /\ caller' = "done" /\ status' = 504
      /\ UNCHANGED <<message, outcome, committed>>
      /\ req' = req /\ asking' = asking /\ payload' = payload
  BY DEF GiveUp, Timeout, verifierVars
<1> QED
  BY <1>1 DEF CallInv, RpcType

----------------------------------------------------------------------------

IInv == VerifierInv /\ CallInv

\* Both halves hold at any time.
THEOREM Invariance == Spec => []IInv
<1>1. Init => IInv
  <2> SUFFICES ASSUME Init PROVE VerifierInv /\ CallInv
    BY DEF IInv
  <2>1. VerifierInv
    BY DEF Init, VerifierInit, VerifierInv, Asking, Stages
  <2>2. CallInv
    <3>1. /\ caller = "idle" /\ status = 0 /\ outcome = 0 /\ committed = FALSE
          /\ message = [at |-> "none", wire |-> [shape |-> "none", status |-> 0]]
          /\ payload = [email |-> "none", verified |-> FALSE]
      BY DEF Init, RpcInit, NoWire, NoPayload
    <3>2. message.at = "none" /\ message.wire \in Wire /\ message \in Message
      BY <3>1 DEF Message, Wire
    <3>3. payload \in Payload /\ payload.verified = FALSE
      BY <3>1 DEF Payload
    <3>4. RpcType
      BY <3>1, <3>2 DEF RpcType
    <3>5. payload.verified => payload.email = "provider" /\ req.mail = "attested"
      BY <3>3
    <3> QED
      BY <3>1, <3>2, <3>3, <3>4, <3>5 DEF CallInv
  <2> QED
    BY <2>1, <2>2
<1>2. IInv /\ [Next]_vars => IInv'
  <2> SUFFICES ASSUME VerifierInv, CallInv, [Next]_vars PROVE VerifierInv' /\ CallInv'
    BY DEF IInv
  <2>1. VerifierInv'
    BY VerifierStep
  <2>2. CASE UNCHANGED vars
    <3>1. /\ req' = req /\ asking' = asking /\ payload' = payload /\ caller' = caller
          /\ message' = message /\ status' = status /\ outcome' = outcome /\ committed' = committed
      BY <2>2 DEF vars, verifierVars, rpcVars
    <3> QED
      BY <2>1, <3>1 DEF CallInv, RpcType
  <2> QED
    BY <2>1, <2>2, AskKeepsCall, CallUserServiceSound, CarrySound, GiveUpSound DEF Next
<1> QED
  BY <1>1, <1>2, PTL DEF Spec

\* SignIn: every variable keeps its type.
THEOREM TypeCorrect == Spec => []TypeOK
<1>1. IInv => TypeOK
  BY DEF IInv, VerifierInv, CallInv, TypeOK, VerifierType, Asking
<1> QED
  BY <1>1, Invariance, PTL

\* VkOAuthVerifierService, YandexOAuthVerifierService: a genuine token meets
\* a 401 only when the provider's answer was neither user nor verdict.
THEOREM OutagesAreNoRejections == Spec => []GenuineNotRejected
<1>1. IInv => GenuineNotRejected
  <2> SUFFICES ASSUME VerifierInv, CallInv, Genuine, HttpStatus = 401
               PROVE  "garbled" \in heard
    BY DEF IInv, GenuineNotRejected
  <2>1. asking.stage = "rejected"
    BY DEF HttpStatus, CallInv, RpcType
  <2> QED
    BY <2>1 DEF VerifierInv
<1> QED
  BY <1>1, Invariance, PTL

\* AuthService.oauthLogin: accounts merge by attested addresses only.
THEOREM MergesAreAttested == Spec => []OnlyAttestedMerges
<1>1. IInv => OnlyAttestedMerges
  BY DEF IInv, CallInv, OnlyAttestedMerges
<1> QED
  BY <1>1, Invariance, PTL

\* AuthService, RpcClientService: a 200 was committed and a 4xx was not.
THEOREM AnswersAreTrue == Spec => []AnswerTellsTheTruth
<1>1. IInv => AnswerTellsTheTruth
  <2> SUFFICES ASSUME VerifierInv, CallInv PROVE AnswerTellsTheTruth
    BY DEF IInv
  <2>1. CASE asking.stage \in {"rejected", "unavailable"}
    <3>1. HttpStatus \in {401, 503} /\ ~committed
      BY <2>1 DEF HttpStatus, CallInv
    <3> QED
      BY <3>1 DEF AnswerTellsTheTruth
  <2>2. CASE asking.stage \notin {"rejected", "unavailable"}
    <3>1. HttpStatus = status
      BY <2>2 DEF HttpStatus
    <3>2. status = 200 => committed
      BY DEF CallInv, RpcType
    <3>3. status \in {400, 404, 409} => ~committed
      BY DEF CallInv, RpcType
    <3>4. status \in 400..499 => status \in {400, 404, 409}
      BY DEF CallInv, RpcType
    <3> QED
      BY <3>1, <3>2, <3>3, <3>4 DEF AnswerTellsTheTruth
  <2> QED
    BY <2>1, <2>2
<1> QED
  BY <1>1, Invariance, PTL

\* RpcAllExceptionsFilter, unwrapError: a reply in time is the handler's own.
THEOREM StatusKept == Spec => []StatusSurvives
<1>1. IInv => StatusSurvives
  BY DEF IInv, CallInv, StatusSurvives
<1> QED
  BY <1>1, Invariance, PTL
=============================================================================
