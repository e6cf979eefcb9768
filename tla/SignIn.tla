------------------------------- MODULE SignIn -------------------------------
(***************************************************************************)
(* A request with a provider's token, from the gateway's point of view:    *)
(* AuthService.oauthLogin and the provider's half of AuthService.upgrade.  *)
(* First the dialogue with the provider (OAuthVerifier), then the RPC to   *)
(* the user-service (Rpc), then the HTTP answer. What the user-service     *)
(* does with the payload is in Accounts.                                   *)
(***************************************************************************)
EXTENDS OAuthVerifier, Rpc

VARIABLE payload    \* what the gateway told the user-service

vars == <<verifierVars, rpcVars, payload>>

NoPayload == [email |-> "none", verified |-> FALSE]
Payload == [email : {"none", "provider", "client"}, verified : BOOLEAN]

TypeOK == VerifierType /\ RpcType /\ payload \in Payload

Init == VerifierInit /\ RpcInit /\ payload = NoPayload

ClientMail == IF req.dtoMail THEN "client" ELSE "none"

\* Slip: the flag is passed on by itself, and the request's address wins.
TrustTheRequest ==
    IF req.via = "upgrade" THEN [NoPayload EXCEPT !.email = ClientMail]
    ELSE [email |-> IF req.dtoMail THEN "client" ELSE Identity.email,
          verified |-> Identity.verified]

\* oauthLogin takes the provider's address before the request's and passes
\* the flag on with the former only; upgrade passes the request's address.
PayloadFor ==
    IF req.via = "upgrade" THEN [NoPayload EXCEPT !.email = ClientMail]
    ELSE [email |-> IF Identity.email # "none" THEN Identity.email ELSE ClientMail,
          verified |-> Identity.email # "none" /\ Identity.verified]

CallUserService ==
    /\ asking.stage = "accepted"
    /\ Send
    /\ payload' = PayloadFor
    /\ UNCHANGED verifierVars

Ask == Verify /\ UNCHANGED <<rpcVars, payload>>
Carry == Transport /\ UNCHANGED <<verifierVars, payload>>
GiveUp == Timeout /\ UNCHANGED <<verifierVars, payload>>

Next == Ask \/ CallUserService \/ Carry \/ GiveUp

\* The gateway keeps running, and so do its timers: of every fetch, and of
\* the RPC. Neither the user-service nor the broker is assumed to do a thing.
Fairness == WF_vars(Ask) /\ WF_vars(CallUserService) /\ WF_vars(GiveUp)

Spec == Init /\ [][Next]_vars
FairSpec == Spec /\ Fairness

\* The answer to the HTTP request, 0 while there is none. AllExceptionsFilter
\* keeps the status of every HttpException.
HttpStatus ==
    CASE asking.stage = "rejected" -> 401
      [] asking.stage = "unavailable" -> 503
      [] OTHER -> status

----------------------------------------------------------------------------
(* Properties.                                                             *)

\* Verifiers: an outage of the provider never looks like a bad token. A 401,
\* upon which clients drop their tokens, meets a genuine token only when the
\* provider answered below 500 with neither a user nor a verdict.
GenuineNotRejected == Genuine /\ HttpStatus = 401 => "garbled" \in heard

\* oauthLogin (auth.service.ts:150-154): the user-service may merge accounts by
\* an address only if the provider named and attested it. It never links by
\* the address in the request, which auth.dto.ts:137 documents as a hint "Used
\* to link accounts by email".
OnlyAttestedMerges ==
    payload.verified => payload.email = "provider" /\ req.mail = "attested"

\* oauthLogin, upgrade: a success was committed, and after a 4xx the client
\* can be sure that nothing was, whoever dies or is late on the way.
AnswerTellsTheTruth ==
    /\ HttpStatus = 200 => committed
    /\ HttpStatus \in 400..499 => ~committed

\* RpcAllExceptionsFilter and unwrapError: an answer that arrives in time is
\* the one the handler gave. The gateway's own are a 504, and a 503 for a
\* request it could not send.
StatusSurvives ==
    status \notin {0, 504} => status = outcome \/ (status = 503 /\ message.at = "none")

\* Every request is answered, whatever provider, user-service and broker do.
EveryRequestAnswered == <>(HttpStatus # 0)
=============================================================================
