--------------------------- MODULE OAuthVerifier ----------------------------
(***************************************************************************)
(* The dialogue of the gateway with an OAuth provider about one presented  *)
(* token: OAuthVerifierFactory, VkOAuthVerifierService and                 *)
(* YandexOAuthVerifierService. One action is one HTTP request and the      *)
(* verdict drawn from its answer. Every request is aborted after 5 s, and  *)
(* an abort before the headers is an answer "network" like any other.      *)
(***************************************************************************)
EXTENDS Sequences, Naturals

\* One client id per platform, VK_ANDROID_APP_ID and VK_IOS_APP_ID.
Platforms == {"android", "ios"}

\* garbled: below 500 and neither the user nor a verdict on the token, that
\* is a rate limit, or a body that the abort cut off (json() yields null).
Answers == {"user", "denied", "garbled", "failing", "network"}

\* A presented token. app: for which app a genuine token was issued ("forged"
\* for none of the provider's tokens, "other" for an app that is not ours).
\* mail: the address the provider has for the user; dtoMail: does the request
\* name one, too? hint: the platform guessed from the User-Agent. An upgrade
\* without a token has nothing to verify; "google" is any provider not wired.
Requests ==
    {r \in [via : {"oauth", "upgrade"}, provider : {"vk", "yandex", "google"},
            shape : {"missing", "jwt", "opaque"}, app : Platforms \cup {"other", "forged"},
            hint : Platforms \cup {"none"}, mail : {"none", "unattested", "attested"},
            dtoMail : BOOLEAN] :
        /\ r.provider = "yandex" => r.mail # "unattested"
        /\ r.via = "upgrade" => r.shape # "missing"}

VARIABLES
    req,        \* the request
    configured, \* the platforms whose client id is set in the environment
    asking,     \* where the dialogue is
    heard       \* history: the answers of the provider so far

verifierVars == <<req, configured, asking, heard>>

Stages == {"start", "publicInfo", "userInfo", "accepted", "rejected", "unavailable"}

VerifierType ==
    /\ req \in Requests
    /\ configured \in SUBSET Platforms
    /\ asking.stage \in Stages
    /\ asking.clients \in Seq(configured)
    /\ asking.tries \in 0..2
    /\ heard \in SUBSET Answers

VerifierInit ==
    /\ req \in Requests
    /\ configured \in SUBSET Platforms
    /\ asking = [stage |-> "start", clients |-> <<>>, tries |-> 0]
    /\ heard = {}

\* verify of VK picks the id_token path by the shape of the token.
HasIdToken == req.provider = "vk" /\ req.shape = "jwt"

ByHint == IF req.hint = "ios" THEN <<"ios", "android">> ELSE <<"android", "ios">>

\* Slip: ids that are not set are tried as well.
EveryClientId == ByHint

OrderedClientIds ==
    LET IfSet(p) == IF p \in configured THEN <<p>> ELSE <<>>
    IN  IfSet(ByHint[1]) \o IfSet(ByHint[2])

\* oauthFactory.for(provider).verify(token, hints), up to the first request.
Begin ==
    /\ asking.stage = "start"
    /\ asking' =
        IF req.shape = "missing" \/ req.provider = "google" \/ (HasIdToken /\ configured = {})
        THEN [asking EXCEPT !.stage = "rejected"]
        ELSE IF HasIdToken
        THEN [stage |-> "publicInfo", clients |-> OrderedClientIds, tries |-> 0]
        ELSE [stage |-> "userInfo", clients |-> <<>>, tries |-> 2]
    /\ UNCHANGED <<req, configured, heard>>

\* The provider tells the truth about the token, or fails to answer.
Says(accepts) == {IF accepts THEN "user" ELSE "denied", "garbled", "failing", "network"}

\* Slip: a 5xx is taken for a rejection.
OnlyNetwork == {"network"}

\* Answers that say nothing about the token.
Outages == {"failing", "network"}

\* verifyIdToken: ask for one client id after the other, give up at once when
\* VK itself is in trouble.
AskPublicInfo ==
    /\ asking.stage = "publicInfo"
    /\ \E answer \in Says(req.app = Head(asking.clients)) :
        /\ heard' = heard \cup {answer}
        /\ asking' =
            IF answer = "user" THEN [asking EXCEPT !.stage = "accepted"]
            ELSE IF answer \in Outages THEN [asking EXCEPT !.stage = "unavailable"]
            ELSE IF Len(asking.clients) = 1 THEN [asking EXCEPT !.stage = "rejected"]
            ELSE [asking EXCEPT !.clients = Tail(@)]
    /\ UNCHANGED <<req, configured>>

\* Slip: the attempts are not counted down for good.
AskForEver == [asking EXCEPT !.tries = 3 - @]

\* One retry after a 5xx; two in a row mean the provider is down.
AskAgain ==
    IF asking.tries = 1 THEN [asking EXCEPT !.stage = "unavailable"]
    ELSE [asking EXCEPT !.tries = @ - 1]

\* verifyAccessToken of VK, and the userinfo request of Yandex. Neither
\* knows for which app the token was issued.
AskUserInfo ==
    /\ asking.stage = "userInfo"
    /\ \E answer \in Says(req.app # "forged") :
        /\ heard' = heard \cup {answer}
        /\ asking' =
            CASE answer = "user" -> [asking EXCEPT !.stage = "accepted"]
              [] answer = "failing" -> AskAgain
              [] answer = "network" -> [asking EXCEPT !.stage = "unavailable"]
              [] OTHER -> [asking EXCEPT !.stage = "rejected"]
    /\ UNCHANGED <<req, configured>>

Verify == Begin \/ AskPublicInfo \/ AskUserInfo

\* The identity a verifier returns. users.get of VK carries no address, and
\* an address of Yandex is a verified one.
Identity ==
    IF req.provider = "vk" /\ ~HasIdToken THEN [email |-> "none", verified |-> FALSE]
    ELSE [email |-> IF req.mail = "none" THEN "none" ELSE "provider",
          verified |-> req.mail = "attested"]

\* The token identifies its user, by what its path can know.
Genuine ==
    /\ req.shape # "missing" /\ req.provider # "google"
    /\ IF HasIdToken THEN req.app \in configured ELSE req.app # "forged"
=============================================================================
