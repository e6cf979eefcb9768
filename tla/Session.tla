------------------------------ MODULE Session ------------------------------
(***************************************************************************)
(* Refresh tokens in the gateway: AuthService.refresh and logout, the      *)
(* JwtRefreshStrategy in front of them and TokenStoreService, the Redis    *)
(* blacklist they share (apps/gateway/src/modules/auth), for one account.  *)
(* The account itself is the user-service's: the gateway sees its version  *)
(* through an RPC.                                                         *)
(*                                                                         *)
(* One action is the code from one await to the next. Any token that was   *)
(* ever issued may be presented at any time, by several requests at once.  *)
(* A request with the wrong X-Device-Id is refused before the first await  *)
(* and is left out. Time goes in ticks: Date.now() is finer than the       *)
(* seconds of a JWT and of the EX of a Redis key.                          *)
(***************************************************************************)
EXTENDS Naturals

CONSTANTS
    Jtis,           \* token ids (randomUUID: no two tokens share one)
    Slots,          \* requests the gateway serves concurrently
    Can,            \* Can[s]: the endpoints slot s may serve
    External,       \* which outside events happen, a subset of Events
    TicksPerSecond, \* resolution of Date.now()
    Lifetime,       \* JWT_REFRESH_EXPIRES_IN, in seconds
    MaxNow, MaxTv,  \* bounds on the clock and on tokenVersion
    None            \* no token

Endpoints == {"open", "refresh", "logout"}
Events == {"outage", "abort", "bump", "delete"}

ASSUME CanAssumption == Can \in [Slots -> SUBSET Endpoints]
ASSUME ExternalAssumption == External \subseteq Events
ASSUME TimeAssumption == TicksPerSecond \in Nat \ {0} /\ Lifetime \in Nat \ {0}
ASSUME BoundsAssumption == MaxNow \in Nat /\ MaxTv \in Nat
ASSUME NoneAssumption == None \notin Jtis

VARIABLES
    now,        \* Date.now(), in ticks
    token,      \* the refresh tokens issued so far
    account,    \* the account: is it live, and its tokenVersion
    until,      \* until[j]: the tick at which Redis drops blacklist:rt:j
    redis,      \* does Redis answer?
    call,       \* the requests in flight
    rotated,    \* history: how many pairs were issued against each token
    loggedOut   \* history: tokens whose logout was answered while Redis answered

vars == <<now, token, account, until, redis, call, rotated, loggedOut>>

Token == [born : BOOLEAN, exp : Nat, tv : Nat]
NoToken == [born |-> FALSE, exp |-> 0, tv |-> 0]

\* used, outdated: was the presented token already rotated or logged out, or
\* of another version than the account or of a deleted one, when the request
\* came in?  late: had it expired by the time Redis answered?
Call ==
    [pc : {"idle", "check", "version", "blacklist", "sign", "refused", "open", "logout"},
     jti : Jtis \cup {None}, tv : Nat, used : BOOLEAN, outdated : BOOLEAN, late : BOOLEAN]

Idle == [pc |-> "idle", jti |-> None, tv |-> 0,
         used |-> FALSE, outdated |-> FALSE, late |-> FALSE]

TypeOK ==
    /\ now \in Nat
    /\ token \in [Jtis -> Token]
    /\ account \in [active : BOOLEAN, tv : Nat]
    /\ until \in [Jtis -> Nat]
    /\ redis \in {"up", "down"}
    /\ call \in [Slots -> Call]
    /\ rotated \in [Jtis -> Nat]
    /\ loggedOut \in SUBSET Jtis

Init ==
    /\ now = 0
    /\ token = [j \in Jtis |-> NoToken]
    /\ account = [active |-> TRUE, tv |-> 0]
    /\ until = [j \in Jtis |-> 0]
    /\ redis = "up"
    /\ call = [s \in Slots |-> Idle]
    /\ rotated = [j \in Jtis |-> 0]
    /\ loggedOut = {}

----------------------------------------------------------------------------
(* JWTs and the blacklist.                                                 *)

Second == now \div TicksPerSecond

\* jsonwebtoken compares exp with the current second.
Valid(j) == token[j].born /\ Second < token[j].exp

\* Slip: the version claim is left out of the refresh token.
Unversioned(tv) == [born |-> TRUE, exp |-> Second + Lifetime, tv |-> None]

\* issueTokenPair: the refresh token of the pair.
Refresh(tv) == [born |-> TRUE, exp |-> Second + Lifetime, tv |-> tv]

Blacklisted(j) == now < until[j]

\* Slips: the current second is rounded up, or a token in its last second is
\* not worth a key.
RevokedRoundedUp(j) ==
    LET second == (now + TicksPerSecond - 1) \div TicksPerSecond
    IN  IF token[j].exp > second
        THEN [until EXCEPT ![j] = now + (token[j].exp - second) * TicksPerSecond]
        ELSE until
RevokedUnlessLastSecond(j) ==
    IF token[j].exp > Second + 1
    THEN [until EXCEPT ![j] = now + (token[j].exp - Second) * TicksPerSecond]
    ELSE until

\* blacklistRefreshToken: SET .. EX ttl, unless the ttl is not positive.
Revoked(j) ==
    IF token[j].exp > Second
    THEN [until EXCEPT ![j] = now + (token[j].exp - Second) * TicksPerSecond]
    ELSE until

----------------------------------------------------------------------------
(* Requests.                                                               *)

Serve(s, e, c) == call[s].pc = "idle" /\ e \in Can[s] /\ call' = [call EXCEPT ![s] = c]
At(s, pc) == call[s].pc = pc
Goto(s, pc) == call' = [call EXCEPT ![s].pc = pc]
Finish(s) == call' = [call EXCEPT ![s] = Idle]

\* login, autoreg, upgrade and OAuth: the user-service replies with a
\* version, the gateway signs it when the reply arrives.
OpenReply(s) ==
    /\ account.active
    /\ Serve(s, "open", [Idle EXCEPT !.pc = "open", !.tv = account.tv])
    /\ UNCHANGED <<now, token, account, until, redis, rotated, loggedOut>>

OpenSign(s) ==
    /\ At(s, "open")
    /\ \E j \in Jtis : ~token[j].born /\ token' = [token EXCEPT ![j] = Refresh(call[s].tv)]
    /\ Finish(s)
    /\ UNCHANGED <<now, account, until, redis, rotated, loggedOut>>

Used(j) == rotated[j] > 0 \/ j \in loggedOut
Outdated(j) == ~account.active \/ token[j].tv # account.tv

\* JwtRefreshStrategy: passport-jwt checks the signature and the expiry...
RefreshVerify(s) ==
    /\ \E j \in Jtis :
        /\ token[j].born
        /\ Serve(s, "refresh",
                 [Idle EXCEPT !.pc = IF Valid(j) THEN "check" ELSE "refused",
                              !.jti = j, !.tv = token[j].tv,
                              !.used = Used(j), !.outdated = Outdated(j)])
    /\ UNCHANGED <<now, token, account, until, redis, rotated, loggedOut>>

\* ... and validate awaits the blacklist, which Redis looks up when the GET
\* reaches it. isBlacklisted throws a 503 if Redis does not answer, and the
\* guard turns every error of the strategy into 401 token_invalid.
RefreshCheck(s) ==
    /\ At(s, "check")
    /\ LET j == call[s].jti
       IN  call' = [call EXCEPT
                ![s].pc = IF redis = "up" /\ ~Blacklisted(j) THEN "version" ELSE "refused",
                ![s].late = ~Valid(j)]
    /\ UNCHANGED <<now, token, account, until, redis, rotated, loggedOut>>

\* Slips: the version claim is not compared, or version 0 taken for absent.
AnyVersion(c) == account.active
TruthyVersion(c) == account.active /\ c.tv # 0 /\ c.tv = account.tv

\* getUserTokenVersion finds the account and the claim equals its version.
CurrentVersion(c) == account.active /\ c.tv = account.tv

\* No account (404) and another version are both answered 401 token_invalid.
RefreshVersion(s) ==
    /\ At(s, "version")
    /\ Goto(s, IF CurrentVersion(call[s]) THEN "blacklist" ELSE "refused")
    /\ UNCHANGED <<now, token, account, until, redis, rotated, loggedOut>>

\* The 401 leaves the gateway.
RefreshRefused(s) ==
    /\ At(s, "refused") /\ Finish(s)
    /\ UNCHANGED <<now, token, account, until, redis, rotated, loggedOut>>

\* The old token is consumed before the new pair exists; without Redis the
\* request fails and the token is not consumed.
RefreshBlacklist(s) ==
    /\ At(s, "blacklist")
    /\ IF redis = "up" \/ Second >= token[call[s].jti].exp
       THEN until' = Revoked(call[s].jti) /\ Goto(s, "sign")
       ELSE Finish(s) /\ UNCHANGED until
    /\ UNCHANGED <<now, token, account, redis, rotated, loggedOut>>

RefreshSign(s) ==
    /\ At(s, "sign")
    /\ \E j \in Jtis : ~token[j].born /\ token' = [token EXCEPT ![j] = Refresh(call[s].tv)]
    /\ rotated' = [rotated EXCEPT ![call[s].jti] = @ + 1]
    /\ Finish(s)
    /\ UNCHANGED <<now, account, until, redis, loggedOut>>

\* logout verifies the token of the body; an invalid one is a success, too.
LogoutVerify(s) ==
    /\ \E j \in Jtis :
        Valid(j) /\ Serve(s, "logout", [Idle EXCEPT !.pc = "logout", !.jti = j])
    /\ UNCHANGED <<now, token, account, until, redis, rotated, loggedOut>>

\* Whatever Redis answers, the empty catch makes it a success.
LogoutBlacklist(s) ==
    /\ At(s, "logout")
    /\ until' = IF redis = "up" THEN Revoked(call[s].jti) ELSE until
    /\ loggedOut' = IF redis = "up" THEN loggedOut \cup {call[s].jti} ELSE loggedOut
    /\ Finish(s)
    /\ UNCHANGED <<now, token, account, redis, rotated>>

Request(s) ==
    \/ OpenReply(s) \/ OpenSign(s)
    \/ RefreshVerify(s) \/ RefreshCheck(s) \/ RefreshVersion(s) \/ RefreshRefused(s)
    \/ RefreshBlacklist(s) \/ RefreshSign(s)
    \/ LogoutVerify(s) \/ LogoutBlacklist(s)

----------------------------------------------------------------------------
(* Outside the gateway: time, Redis outages, requests that die (an RPC     *)
(* that times out, a pod that is killed), the user-service bumping the     *)
(* version or deleting the account.                                        *)

Tick ==
    /\ now < MaxNow
    /\ now' = now + 1
    /\ UNCHANGED <<token, account, until, redis, call, rotated, loggedOut>>

RedisFails ==
    /\ "outage" \in External /\ redis = "up"
    /\ redis' = "down"
    /\ UNCHANGED <<now, token, account, until, call, rotated, loggedOut>>

RedisRecovers ==
    /\ redis = "down"
    /\ redis' = "up"
    /\ UNCHANGED <<now, token, account, until, call, rotated, loggedOut>>

Abort(s) ==
    /\ "abort" \in External /\ call[s].pc # "idle"
    /\ Finish(s)
    /\ UNCHANGED <<now, token, account, until, redis, rotated, loggedOut>>

Bump ==
    /\ "bump" \in External /\ account.active /\ account.tv < MaxTv
    /\ account' = [account EXCEPT !.tv = @ + 1]
    /\ UNCHANGED <<now, token, until, redis, call, rotated, loggedOut>>

Delete ==
    /\ "delete" \in External /\ account.active
    /\ account' = [active |-> FALSE, tv |-> account.tv + 1]
    /\ UNCHANGED <<now, token, until, redis, call, rotated, loggedOut>>

Outside == Tick \/ RedisFails \/ RedisRecovers \/ Bump \/ Delete

Next == Outside \/ \E s \in Slots : Request(s) \/ Abort(s)

Spec == Init /\ [][Next]_vars

----------------------------------------------------------------------------
(* Properties.                                                             *)

\* refresh, TokenStoreService and the expiry of the JWT: a token that was
\* rotated is on the blacklist for as long as it would still verify, at every
\* sub-second offset of the clock.
UsedIsDead == \A j \in Jtis : rotated[j] > 0 /\ Valid(j) => Blacklisted(j)

\* refresh, logout and tokenVersion: a request that comes in after its token
\* was outdated by a bump or orphaned by a deletion gets no pair, and one
\* whose token was rotated or logged out gets none either, unless the token
\* expired between its verification and the answer of Redis: by then its key
\* may have expired, too (jwt-refresh.strategy.ts:43).
SpentNeverRotates ==
    \A s \in Slots : call[s].pc = "sign" =>
        ~call[s].outdated /\ (call[s].used => call[s].late)

\* AUTH-FLOW.md has a client wipe the token that is answered token_invalid.
Refuses(s) == call[s].pc # "refused" /\ call'[s].pc = "refused"
Useless(j) == ~Valid(j) \/ Blacklisted(j) \/ ~account.active \/ token[j].tv # account.tv

\* At the moment of the verdict the token can indeed not be rotated any more.
RefusedIsUnusable == [][\A s \in Slots : Refuses(s) => Useless(call'[s].jti)]_vars

\* JwtRefreshStrategy and refresh: the same, of verdicts reached while Redis
\* answers.
RefusedIsUnusableWhileUp ==
    [][\A s \in Slots : redis = "up" /\ Refuses(s) => Useless(call'[s].jti)]_vars

\* logout: a token whose logout Redis took is blacklisted until its expiry.
LogoutRevokes == \A j \in loggedOut : Valid(j) => Blacklisted(j)
=============================================================================
