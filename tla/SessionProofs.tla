---------------------------- MODULE SessionProofs ----------------------------
(* What the blacklist and the version claim guarantee, for any number of   *)
(* tokens and concurrent requests, any lifetime and resolution of the      *)
(* clock.                                                                  *)
EXTENDS Session, Integers, TLAPS

T == TicksPerSecond

\* The blacklist in terms that do not change as time goes by: token j has
\* expired, or its key lives at least as long as the token.
Consumed(j) == token[j].exp <= Second \/ token[j].exp * T <= until[j]

UsedIsConsumed == \A j \in Jtis : Used(j) => token[j].born /\ Consumed(j)

\* No token is ahead of its account.
VersionsBehind == \A j \in Jtis : token[j].tv <= account.tv

\* What a request in flight holds. A request whose token is still judged
\* knows of its use only what is still so; past the blacklist it carries a
\* used token only if it was late.
InCall(s) ==
    LET c == call[s]
    IN  /\ c.pc \in {"check", "version", "blacklist", "sign", "refused", "logout"}
             => c.jti \in Jtis /\ token[c.jti].born
        /\ c.tv <= account.tv
        /\ c.pc = "sign" => Consumed(c.jti)
        /\ c.pc \in {"check", "version"} =>
                /\ c.tv = token[c.jti].tv
                /\ c.outdated => ~account.active \/ c.tv < account.tv
        /\ c.pc = "check" /\ c.used => Used(c.jti)
        /\ c.pc \in {"version", "blacklist", "sign"} => (c.used => c.late)
        /\ c.pc \in {"blacklist", "sign"} => ~c.outdated

IInv ==
    /\ TypeOK /\ UsedIsConsumed /\ VersionsBehind
    /\ \A s \in Slots : InCall(s)

----------------------------------------------------------------------------
(* Arithmetic of the clock.                                                *)

\* A moment n lies in the second n \div t.
LEMMA SecondBounds ==
    ASSUME NEW n \in Nat, NEW t \in Nat \ {0}
    PROVE  /\ n \div t \in Nat
           /\ (n \div t) * t <= n /\ n < (n \div t + 1) * t
           /\ n \div t <= (n + 1) \div t
OBVIOUS

\* A later second starts later.
LEMMA TimesMonotone ==
    ASSUME NEW a \in Nat, NEW b \in Nat, NEW t \in Nat, a <= b
    PROVE  a * t \in Nat /\ b * t \in Nat /\ a * t <= b * t /\ (b - a) * t = b * t - a * t
OBVIOUS

\* blacklistRefreshToken: after the SET the token is consumed, whatever the
\* offset of the clock inside its second; and no other key moves.
LEMMA RevokedConsumes ==
    ASSUME TypeOK, NEW j \in Jtis, until' = Revoked(j), UNCHANGED <<token, now>>
    PROVE  /\ until' \in [Jtis -> Nat]
           /\ Consumed(j)'
           /\ \A k \in Jtis : Consumed(k) => Consumed(k)'
<1>1. now \in Nat /\ T \in Nat \ {0} /\ token[j].exp \in Nat /\ until \in [Jtis -> Nat]
  BY TimeAssumption DEF TypeOK, Token, T
<1>2. Second \in Nat /\ Second * T <= now /\ Second' = Second
  BY <1>1, SecondBounds DEF Second, T
<1>3. CASE token[j].exp <= Second
  BY <1>1, <1>2, <1>3 DEF Revoked, Consumed
<1>4. CASE token[j].exp > Second
  <2>1. /\ Second * T \in Nat /\ token[j].exp * T \in Nat
        /\ (token[j].exp - Second) * T = token[j].exp * T - Second * T
        /\ Second * T <= token[j].exp * T
    BY <1>1, <1>2, <1>4, TimesMonotone
  <2>2. until' = [until EXCEPT ![j] = now + (token[j].exp - Second) * T]
    BY <1>4 DEF Revoked, T
  <2>3. now + (token[j].exp - Second) * T \in Nat
    BY <1>1, <1>2, <2>1
  <2>4. until' \in [Jtis -> Nat] /\ until'[j] = now + (token[j].exp - Second) * T
    BY <1>1, <2>2, <2>3
  <2>5. Consumed(j)'
    BY <1>1, <1>2, <2>1, <2>4 DEF Consumed
  <2>6. \A k \in Jtis \ {j} : Consumed(k) => Consumed(k)'
    BY <1>1, <1>2, <2>2 DEF Consumed
  <2> QED
    BY <2>4, <2>5, <2>6
<1> QED
  BY <1>1, <1>2, <1>3, <1>4

\* A consumed token that has not expired is on the blacklist.
LEMMA ConsumedIsDead ==
    ASSUME TypeOK, NEW j \in Jtis, Consumed(j), Valid(j)
    PROVE  Blacklisted(j)
<1>1. now \in Nat /\ T \in Nat \ {0} /\ token[j].exp \in Nat /\ until[j] \in Nat
  BY TimeAssumption DEF TypeOK, Token, T
<1>2. Second \in Nat /\ now < (Second + 1) * T /\ Second + 1 \in Nat
  BY <1>1, SecondBounds DEF Second, T
<1>3. Second + 1 <= token[j].exp /\ token[j].exp * T <= until[j]
  BY <1>1, <1>2 DEF Valid, Consumed
<1>4. /\ (Second + 1) * T <= token[j].exp * T
      /\ (Second + 1) * T \in Nat /\ token[j].exp * T \in Nat
  BY <1>1, <1>2, <1>3, TimesMonotone
<1> QED
  BY <1>1, <1>2, <1>3, <1>4 DEF Blacklisted

----------------------------------------------------------------------------
(* The invariant.                                                          *)

\* There are no sessions at the start.
LEMMA InitInv == Init => IInv
BY NoneAssumption DEF Init, IInv, TypeOK, NoToken, Token, Call, Idle, UsedIsConsumed, Used,
    VersionsBehind, InCall

\* Time only expires tokens.
LEMMA TickKeeps ==
    ASSUME IInv, Tick
    PROVE  IInv'
<1>1. /\ now \in Nat /\ now' = now + 1
      /\ UNCHANGED <<token, account, until, redis, call, rotated, loggedOut>>
  BY DEF IInv, TypeOK, Tick
<1>2. Second \in Nat /\ Second' \in Nat /\ Second <= Second'
  BY <1>1, SecondBounds, TimeAssumption DEF Second
<1>3. \A j \in Jtis : token[j].exp \in Nat
  BY DEF IInv, TypeOK, Token
<1>4. \A j \in Jtis : Consumed(j) => Consumed(j)'
  BY <1>1, <1>2, <1>3 DEF Consumed
<1>5. UsedIsConsumed' /\ \A s \in Slots : InCall(s)'
  BY <1>1, <1>4 DEF IInv, UsedIsConsumed, Used, InCall
<1> QED
  BY <1>1, <1>5 DEF IInv, TypeOK, VersionsBehind

\* Redis goes and comes; versions go up and the account goes.
LEMMA OutsideKeeps ==
    ASSUME IInv, RedisFails \/ RedisRecovers \/ Bump \/ Delete
    PROVE  IInv'
<1>1. UNCHANGED <<now, token, until, call, rotated, loggedOut>> /\ redis' \in {"up", "down"}
  BY DEF RedisFails, RedisRecovers, Bump, Delete, IInv, TypeOK
<1>2. /\ account' \in [active : BOOLEAN, tv : Nat] /\ account.tv \in Nat
      /\ \/ account' = account
         \/ account'.tv = account.tv + 1
      /\ ~account.active => ~account'.active
  <2>1. account \in [active : BOOLEAN, tv : Nat]
    BY DEF IInv, TypeOK
  <2>2. CASE UNCHANGED account
    BY <2>1, <2>2
  <2>3. CASE Bump
    BY <2>1, <2>3 DEF Bump
  <2>4. CASE Delete
    BY <2>1, <2>4 DEF Delete
  <2> QED
    BY <2>2, <2>3, <2>4 DEF RedisFails, RedisRecovers
<1>3. \A j \in Jtis : token[j].tv \in Nat
  BY DEF IInv, TypeOK, Token
<1>4. \A s \in Slots : call[s].tv \in Nat
  BY DEF IInv, TypeOK, Call
<1>5. \A j \in Jtis : Consumed(j)' = Consumed(j)
  BY <1>1 DEF Consumed, Second
<1>6. UsedIsConsumed' /\ VersionsBehind'
  BY <1>1, <1>2, <1>3, <1>5 DEF IInv, UsedIsConsumed, Used, VersionsBehind
<1>8. \A j \in Jtis : Used(j) => Used(j)'
  BY <1>1 DEF Used
<1>7. \A s \in Slots : InCall(s)'
  BY <1>1, <1>2, <1>4, <1>5, <1>8 DEF IInv, InCall
<1> QED
  BY <1>1, <1>2, <1>6, <1>7 DEF IInv, TypeOK

\* A step that changes one request only.
LEMMA CallKeeps ==
    ASSUME IInv, NEW s \in Slots, NEW c \in Call, call' = [call EXCEPT ![s] = c],
           UNCHANGED <<now, token, account, until, redis, rotated, loggedOut>>,
           InCall(s)'
    PROVE  IInv'
<1>1. \A j \in Jtis : Consumed(j)' = Consumed(j)
  BY DEF Consumed, Second
<1>2. \A r \in Slots \ {s} : call'[r] = call[r]
  BY DEF IInv, TypeOK
<1>5. \A j \in Jtis : Used(j) => Used(j)'
  BY DEF Used
<1>3. \A r \in Slots \ {s} : InCall(r)'
  BY <1>1, <1>2, <1>5 DEF IInv, InCall
<1>4. call' \in [Slots -> Call]
  BY DEF IInv, TypeOK
<1> QED
  BY <1>1, <1>3, <1>4 DEF IInv, TypeOK, UsedIsConsumed, Used, VersionsBehind

\* An unborn token is signed at a version the account has reached, for the
\* request in slot s, which ends.
LEMMA SignKeeps ==
    ASSUME IInv, NEW s \in Slots, NEW j \in Jtis, ~token[j].born,
           token' = [token EXCEPT ![j] = Refresh(call[s].tv)],
           call' = [call EXCEPT ![s] = Idle],
           UNCHANGED <<now, account, until, redis, loggedOut>>,
           \/ rotated' = rotated
           \/ /\ call[s].pc = "sign"
              /\ rotated' = [rotated EXCEPT ![call[s].jti] = @ + 1]
    PROVE  IInv'
<1>1. /\ TypeOK /\ UsedIsConsumed /\ VersionsBehind
      /\ \A r \in Slots : InCall(r)
  BY DEF IInv
<1>2. /\ call[s].tv \in Nat /\ call[s].tv <= account.tv
      /\ call[s].pc = "sign" => call[s].jti \in Jtis /\ token[call[s].jti].born /\ Consumed(call[s].jti)
  BY <1>1 DEF TypeOK, Call, InCall
<1>3. Second \in Nat /\ Second' = Second
  BY <1>1, SecondBounds, TimeAssumption DEF TypeOK, Second
<1>4. Refresh(call[s].tv) \in Token
  BY <1>2, <1>3, TimeAssumption DEF Refresh, Token
<1>5. Idle \in Call
  BY DEF Idle, Call
<1>6. TypeOK'
  BY <1>1, <1>2, <1>4, <1>5 DEF TypeOK
<1>7. \A k \in Jtis \ {j} : token'[k] = token[k] /\ (Consumed(k)' = Consumed(k))
  BY <1>1, <1>3 DEF TypeOK, Consumed
<1>8. UsedIsConsumed'
  <2> SUFFICES ASSUME NEW k \in Jtis, Used(k)'
               PROVE  (token[k].born /\ Consumed(k))'
    BY DEF UsedIsConsumed
  <2>1. Used(k) \/ (call[s].pc = "sign" /\ k = call[s].jti)
    BY <1>1, <1>2 DEF Used, TypeOK
  <2>2. token[k].born /\ Consumed(k)
    BY <1>1, <1>2, <2>1 DEF UsedIsConsumed
  <2>3. k # j
    BY <2>2
  <2> QED
    BY <1>7, <2>2, <2>3
<1>9. VersionsBehind'
  <2>1. token'[j].tv = call[s].tv
    BY <1>1 DEF TypeOK, Refresh
  <2> QED
    BY <1>1, <1>2, <1>7, <2>1 DEF VersionsBehind
<1>10. InCall(s)'
  BY <1>1 DEF TypeOK, InCall, Idle
<1>12. \A k \in Jtis : Used(k) => Used(k)'
  BY <1>1, <1>2 DEF Used, TypeOK
<1>11. \A r \in Slots \ {s} : InCall(r)'
  <2> SUFFICES ASSUME NEW r \in Slots \ {s} PROVE InCall(r)'
    OBVIOUS
  <2>1. call'[r] = call[r] /\ InCall(r)
    BY <1>1 DEF TypeOK
  <2>2. call[r].pc \in {"check", "version", "blacklist", "sign", "refused", "logout"} => call[r].jti \in Jtis \ {j}
    BY <2>1 DEF InCall
  <2> QED
    BY <1>7, <1>12, <2>1, <2>2 DEF InCall
<1> QED
  BY <1>6, <1>8, <1>9, <1>10, <1>11 DEF IInv
\* The blacklist takes the token of the request in slot s.
LEMMA RevokeKeeps ==
    ASSUME IInv, NEW s \in Slots, NEW c \in Call, call' = [call EXCEPT ![s] = c],
           call[s].jti \in Jtis, token[call[s].jti].born, until' = Revoked(call[s].jti),
           UNCHANGED <<now, token, account, redis, rotated>>,
           loggedOut' \in {loggedOut, loggedOut \cup {call[s].jti}},
           InCall(s)'
    PROVE  IInv'
<1>1. TypeOK
  BY DEF IInv
<1>0. PICK j \in Jtis : j = call[s].jti
  OBVIOUS
<1>2. /\ until' \in [Jtis -> Nat] /\ Consumed(j)'
      /\ \A k \in Jtis : Consumed(k) => Consumed(k)'
  BY <1>0, <1>1, RevokedConsumes
<1>3. \A r \in Slots \ {s} : call'[r] = call[r]
  BY <1>1 DEF TypeOK
<1>7. \A k \in Jtis : Used(k) => Used(k)'
  BY DEF Used
<1>4. \A r \in Slots \ {s} : InCall(r)'
  BY <1>2, <1>3, <1>7 DEF IInv, InCall
<1>5. UsedIsConsumed'
  <2>1. \A k \in Jtis : Used(k)' => Used(k) \/ k = j
    BY <1>0 DEF Used
  <2> QED
    BY <1>0, <1>2, <2>1 DEF IInv, UsedIsConsumed
<1>6. TypeOK'
  BY <1>1, <1>2 DEF TypeOK
<1> QED
  BY <1>4, <1>5, <1>6 DEF IInv, VersionsBehind

\* Every step of a request keeps the invariant.
LEMMA RequestKeeps ==
    ASSUME IInv, NEW s \in Slots, Request(s) \/ Abort(s)
    PROVE  IInv'
<1>1. /\ TypeOK /\ UsedIsConsumed /\ VersionsBehind /\ InCall(s)
      /\ call \in [Slots -> Call] /\ call[s] \in Call
      /\ account.tv \in Nat /\ account.active \in BOOLEAN
      /\ \A j \in Jtis : token[j] \in Token
  BY DEF IInv, TypeOK
<1>2. Idle \in Call /\ Idle.tv = 0 /\ Idle.pc = "idle"
  BY DEF Idle, Call
<1>3. CASE OpenReply(s)
  <2> DEFINE c == [Idle EXCEPT !.pc = "open", !.tv = account.tv]
  <2>1. c \in Call /\ c.tv = account.tv /\ c.pc = "open"
    BY <1>1, <1>2 DEF Idle, Call
  <2>2. /\ call' = [call EXCEPT ![s] = c]
        /\ UNCHANGED <<now, token, account, until, redis, rotated, loggedOut>>
    BY <1>3 DEF OpenReply, Serve
  <2> HIDE DEF c
  <2>3. InCall(s)'
    BY <1>1, <2>1, <2>2 DEF InCall
  <2> QED
    BY <2>1, <2>2, <2>3, CallKeeps
<1>4. CASE OpenSign(s)
  <2>1. PICK j \in Jtis : ~token[j].born /\ token' = [token EXCEPT ![j] = Refresh(call[s].tv)]
    BY <1>4 DEF OpenSign
  <2> QED
    BY <1>4, <2>1, SignKeeps DEF OpenSign, Finish
<1>5. CASE RefreshVerify(s)
  <2>1. PICK j \in Jtis :
          /\ token[j].born
          /\ Serve(s, "refresh",
                   [Idle EXCEPT !.pc = IF Valid(j) THEN "check" ELSE "refused",
                                !.jti = j, !.tv = token[j].tv,
                                !.used = Used(j), !.outdated = Outdated(j)])
    BY <1>5 DEF RefreshVerify
  <2>2. PICK u \in BOOLEAN, o \in BOOLEAN : (u <=> Used(j)) /\ (o <=> Outdated(j))
    BY DEF Used, Outdated
  <2>3. PICK p \in {"check", "refused"} : p = IF Valid(j) THEN "check" ELSE "refused"
    OBVIOUS
  <2>4. u = Used(j) /\ o = Outdated(j)
    BY <2>2 DEF Used, Outdated
  <2> DEFINE c == [Idle EXCEPT !.pc = p, !.jti = j, !.tv = token[j].tv,
                               !.used = u, !.outdated = o]
  <2>8. token[j].tv \in Nat /\ token[j].tv <= account.tv
    BY <1>1 DEF Token, VersionsBehind
  <2>9. /\ c \in Call /\ c.pc \in {"check", "refused"} /\ c.jti = j /\ c.tv = token[j].tv
        /\ c.used = u /\ c.outdated = o
    BY <2>2, <2>3, <2>8 DEF Call, Idle
  <2>10. call' = [call EXCEPT ![s] = c]
    BY <2>1, <2>3, <2>4 DEF Serve
  <2> HIDE DEF c
  <2>5. c.outdated => ~account.active \/ c.tv < account.tv
    BY <1>1, <2>2, <2>8, <2>9 DEF Outdated
  <2>6. UNCHANGED <<now, token, account, until, redis, rotated, loggedOut>>
    BY <1>5 DEF RefreshVerify
  <2>7. InCall(s)'
    BY <1>1, <2>1, <2>2, <2>5, <2>6, <2>8, <2>9, <2>10 DEF InCall, Used
  <2> QED
    BY <2>6, <2>7, <2>9, <2>10, CallKeeps
<1>12. CASE RefreshCheck(s)
  <2>1. PICK j : j = call[s].jti
    OBVIOUS
  <2>2. /\ call[s].pc = "check" /\ j \in Jtis /\ token[j].born
        /\ UNCHANGED <<now, token, account, until, redis, rotated, loggedOut>>
    BY <1>1, <1>12, <2>1 DEF RefreshCheck, At, InCall
  <2> DEFINE c == [call[s] EXCEPT
                     !.pc = IF redis = "up" /\ ~Blacklisted(j) THEN "version" ELSE "refused",
                     !.late = ~Valid(j)]
  <2>3. /\ c \in Call /\ c.pc \in {"version", "refused"} /\ c.jti = j /\ c.tv = call[s].tv
        /\ c.used = call[s].used /\ c.outdated = call[s].outdated /\ c.late = ~Valid(j)
        /\ c.pc = "version" => ~Blacklisted(j)
    BY <1>1, <2>1 DEF Call, Valid
  <2>4. call' = [call EXCEPT ![s] = c]
    BY <1>1, <1>12, <2>1 DEF RefreshCheck
  <2> HIDE DEF c
  <2>5. c.pc = "version" => (c.used => c.late)
    <3>1. call[s].used => Consumed(j)
      BY <1>1, <2>1, <2>2 DEF InCall, UsedIsConsumed
    <3> QED
      BY <1>1, <2>2, <2>3, <3>1, ConsumedIsDead
  <2>6. /\ call[s].tv = token[j].tv /\ call[s].tv <= account.tv
        /\ call[s].outdated => ~account.active \/ call[s].tv < account.tv
    BY <1>1, <2>1, <2>2 DEF InCall
  <2>7. InCall(s)'
    BY <1>1, <2>2, <2>3, <2>4, <2>5, <2>6 DEF InCall
  <2> QED
    BY <2>2, <2>3, <2>4, <2>7, CallKeeps
<1>6. CASE RefreshVersion(s)
  <2> DEFINE c == [call[s] EXCEPT !.pc = IF CurrentVersion(call[s]) THEN "blacklist" ELSE "refused"]
  <2>1. /\ c \in Call /\ c.jti = call[s].jti /\ c.tv = call[s].tv
        /\ c.used = call[s].used /\ c.outdated = call[s].outdated /\ c.late = call[s].late
        /\ c.pc = IF CurrentVersion(call[s]) THEN "blacklist" ELSE "refused"
    BY <1>1 DEF Call
  <2>2. /\ call[s].pc = "version" /\ call' = [call EXCEPT ![s] = c]
        /\ UNCHANGED <<now, token, account, until, redis, rotated, loggedOut>>
    BY <1>1, <1>6 DEF RefreshVersion, At, Goto
  <2> HIDE DEF c
  <2>3. CurrentVersion(call[s]) => ~call[s].outdated
    BY <1>1, <2>2 DEF InCall, CurrentVersion
  <2>4. InCall(s)'
    BY <1>1, <2>1, <2>2, <2>3 DEF InCall
  <2> QED
    BY <2>1, <2>2, <2>4, CallKeeps
<1>7. CASE RefreshBlacklist(s)
  <2>1. /\ call[s].pc = "blacklist" /\ call[s].jti \in Jtis /\ token[call[s].jti].born
        /\ ~call[s].outdated /\ (call[s].used => call[s].late)
        /\ UNCHANGED <<now, token, account, redis, rotated, loggedOut>>
    BY <1>1, <1>7 DEF RefreshBlacklist, At, InCall
  <2>2. CASE until' = Revoked(call[s].jti) /\ Goto(s, "sign")
    <3> DEFINE c == [call[s] EXCEPT !.pc = "sign"]
    <3>1. /\ c \in Call /\ c.jti = call[s].jti /\ c.tv = call[s].tv
          /\ c.used = call[s].used /\ c.outdated = call[s].outdated /\ c.late = call[s].late
          /\ c.pc = "sign" /\ call' = [call EXCEPT ![s] = c]
      BY <1>1, <2>2 DEF Call, Goto
    <3> HIDE DEF c
    <3>2. PICK j \in Jtis : j = call[s].jti
      BY <2>1
    <3>3. Consumed(j)' /\ call'[s].jti = j
      BY <1>1, <2>1, <2>2, <3>1, <3>2, RevokedConsumes
    <3>4. InCall(s)'
      BY <1>1, <2>1, <3>1, <3>2, <3>3 DEF InCall
    <3> QED
      BY <2>1, <2>2, <3>1, <3>4, RevokeKeeps
  <2>3. CASE Finish(s) /\ UNCHANGED until
    <3>1. InCall(s)'
      BY <1>1, <1>2, <2>1, <2>3 DEF Finish, InCall
    <3> QED
      BY <1>2, <2>1, <2>3, <3>1, CallKeeps DEF Finish
  <2> QED
    BY <1>7, <2>2, <2>3 DEF RefreshBlacklist
<1>8. CASE RefreshSign(s)
  <2>1. PICK j \in Jtis : ~token[j].born /\ token' = [token EXCEPT ![j] = Refresh(call[s].tv)]
    BY <1>8 DEF RefreshSign
  <2> QED
    BY <1>8, <2>1, SignKeeps DEF RefreshSign, Finish, At
<1>9. CASE LogoutVerify(s)
  <2>1. PICK j \in Jtis : Valid(j) /\ Serve(s, "logout", [Idle EXCEPT !.pc = "logout", !.jti = j])
    BY <1>9 DEF LogoutVerify
  <2>2. PICK c : c = [Idle EXCEPT !.pc = "logout", !.jti = j] /\ call' = [call EXCEPT ![s] = c]
    BY <2>1 DEF Serve
  <2>3. c \in Call /\ c.pc = "logout" /\ c.jti = j /\ c.tv = 0
    BY <2>2 DEF Idle, Call
  <2>4. UNCHANGED <<now, token, account, until, redis, rotated, loggedOut>>
    BY <1>9 DEF LogoutVerify
  <2>5. InCall(s)'
    BY <1>1, <2>1, <2>2, <2>3, <2>4 DEF InCall, Valid
  <2> QED
    BY <2>2, <2>3, <2>4, <2>5, CallKeeps
<1>10. CASE LogoutBlacklist(s)
  <2>1. /\ call[s].pc = "logout" /\ call[s].jti \in Jtis /\ token[call[s].jti].born
        /\ call' = [call EXCEPT ![s] = Idle]
        /\ UNCHANGED <<now, token, account, redis, rotated>>
    BY <1>1, <1>10 DEF LogoutBlacklist, At, Finish, InCall
  <2>2. InCall(s)'
    BY <1>1, <1>2, <2>1 DEF InCall
  <2>3. CASE redis = "up"
    BY <1>2, <1>10, <2>1, <2>2, <2>3, RevokeKeeps DEF LogoutBlacklist
  <2>4. CASE redis # "up"
    BY <1>2, <1>10, <2>1, <2>2, <2>4, CallKeeps DEF LogoutBlacklist
  <2> QED
    BY <2>3, <2>4
<1>11. CASE RefreshRefused(s) \/ Abort(s)
  <2>1. /\ call' = [call EXCEPT ![s] = Idle]
        /\ UNCHANGED <<now, token, account, until, redis, rotated, loggedOut>>
    BY <1>11 DEF RefreshRefused, Abort, Finish
  <2>2. InCall(s)'
    BY <1>1, <1>2, <2>1 DEF InCall
  <2> QED
    BY <1>2, <2>1, <2>2, CallKeeps
<1> QED
  BY <1>3, <1>4, <1>5, <1>6, <1>7, <1>8, <1>9, <1>10, <1>11, <1>12 DEF Request

\* Steps that change nothing.
LEMMA StutterKeeps ==
    ASSUME IInv, UNCHANGED vars
    PROVE  IInv'
BY DEF vars, IInv, TypeOK, UsedIsConsumed, Used, Consumed, Second, VersionsBehind, InCall

\* The invariant holds in every state.
LEMMA Invariance == Spec => []IInv
<1>1. IInv /\ [Next]_vars => IInv'
  BY TickKeeps, OutsideKeeps, RequestKeeps, StutterKeeps DEF Next, Outside
<1> QED
  BY InitInv, <1>1, PTL DEF Spec

----------------------------------------------------------------------------

\* Type correctness.
THEOREM TypeCorrect == Spec => []TypeOK
<1>1. IInv => TypeOK
  BY DEF IInv
<1> QED
  BY Invariance, <1>1, PTL

\* TokenStoreService and the JWT: a rotated token is on the blacklist for as
\* long as it verifies, for every lifetime and every resolution of the clock.
THEOREM RotatedIsDead == Spec => []UsedIsDead
<1>1. IInv => UsedIsDead
  BY ConsumedIsDead DEF IInv, UsedIsConsumed, Used, UsedIsDead
<1> QED
  BY Invariance, <1>1, PTL

\* logout: a token whose logout Redis took stays dead.
THEOREM LogoutHolds == Spec => []LogoutRevokes
<1>1. IInv => LogoutRevokes
  BY ConsumedIsDead DEF IInv, TypeOK, UsedIsConsumed, Used, LogoutRevokes
<1> QED
  BY Invariance, <1>1, PTL

\* refresh: no request that comes in with an outdated token gets a pair, and
\* none with a used one unless the token expired while the request waited for
\* Redis: for any number of requests, outages, bumps and aborts around it,
\* every lifetime and every resolution of the clock.
THEOREM SpentIsRefused == Spec => []SpentNeverRotates
<1>1. IInv => SpentNeverRotates
  BY DEF IInv, InCall, SpentNeverRotates
<1> QED
  BY Invariance, <1>1, PTL

----------------------------------------------------------------------------
(* Refusals.                                                               *)

\* While Redis is up, a token is refused because it is of no use.
LEMMA RefusalIsTrue ==
    ASSUME IInv, NEW s \in Slots, redis = "up", [Next]_vars, Refuses(s)
    PROVE  Useless(call'[s].jti)
<1>1. /\ TypeOK /\ InCall(s) /\ call \in [Slots -> Call]
      /\ call[s].pc # "refused" /\ call'[s].pc = "refused"
  BY DEF IInv, TypeOK, Refuses
<1>2. Idle.pc = "idle"
  BY DEF Idle
<1>3. ~UNCHANGED call
  BY <1>1
<1>4. PICK r \in Slots : Request(r) \/ Abort(r)
  BY <1>3 DEF Next, Outside, Tick, RedisFails, RedisRecovers, Bump, Delete, vars
<1>5. r = s
  BY <1>1, <1>4 DEF Request, OpenReply, OpenSign, RefreshVerify, RefreshCheck, RefreshVersion, RefreshRefused,
      RefreshBlacklist, RefreshSign, LogoutVerify, LogoutBlacklist, Abort, Serve, Goto, Finish
<1>6. RefreshVerify(s) \/ RefreshCheck(s) \/ RefreshVersion(s)
  <2>1. ~OpenReply(s) /\ ~LogoutVerify(s)
    <3>1. \A c : call' = [call EXCEPT ![s] = c] => c.pc = "refused"
      BY <1>1
    <3>2. [Idle EXCEPT !.pc = "open", !.tv = account.tv].pc = "open"
      BY DEF Idle
    <3>3. \A j \in Jtis : [Idle EXCEPT !.pc = "logout", !.jti = j].pc = "logout"
      BY DEF Idle
    <3> QED
      BY <3>1, <3>2, <3>3 DEF OpenReply, LogoutVerify, Serve
  <2>2. ~Goto(s, "sign")
    <3>1. call[s] \in Call
      BY <1>1
    <3> QED
      BY <1>1, <3>1 DEF Goto, Call
  <2>3. ~Finish(s)
    BY <1>1, <1>2 DEF Finish
  <2> QED
    BY <1>4, <1>5, <2>1, <2>2, <2>3 DEF Request, OpenSign, RefreshRefused,
        RefreshBlacklist, RefreshSign, LogoutBlacklist, Abort
<1>9. CASE RefreshVerify(s)
  BY <1>1, <1>9 DEF RefreshVerify, Serve, Useless, Idle
<1>7. CASE RefreshCheck(s)
  <2>1. call[s].pc = "check" /\ call[s] \in Call
    BY <1>1, <1>7 DEF RefreshCheck, At
  <2> QED
    BY <1>1, <1>7, <2>1 DEF RefreshCheck, Useless, Call
<1>8. CASE RefreshVersion(s)
  <2>1. call[s].pc = "version" /\ call'[s].jti = call[s].jti /\ ~CurrentVersion(call[s])
    BY <1>1, <1>8 DEF RefreshVersion, At, Goto
  <2>2. call[s].tv = token[call[s].jti].tv
    BY <1>1, <2>1 DEF InCall
  <2> QED
    BY <2>1, <2>2 DEF CurrentVersion, Useless
<1> QED
  BY <1>6, <1>7, <1>8, <1>9

\* JwtRefreshStrategy, refresh: while Redis answers, no client is told
\* token_invalid of a token that could still be rotated at that moment.
THEOREM RefusalsAreTrue == Spec => RefusedIsUnusableWhileUp
<1>1. IInv /\ [Next]_vars
        => [\A s \in Slots : redis = "up" /\ Refuses(s) => Useless(call'[s].jti)]_vars
  BY RefusalIsTrue
<1> QED
  BY Invariance, <1>1, PTL DEF Spec, RefusedIsUnusableWhileUp
=============================================================================
