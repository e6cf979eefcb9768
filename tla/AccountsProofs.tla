--------------------------- MODULE AccountsProofs ---------------------------
(* Type correctness of Accounts and the promise that no deletion loses its *)
(* event, proved for every value of the constants.                         *)
EXTENDS Accounts, TLAPS

----------------------------------------------------------------------------
(* What the building blocks of the handlers leave well typed.              *)

\* The initial documents and the idle call have their types.
LEMMA DefaultsTyped ==
    /\ Unborn \in User /\ NewUser \in User /\ [Unborn EXCEPT !.row = "gone"] \in User
    /\ NoDevice \in Device /\ [NoDevice EXCEPT !.row = "gone"] \in Device
    /\ Idle \in Call
<1>1. NewUser \in User /\ Unborn \in User
  BY DEF NewUser, Unborn, User
<1>2. [Unborn EXCEPT !.row = "gone"] \in User
  BY <1>1 DEF User
<1>3. NoDevice \in Device /\ [NoDevice EXCEPT !.row = "gone"] \in Device
  BY DEF NoDevice, Device
<1>4. Idle \in Call
  BY <1>1 DEF Idle, Call, Waits
<1> QED
  BY <1>1, <1>2, <1>3, <1>4

\* A call keeps its type when its program counter, its user or the document
\* it loaded is replaced.
LEMMA CallWith ==
    ASSUME NEW c \in Call, NEW pc \in Waits, NEW u \in Users \cup {None}, NEW doc \in User
    PROVE  /\ [c EXCEPT !.pc = pc, !.uid = u] \in Call
           /\ [c EXCEPT !.pc = pc, !.loaded = doc] \in Call
           /\ [c EXCEPT !.pc = pc, !.uid = u, !.loaded = doc] \in Call
BY DEF Call

\* A call that carries a token is well-typed.
LEMMA TokenCallTyped ==
    ASSUME NEW u \in Users, NEW doc \in User, NEW t \in ResetTokens
    PROVE  [Idle EXCEPT !.pc = "store", !.uid = u, !.token = t, !.loaded = doc] \in Call
<1>1. ASSUME NEW c \in Call, NEW pc \in Waits
      PROVE  [c EXCEPT !.pc = pc, !.uid = u, !.token = t, !.loaded = doc] \in Call
  BY DEF Call
<1> QED
  BY <1>1, DefaultsTyped DEF Waits

\* And one that carries a password with it.
LEMMA ResetCallTyped ==
    ASSUME NEW u \in Users, NEW doc \in User, NEW t \in ResetTokens, NEW p \in Passwords
    PROVE  [Idle EXCEPT !.pc = "apply", !.uid = u, !.token = t, !.password = p, !.loaded = doc] \in Call
<1>1. ASSUME NEW c \in Call, NEW pc \in Waits
      PROVE  [c EXCEPT !.pc = pc, !.uid = u, !.token = t, !.password = p, !.loaded = doc] \in Call
  BY DEF Call
<1> QED
  BY <1>1, DefaultsTyped DEF Waits

\* An account made of an identity is well-typed.
LEMMA IdentityTyped ==
    ASSUME NEW d \in User, NEW e \in Emails \cup {None}, NEW i \in Identities
    PROVE  [d EXCEPT !.accountType = "user", !.email = e, !.oauthLinks = {i}] \in User
BY DEF User

\* Handlers leave the list of the purge task and the expiry of links alone.
LEMMA HandlerFrame ==
    ASSUME NEW s \in Slots, Handler(s)
    PROVE  UNCHANGED <<purge, lapsed>>
<1>1. CASE \/ AutoregFind(s) \/ AutoregLinked(s) \/ AutoregTouch(s)
           \/ AutoregDropStale(s) \/ AutoregUserFirst(s) \/ AutoregDeviceFirst(s)
           \/ AutoregInsertUser(s) \/ AutoregInsertDevice(s)
  BY <1>1 DEF AutoregFind, AutoregLinked, AutoregTouch, AutoregDropStale, AutoregUserFirst,
              AutoregDeviceFirst, AutoregInsertUser, AutoregInsertDevice
<1>2. CASE LoginFind(s) \/ LoginVerify(s)
  BY <1>2 DEF LoginFind, LoginVerify
<1>3. CASE UpgradeFind(s) \/ UpgradeClash(s) \/ UpgradeFlush(s) \/ UpgradeDetach(s)
  BY <1>3 DEF UpgradeFind, UpgradeClash, UpgradeFlush, UpgradeDetach
<1>4. CASE OAuthByProvider(s) \/ OAuthByEmail(s) \/ OAuthLink(s) \/ OAuthCreate(s)
  BY <1>4 DEF OAuthByProvider, OAuthByEmail, OAuthLink, OAuthCreate
<1>5. CASE ForgotFind(s) \/ ForgotStore(s) \/ ForgotMail(s) \/ ResetFind(s) \/ ResetApply(s)
  BY <1>5 DEF ForgotFind, ForgotStore, ForgotMail, ResetFind, ResetApply
<1>6. CASE DeleteFind(s) \/ DeleteStage(s) \/ DeleteInsertEvent(s) \/ DeleteScrub(s)
  BY <1>6 DEF DeleteFind, DeleteStage, DeleteInsertEvent, DeleteScrub
<1> QED
  BY <1>1, <1>2, <1>3, <1>4, <1>5, <1>6 DEF Handler

\* The calls that handlers start with.
LEMMA AutoregCall ==
    ASSUME NEW f \in Fingerprints, NEW d \in Devices, NEW u \in Users \cup {None}
    PROVE  [Idle EXCEPT !.pc = "linked", !.fingerprint = f, !.did = d, !.uid = u] \in Call
BY DefaultsTyped DEF Call, Waits

\* A sign-in carries what the provider attested.
LEMMA OAuthCall ==
    ASSUME NEW i \in Identities, NEW e \in Emails \cup {None}, NEW v \in BOOLEAN,
           NEW pc \in {"byEmail", "create"}
    PROVE  [[Idle EXCEPT !.identity = i, !.email = e, !.verified = v] EXCEPT !.pc = pc] \in Call
<1>1. [Idle EXCEPT !.identity = i, !.email = e, !.verified = v] \in Call
  BY DefaultsTyped DEF Call
<1>2. ASSUME NEW c \in Call PROVE [c EXCEPT !.pc = pc] \in Call
  BY DEF Call, Waits
<1> QED
  BY <1>1, <1>2

\* Starting a handler, moving it to another await and ending it.
LEMMA ServeTyped ==
    ASSUME call \in [Slots -> Call], NEW s \in Slots, NEW p, NEW c \in Call, Serve(s, p, c)
    PROVE  call' \in [Slots -> Call]
BY DEF Serve

\* A handler moved to another await keeps its call well typed.
LEMMA GotoTyped ==
    ASSUME call \in [Slots -> Call], NEW s \in Slots, NEW pc \in Waits, Goto(s, pc)
    PROVE  call' \in [Slots -> Call]
<1>1. call[s] \in Call
  OBVIOUS
<1>2. [call[s] EXCEPT !.pc = pc] \in Call
  BY <1>1 DEF Call
<1> QED
  BY <1>2 DEF Goto

\* A call that ends leaves the idle call.
LEMMA FinishTyped ==
    ASSUME call \in [Slots -> Call], NEW s \in Slots, Finish(s)
    PROVE  call' \in [Slots -> Call]
BY DefaultsTyped DEF Finish

\* A reply also records the session it hands out.
LEMMA ReplyTyped ==
    ASSUME call \in [Slots -> Call], grants \subseteq Grant, NEW s \in Slots,
           NEW via \in {"device", "password", "oauth", "upgrade"},
           NEW u \in Users \cup {None}, NEW tv \in Nat,
           NEW cred \in Fingerprints \cup Passwords \cup Identities \cup {None},
           Reply(s, via, u, tv, cred)
    PROVE  call' \in [Slots -> Call] /\ grants' \subseteq Grant
<1>1. [via |-> via, uid |-> u, tv |-> tv, cred |-> cred] \in Grant
  BY DEF Grant
<1> QED
  BY <1>1, FinishTyped DEF Reply

\* Writes to the two collections.
LEMMA UpdateTyped ==
    ASSUME users \in [Users -> User], NEW u, NEW doc, Stored(u) => doc \in User,
           Update(u, doc)
    PROVE  users' \in [Users -> User]
BY DEF Update

\* A query delete frees device records.
LEMMA DropTyped ==
    ASSUME devices \in [Devices -> Device], NEW D, DropDevices(D)
    PROVE  devices' \in [Devices -> Device]
BY DefaultsTyped DEF DropDevices

----------------------------------------------------------------------------
(* What the calls in flight carry from one await to the next: the steps of *)
(* findOrCreateOAuthUser have an identity at hand, forgotPassword a token, *)
(* an autoreg that wrote its device first the account to insert, and       *)
(* deleteUser reaches its second write only after the first one is in the  *)
(* outbox.                                                                 *)

Carrying == {"byEmail", "link", "create", "store", "mail", "insertUser", "scrub"}

InFlight ==
    \A s \in Slots :
        /\ call[s].pc \in {"byEmail", "link", "create"} => call[s].identity \in Identities
        /\ call[s].pc \in {"store", "mail"} => call[s].token \in ResetTokens
        /\ call[s].pc = "insertUser" => call[s].uid \in Users
        /\ call[s].pc = "scrub" /\ call[s].uid \in Users => events[call[s].uid] > 0

\* No call is in flight at the start.
LEMMA InFlightInit == Init => InFlight
BY DEF Init, InFlight, Idle

\* Every step keeps what the calls in flight know of their account.
LEMMA InFlightStep == TypeOK /\ InFlight /\ [Next]_vars => InFlight'
<1> SUFFICES ASSUME TypeOK, InFlight, [Next]_vars
             PROVE  InFlight'
  OBVIOUS
<1> USE DEF TypeOK
<1>1. CASE UNCHANGED <<call, events>>
  BY <1>1 DEF InFlight
<1>2. ASSUME NEW s \in Slots, UNCHANGED events, call' = [call EXCEPT ![s] = call'[s]],
             call'[s].pc \notin Carrying
      PROVE  InFlight'
  BY <1>2 DEF InFlight, Carrying
<1>3. ASSUME NEW s \in Slots, Finish(s), UNCHANGED events PROVE InFlight'
  BY <1>2, <1>3 DEF Finish, Idle, Carrying
<1>4. ASSUME NEW s \in Slots, NEW p, NEW c, Serve(s, p, c), c.pc \notin Carrying,
             UNCHANGED events
      PROVE  InFlight'
  BY <1>2, <1>4 DEF Serve
<1>5. ASSUME NEW s \in Slots, NEW pc, Goto(s, pc), pc \notin Carrying, UNCHANGED events
      PROVE  InFlight'
  <2>1. [call[s] EXCEPT !.pc = pc].pc = pc
    BY DEF Call
  <2> QED
    BY <1>2, <1>5, <2>1 DEF Goto
<1>6. ASSUME NEW s \in Slots, Handler(s) PROVE InFlight'
  <2> USE DEF At, Reply, Carrying
  <2>1. CASE AutoregFind(s)
    <3>1. /\ \A f : [Idle EXCEPT !.pc = "insert", !.fingerprint = f].pc = "insert"
          /\ \A f, d, u : [Idle EXCEPT !.pc = "linked", !.fingerprint = f,
                                       !.did = d, !.uid = u].pc = "linked"
      BY DEF Idle
    <3> QED
      BY <2>1, <1>4, <3>1 DEF AutoregFind
  <2>2. CASE AutoregLinked(s)
    <3>1. [call[s] EXCEPT !.pc = "touch", !.loaded = users[call[s].uid]].pc = "touch"
      BY DEF Call
    <3> QED
      BY <2>2, <1>2, <1>5, <3>1 DEF AutoregLinked
  <2>3. CASE AutoregTouch(s)
    BY <2>3, <1>3 DEF AutoregTouch
  <2>4. CASE AutoregDropStale(s)
    BY <2>4, <1>5 DEF AutoregDropStale
  <2>5. CASE AutoregUserFirst(s)
    <3>1. \A u : [call[s] EXCEPT !.pc = "insertDevice", !.uid = u].pc = "insertDevice"
      BY DEF Call
    <3>2. PICK c : c.pc = "insertDevice" /\ call' = [call EXCEPT ![s] = c] /\ UNCHANGED events
      BY <2>5, <3>1 DEF AutoregUserFirst
    <3> QED
      BY <1>2, <3>2
  <2>25. CASE AutoregDeviceFirst(s)
    <3>1. CASE FingerprintTaken(call[s].fingerprint)
      BY <1>3, <2>25, <3>1 DEF AutoregDeviceFirst
    <3>2. CASE ~FingerprintTaken(call[s].fingerprint)
      <4>1. PICK u \in Users : call' = [call EXCEPT ![s] =
                    [call[s] EXCEPT !.pc = "insertUser", !.uid = u]]
        BY <2>25, <3>2 DEF AutoregDeviceFirst
      <4>2. PICK c : c = [call[s] EXCEPT !.pc = "insertUser", !.uid = u]
        OBVIOUS
      <4>3. c.pc = "insertUser" /\ c.uid = u
        BY <4>2 DEF Call
      <4> QED
        BY <2>25, <4>1, <4>2, <4>3 DEF AutoregDeviceFirst, InFlight
    <3> QED
      BY <3>1, <3>2
  <2>6. CASE AutoregInsertUser(s) \/ AutoregInsertDevice(s)
    BY <2>6, <1>3 DEF AutoregInsertUser, AutoregInsertDevice
  <2>7. CASE LoginFind(s)
    <3>1. \A u, p, doc : [Idle EXCEPT !.pc = "verify", !.uid = u, !.password = p,
                                        !.loaded = doc].pc = "verify"
      BY DEF Idle
    <3> QED
      BY <2>7, <1>4, <3>1 DEF LoginFind
  <2>8. CASE LoginVerify(s)
    BY <2>8, <1>3 DEF LoginVerify
  <2>9. CASE UpgradeFind(s)
    <3>1. \A u, doc :
            LET c == [Idle EXCEPT !.pc = "clash", !.uid = u, !.loaded = doc]
            IN  /\ \A e, p : [c EXCEPT !.email = e, !.password = p].pc = "clash"
                /\ \A i, e : [c EXCEPT !.identity = i, !.email = e].pc = "clash"
      BY DEF Idle
    <3> QED
      BY <2>9, <1>4, <3>1 DEF UpgradeFind
  <2>10. CASE UpgradeClash(s)
    BY <2>10, <1>3, <1>5 DEF UpgradeClash
  <2>11. CASE UpgradeFlush(s)
    BY <2>11, <1>3, <1>5 DEF UpgradeFlush
  <2>12. CASE UpgradeDetach(s)
    BY <2>12, <1>3 DEF UpgradeDetach
  <2>13. CASE OAuthByProvider(s)
    <3>2. CASE \E i \in Identities, e \in Emails \cup {None}, v \in BOOLEAN,
                    pc \in {"byEmail", "create"} :
                  call' = [call EXCEPT ![s] =
                    [[Idle EXCEPT !.identity = i, !.email = e, !.verified = v] EXCEPT !.pc = pc]]
      BY <2>13, <3>2 DEF OAuthByProvider, InFlight, Idle
    <3>3. CASE \E i \in Identities, e \in Emails \cup {None}, v \in BOOLEAN :
                  Serve(s, "oauth", [[Idle EXCEPT !.identity = i, !.email = e, !.verified = v]
                                       EXCEPT !.pc = IF v THEN "byEmail" ELSE "create"])
      <4>1. PICK i \in Identities, e \in Emails \cup {None}, v \in BOOLEAN :
                  Serve(s, "oauth", [[Idle EXCEPT !.identity = i, !.email = e, !.verified = v]
                                       EXCEPT !.pc = IF v THEN "byEmail" ELSE "create"])
        BY <3>3
      <4> DEFINE c == [Idle EXCEPT !.identity = i, !.email = e, !.verified = v]
      <4>2. CASE v
        BY <4>1, <4>2, <3>2 DEF Serve
      <4>3. CASE ~v
        BY <4>1, <4>3, <3>2 DEF Serve
      <4> QED
        BY <4>2, <4>3
    <3>4. CASE \E u \in Users, i \in Identities : Reply(s, "oauth", u, users[u].tokenVersion, i)
      BY <2>13, <1>3, <3>4 DEF OAuthByProvider
    <3> QED
      BY <2>13, <3>3, <3>4 DEF OAuthByProvider
  <2>14. CASE OAuthByEmail(s)
    <3>0. call[s].identity \in Identities
      BY <2>14 DEF OAuthByEmail, InFlight
    <3>1. /\ \A u, doc : LET c == [call[s] EXCEPT !.pc = "link", !.uid = u, !.loaded = doc]
                         IN  c.pc = "link" /\ c.identity = call[s].identity
          /\ LET c == [call[s] EXCEPT !.pc = "create"]
             IN  c.pc = "create" /\ c.identity = call[s].identity
      BY DEF Call
    <3>2. CASE Goto(s, "create")
      BY <2>14, <3>0, <3>1, <3>2 DEF OAuthByEmail, Goto, InFlight
    <3>3. CASE ~Goto(s, "create")
      <4>1. PICK u \in Users : call' = [call EXCEPT ![s] =
                    [call[s] EXCEPT !.pc = "link", !.uid = u, !.loaded = users[u]]]
        BY <2>14, <3>3 DEF OAuthByEmail
      <4> DEFINE c == [call[s] EXCEPT !.pc = "link", !.uid = u, !.loaded = users[u]]
      <4>2. c.pc = "link" /\ c.identity \in Identities
        BY <3>0, <3>1
      <4>3. call' = [call EXCEPT ![s] = c] /\ UNCHANGED events
        BY <2>14, <4>1 DEF OAuthByEmail
      <4> HIDE DEF c
      <4> QED
        BY <4>2, <4>3 DEF InFlight
    <3> QED
      BY <3>2, <3>3
  <2>15. CASE OAuthLink(s)
    BY <2>15, <1>3 DEF OAuthLink
  <2>16. CASE OAuthCreate(s)
    BY <2>16, <1>3 DEF OAuthCreate
  <2>17. CASE ForgotFind(s)
    <3>1. PICK u \in Users, t \in ResetTokens :
                  call' = [call EXCEPT ![s] = [Idle EXCEPT !.pc = "store", !.uid = u, !.token = t,
                                                           !.loaded = users[u]]]
      BY <2>17 DEF ForgotFind, Serve
    <3>2. LET c == [Idle EXCEPT !.pc = "store", !.uid = u, !.token = t, !.loaded = users[u]]
          IN  c.pc = "store" /\ c.token = t
      BY DEF Idle
    <3> QED
      BY <2>17, <3>1, <3>2 DEF ForgotFind, InFlight
  <2>18. CASE ForgotStore(s)
    <3>1. LET c == [call[s] EXCEPT !.pc = "mail"] IN c.pc = "mail" /\ c.token = call[s].token
      BY DEF Call
    <3> QED
      BY <2>18, <3>1 DEF ForgotStore, Goto, InFlight
  <2>26. CASE ForgotMail(s)
    BY <2>26, <1>3 DEF ForgotMail
  <2>19. CASE ResetFind(s)
    <3>1. \A u, t, p, doc : [Idle EXCEPT !.pc = "apply", !.uid = u, !.token = t,
                                           !.password = p, !.loaded = doc].pc = "apply"
      BY DEF Idle
    <3> QED
      BY <2>19, <1>4, <3>1 DEF ResetFind
  <2>20. CASE ResetApply(s)
    BY <2>20, <1>3 DEF ResetApply
  <2>21. CASE DeleteFind(s)
    <3>1. \A u, doc : [Idle EXCEPT !.pc = "stage", !.uid = u, !.loaded = doc].pc = "stage"
      BY DEF Idle
    <3> QED
      BY <2>21, <1>4, <3>1 DEF DeleteFind
  <2>22. CASE DeleteStage(s)
    <3>1. LET c == [call[s] EXCEPT !.pc = "scrub"] IN c.pc = "scrub" /\ c.uid = call[s].uid
      BY DEF Call
    <3>2. CASE AlreadyStaged(call[s].uid)
      BY <2>22, <3>1, <3>2 DEF DeleteStage, AlreadyStaged, Goto, InFlight
    <3>3. CASE ~AlreadyStaged(call[s].uid)
      BY <2>22, <1>5, <3>3 DEF DeleteStage
    <3> QED
      BY <3>2, <3>3
  <2>23. CASE DeleteInsertEvent(s)
    <3>1. LET c == [call[s] EXCEPT !.pc = "scrub"] IN c.pc = "scrub" /\ c.uid = call[s].uid
      BY DEF Call
    <3>2. CASE Finish(s) /\ UNCHANGED events
      BY <1>3, <3>2
    <3>3. CASE /\ events' = [events EXCEPT ![call[s].uid] = @ + 1]
               /\ Goto(s, "scrub")
      BY <3>1, <3>3 DEF Goto, InFlight
    <3> QED
      BY <2>23, <3>2, <3>3 DEF DeleteInsertEvent
  <2>24. CASE DeleteScrub(s)
    BY <2>24, <1>3 DEF DeleteScrub
  <2> QED
    BY <1>6, <2>1, <2>2, <2>3, <2>4, <2>5, <2>6, <2>7, <2>8, <2>9, <2>10, <2>11, <2>12,
       <2>13, <2>14, <2>15, <2>16, <2>17, <2>18, <2>19, <2>20, <2>21, <2>22, <2>23, <2>24,
       <2>25, <2>26 DEF Handler
<1>7. ASSUME NEW s \in Slots, Abort(s) PROVE InFlight'
  BY <1>3, <1>7 DEF Abort
<1>8. CASE PurgeTask
  BY <1>8, <1>1 DEF PurgeTask, PurgeList, PurgeDevices, PurgeUser
<1>9. CASE Environment
  BY <1>9, <1>1, <1>7 DEF Environment, PurgeSkip, Lapse, Block, Age, Revive
<1> QED
  BY <1>1, <1>6, <1>8, <1>9 DEF Next, vars

----------------------------------------------------------------------------
(* Type correctness, one lemma for each handler.                           *)

\* createAutoregUser keeps the types.
LEMMA AutoregTyped ==
    ASSUME TypeOK, NEW s \in Slots,
           \/ AutoregFind(s) \/ AutoregLinked(s) \/ AutoregTouch(s)
           \/ AutoregDropStale(s) \/ AutoregUserFirst(s) \/ AutoregDeviceFirst(s)
           \/ AutoregInsertUser(s) \/ AutoregInsertDevice(s)
    PROVE  TypeOK'
<1> USE DEF TypeOK
<1>0. call[s] \in Call
  OBVIOUS
<1>1. CASE AutoregFind(s)
  <2>1. \A f \in Fingerprints :
            /\ [Idle EXCEPT !.pc = "insert", !.fingerprint = f] \in Call
            /\ \A d \in Devices :
                 [Idle EXCEPT !.pc = "linked", !.fingerprint = f,
                              !.did = d, !.uid = devices[d].userId] \in Call
    <3>1. \A d \in Devices : devices[d].userId \in Users \cup {None}
      BY DEF Device
    <3>2. ASSUME NEW f \in Fingerprints
          PROVE  [Idle EXCEPT !.pc = "insert", !.fingerprint = f] \in Call
      BY DefaultsTyped DEF Call, Waits
    <3> QED
      BY <3>1, <3>2, AutoregCall
  <2>2. call' \in [Slots -> Call]
    BY <1>1, <2>1, ServeTyped DEF AutoregFind
  <2> QED
    BY <1>1, <2>2 DEF AutoregFind
<1>2. CASE AutoregLinked(s)
  <2>1. CASE StillAnonymous(call[s].uid)
    <3>1. users[call[s].uid] \in User
      BY <2>1 DEF StillAnonymous, Stored
    <3>2. [call[s] EXCEPT !.pc = "touch", !.loaded = users[call[s].uid]] \in Call
      BY <1>0, <3>1, CallWith DEF Waits
    <3> QED
      BY <1>2, <2>1, <3>2 DEF AutoregLinked
  <2>2. CASE ~StillAnonymous(call[s].uid)
    BY <1>2, <2>2, GotoTyped DEF AutoregLinked, Waits
  <2> QED
    BY <2>1, <2>2
<1>3. CASE AutoregTouch(s)
  BY <1>3, ReplyTyped DEF AutoregTouch, Call, User
<1>4. CASE AutoregDropStale(s)
  BY <1>4, DropTyped, GotoTyped DEF AutoregDropStale, Waits
<1>5. CASE AutoregUserFirst(s)
  <2>1. PICK u \in Users : /\ users' = [users EXCEPT ![u] = NewUser]
                           /\ call' = [call EXCEPT ![s].pc = "insertDevice", ![s].uid = u]
    BY <1>5 DEF AutoregUserFirst
  <2>2. [call[s] EXCEPT !.pc = "insertDevice", !.uid = u] \in Call
    BY <1>0, CallWith DEF Waits
  <2>3. users' \in [Users -> User] /\ call' \in [Slots -> Call]
    BY <2>1, <2>2, DefaultsTyped
  <2> QED
    BY <1>5, <2>3 DEF AutoregUserFirst
<1>b. \A u \in Users \cup {None} : NewDevice(call[s].fingerprint, u) \in Device
  BY <1>0 DEF NewDevice, Call, Device
<1>6. CASE AutoregInsertDevice(s)
  <2>1. CASE FingerprintTaken(call[s].fingerprint)
    BY <1>6, <2>1, FinishTyped DEF AutoregInsertDevice
  <2>2. CASE ~FingerprintTaken(call[s].fingerprint)
    <3>1. NewDevice(call[s].fingerprint, call[s].uid) \in Device
      BY <1>0, <1>b DEF Call
    <3>2. devices' \in [Devices -> Device]
      BY <1>6, <2>2, <3>1 DEF AutoregInsertDevice
    <3>3. call' \in [Slots -> Call] /\ grants' \subseteq Grant
      BY <1>6, <2>2, ReplyTyped DEF AutoregInsertDevice, Call
    <3> QED
      BY <1>6, <3>2, <3>3 DEF AutoregInsertDevice
  <2> QED
    BY <2>1, <2>2
<1>7. CASE AutoregDeviceFirst(s)
  <2>1. CASE FingerprintTaken(call[s].fingerprint)
    BY <1>7, <2>1, FinishTyped DEF AutoregDeviceFirst
  <2>2. CASE ~FingerprintTaken(call[s].fingerprint)
    <3>1. PICK u \in Users, d \in Devices :
            /\ devices' = [devices EXCEPT ![d] = NewDevice(call[s].fingerprint, u)]
            /\ call' = [call EXCEPT ![s].pc = "insertUser", ![s].uid = u]
      BY <1>7, <2>2 DEF AutoregDeviceFirst
    <3>2. [call[s] EXCEPT !.pc = "insertUser", !.uid = u] \in Call
      BY <1>0, CallWith DEF Waits
    <3>3. devices' \in [Devices -> Device] /\ call' \in [Slots -> Call]
      BY <1>b, <3>1, <3>2
    <3> QED
      BY <1>7, <3>3 DEF AutoregDeviceFirst
  <2> QED
    BY <2>1, <2>2
<1>8. CASE AutoregInsertUser(s)
  <2>1. users' \in [Users -> User]
    BY <1>8, DefaultsTyped DEF AutoregInsertUser
  <2>2. call' \in [Slots -> Call] /\ grants' \subseteq Grant
    BY <1>0, <1>8, ReplyTyped DEF AutoregInsertUser, Call
  <2> QED
    BY <1>8, <2>1, <2>2 DEF AutoregInsertUser
<1> QED
  BY <1>1, <1>2, <1>3, <1>4, <1>5, <1>6, <1>7, <1>8

\* login keeps the types.
LEMMA LoginTyped ==
    ASSUME TypeOK, NEW s \in Slots, LoginFind(s) \/ LoginVerify(s)
    PROVE  TypeOK'
<1> USE DEF TypeOK
<1>1. CASE LoginFind(s)
  <2>1. \A p \in Passwords, u \in Users :
            [Idle EXCEPT !.pc = "verify", !.uid = u, !.password = p,
                         !.loaded = users[u]] \in Call
    BY DefaultsTyped DEF Call, Waits
  <2> QED
    BY <1>1, <2>1, ServeTyped DEF LoginFind
<1>2. CASE LoginVerify(s)
  <2>1. /\ call[s].uid \in Users \cup {None} /\ call[s].loaded.tokenVersion \in Nat
        /\ call[s].password \in Passwords \cup {None}
    BY DEF Call, User
  <2> QED
    BY <1>2, <2>1, ReplyTyped, FinishTyped DEF LoginVerify
<1> QED
  BY <1>1, <1>2

\* upgradeAccount keeps the types.
LEMMA UpgradeTyped ==
    ASSUME TypeOK, NEW s \in Slots,
           UpgradeFind(s) \/ UpgradeClash(s) \/ UpgradeFlush(s) \/ UpgradeDetach(s)
    PROVE  TypeOK'
<1> USE DEF TypeOK
<1>1. CASE UpgradeFind(s)
  <2>1. \A u \in Users :
            LET c == [Idle EXCEPT !.pc = "clash", !.uid = u, !.loaded = users[u]]
            IN  /\ \A e \in Emails, p \in Passwords :
                     [c EXCEPT !.email = e, !.password = p] \in Call
                /\ \A i \in Identities, e \in Emails \cup {None} :
                     [c EXCEPT !.identity = i, !.email = e] \in Call
    <3> SUFFICES ASSUME NEW u \in Users
        PROVE  LET c == [Idle EXCEPT !.pc = "clash", !.uid = u, !.loaded = users[u]]
               IN  /\ \A e \in Emails, p \in Passwords :
                        [c EXCEPT !.email = e, !.password = p] \in Call
                   /\ \A i \in Identities, e \in Emails \cup {None} :
                        [c EXCEPT !.identity = i, !.email = e] \in Call
      OBVIOUS
    <3>1. [Idle EXCEPT !.pc = "clash", !.uid = u, !.loaded = users[u]] \in Call
      BY DefaultsTyped, CallWith DEF Waits
    <3>2. ASSUME NEW c \in Call, NEW e \in Emails, NEW p \in Passwords
          PROVE  [c EXCEPT !.email = e, !.password = p] \in Call
      BY DEF Call
    <3>3. ASSUME NEW c \in Call, NEW e \in Emails \cup {None}, NEW i \in Identities
          PROVE  [c EXCEPT !.identity = i, !.email = e] \in Call
      BY DEF Call
    <3> QED
      BY <3>1, <3>2, <3>3
  <2>2. call' \in [Slots -> Call]
    BY <1>1, <2>1, ServeTyped DEF UpgradeFind
  <2> QED
    BY <1>1, <2>2 DEF UpgradeFind
<1>2. CASE UpgradeClash(s)
  BY <1>2, GotoTyped, FinishTyped DEF UpgradeClash, Waits
<1>3. CASE UpgradeFlush(s)
  <2> DEFINE c == call[s]
  <2>1. c \in Call
    OBVIOUS
  <2>2. Stored(c.uid) => Upgraded(c) \in User
    <3>1. ASSUME c.uid \in Users PROVE users[c.uid] \in User
      BY <3>1
    <3>2. c.email \in Emails \cup {None} /\ c.password \in Passwords \cup {None}
          /\ c.identity \in Identities \cup {None} /\ c.loaded \in User
      BY <2>1 DEF Call
    <3> DEFINE now == [users[c.uid] EXCEPT !.accountType = "user",
                                           !.tokenVersion = c.loaded.tokenVersion + 1,
                                           !.email = IF c.email = None THEN @ ELSE c.email]
    <3>3. ASSUME c.uid \in Users PROVE now \in User
      <4>1. c.loaded.tokenVersion + 1 \in Nat
        BY <3>2 DEF User
      <4>2. users[c.uid] \in User
        BY <3>1, <3>3
      <4>3. (IF c.email = None THEN users[c.uid].email ELSE c.email) \in Emails \cup {None}
        BY <3>2, <4>2 DEF User
      <4> HIDE DEF c
      <4> QED
        BY <4>1, <4>2, <4>3 DEF User
    <3> HIDE DEF now
    <3>4. ASSUME c.uid \in Users, c.identity = None
          PROVE  [now EXCEPT !.passwordHash = c.password] \in User
      BY <3>2, <3>3, <3>4 DEF User
    <3>5. ASSUME c.uid \in Users, c.identity # None
          PROVE  [now EXCEPT !.oauthLinks = c.loaded.oauthLinks \cup {c.identity}] \in User
      <4>1. c.loaded.oauthLinks \cup {c.identity} \subseteq Identities
        BY <3>2, <3>5 DEF User
      <4> QED
        BY <4>1, <3>3, <3>5 DEF User
    <3> QED
      BY <3>4, <3>5 DEF Stored, Upgraded, now
  <2>3. users' \in [Users -> User] /\ call' \in [Slots -> Call]
    BY <1>3, <2>2, UpdateTyped, GotoTyped, FinishTyped DEF UpgradeFlush, Waits
  <2> QED
    BY <1>3, <2>3 DEF UpgradeFlush
<1>4. CASE UpgradeDetach(s)
  <2>1. call[s].uid \in Users \cup {None} /\ call[s].loaded.tokenVersion + 1 \in Nat
    BY DEF Call, User
  <2> QED
    BY <1>4, <2>1, DropTyped, ReplyTyped DEF UpgradeDetach
<1> QED
  BY <1>1, <1>2, <1>3, <1>4

\* findOrCreateOAuthUser keeps the types.
LEMMA OAuthTyped ==
    ASSUME TypeOK, InFlight, NEW s \in Slots,
           OAuthByProvider(s) \/ OAuthByEmail(s) \/ OAuthLink(s) \/ OAuthCreate(s)
    PROVE  TypeOK'
<1> USE DEF TypeOK
<1>0. call[s] \in Call
  OBVIOUS
<1>a. /\ call[s].uid \in Users \cup {None} /\ call[s].loaded \in User
      /\ call[s].identity \in Identities \cup {None}
      /\ call[s].email \in Emails \cup {None}
  BY <1>0 DEF Call
<1>1. CASE OAuthByProvider(s)
  <2>1. \A i \in Identities, e \in Emails \cup {None}, v \in BOOLEAN, pc \in {"byEmail", "create"} :
            [[Idle EXCEPT !.identity = i, !.email = e, !.verified = v] EXCEPT !.pc = pc] \in Call
    BY OAuthCall
  <2>2. PICK i \in Identities, e \in Emails \cup {None}, v \in BOOLEAN :
            \/ /\ Serve(s, "oauth", [[Idle EXCEPT !.identity = i, !.email = e, !.verified = v]
                                     EXCEPT !.pc = IF v THEN "byEmail" ELSE "create"])
               /\ UNCHANGED grants
            \/ \E u \in Users : Reply(s, "oauth", u, users[u].tokenVersion, i)
    BY <1>1 DEF OAuthByProvider
  <2>3. call' \in [Slots -> Call] /\ grants' \subseteq Grant
    <3>1. CASE \E u \in Users : Reply(s, "oauth", u, users[u].tokenVersion, i)
      BY <3>1, ReplyTyped DEF User
    <3>2. CASE ~ \E u \in Users : Reply(s, "oauth", u, users[u].tokenVersion, i)
      <4>1. (IF v THEN "byEmail" ELSE "create") \in {"byEmail", "create"}
        OBVIOUS
      <4>2. [[Idle EXCEPT !.identity = i, !.email = e, !.verified = v]
                   EXCEPT !.pc = IF v THEN "byEmail" ELSE "create"] \in Call
        BY <2>1, <4>1
      <4> QED
        BY <2>2, <3>2, <4>2, ServeTyped
    <3> QED
      BY <3>1, <3>2
  <2> QED
    BY <1>1, <2>3 DEF OAuthByProvider
<1>2. CASE OAuthByEmail(s)
  <2>1. \A u \in Users : [call[s] EXCEPT !.pc = "link", !.uid = u, !.loaded = users[u]] \in Call
    BY <1>0, CallWith DEF Waits
  <2> QED
    BY <1>2, <2>1, GotoTyped DEF OAuthByEmail, Waits
<1>3. CASE OAuthLink(s)
  <2> DEFINE doc == [users[call[s].uid] EXCEPT
                        !.oauthLinks = call[s].loaded.oauthLinks \cup {call[s].identity}]
  <2>1. call[s].loaded.oauthLinks \cup {call[s].identity} \subseteq Identities
    BY <1>3, <1>a DEF OAuthLink, InFlight, At, User
  <2>2. ASSUME Stored(call[s].uid) PROVE doc \in User
    <3>1. users[call[s].uid] \in User
      BY <2>2 DEF Stored
    <3> QED
      BY <2>1, <3>1 DEF User
  <2>3. users' \in [Users -> User]
    BY <1>3, <2>2, UpdateTyped DEF OAuthLink
  <2>4. call[s].loaded.tokenVersion \in Nat
    BY <1>a DEF User
  <2>5. call' \in [Slots -> Call] /\ grants' \subseteq Grant
    BY <1>3, <1>a, <2>4, ReplyTyped DEF OAuthLink
  <2> QED
    BY <1>3, <2>3, <2>5 DEF OAuthLink
<1>4. CASE OAuthCreate(s)
  <2> DEFINE doc == [NewUser EXCEPT !.accountType = "user", !.email = call[s].email,
                                    !.oauthLinks = {call[s].identity}]
  <2>1. call[s].identity \in Identities
    BY <1>4 DEF OAuthCreate, InFlight, At
  <2>2. doc \in User
    BY <1>a, <2>1, DefaultsTyped, IdentityTyped
  <2>3. users' \in [Users -> User]
    <3>1. PICK u \in Users : UNCHANGED users \/ users' = [users EXCEPT ![u] = doc]
      BY <1>4 DEF OAuthCreate
    <3> QED
      BY <2>2, <3>1
  <2>4. call' \in [Slots -> Call] /\ grants' \subseteq Grant
    BY <1>4, <1>a, ReplyTyped, FinishTyped DEF OAuthCreate
  <2> QED
    BY <1>4, <2>3, <2>4 DEF OAuthCreate
<1> QED
  BY <1>1, <1>2, <1>3, <1>4

\* forgotPassword and resetPassword keep the types.
LEMMA PasswordTyped ==
    ASSUME TypeOK, InFlight, NEW s \in Slots,
           \/ ForgotFind(s) \/ ForgotStore(s) \/ ForgotMail(s)
           \/ ResetFind(s) \/ ResetApply(s)
    PROVE  TypeOK'
<1> USE DEF TypeOK
<1>0. call[s] \in Call
  OBVIOUS
<1>a. /\ call[s].token \in ResetTokens \cup {None} /\ call[s].loaded \in User
      /\ call[s].password \in Passwords \cup {None}
  BY <1>0 DEF Call
<1>1. CASE ForgotFind(s)
  <2>1. ASSUME NEW u \in Users, NEW t \in ResetTokens
        PROVE  [Idle EXCEPT !.pc = "store", !.uid = u, !.token = t, !.loaded = users[u]] \in Call
    BY TokenCallTyped
  <2> QED
    BY <1>1, <2>1, ServeTyped DEF ForgotFind
<1>2. CASE ForgotStore(s)
  <2> DEFINE doc == [users[call[s].uid] EXCEPT !.resetPasswordToken = call[s].token]
  <2>1. ASSUME Stored(call[s].uid) PROVE doc \in User
    <3>1. users[call[s].uid] \in User
      BY <2>1 DEF Stored
    <3> QED
      BY <1>a, <3>1 DEF User
  <2>2. users' \in [Users -> User]
    BY <1>2, <2>1, UpdateTyped DEF ForgotStore
  <2> QED
    BY <1>2, <2>2, GotoTyped DEF ForgotStore, Waits
<1>5. CASE ForgotMail(s)
  <2>1. mailed' \subseteq ResetTokens
    BY <1>5 DEF ForgotMail, At, InFlight
  <2> QED
    BY <1>5, <2>1, FinishTyped DEF ForgotMail
<1>3. CASE ResetFind(s)
  <2>1. ASSUME NEW u \in Users, NEW t \in ResetTokens, NEW p \in Passwords
        PROVE  [Idle EXCEPT !.pc = "apply", !.uid = u, !.token = t,
                            !.password = p, !.loaded = users[u]] \in Call
    BY ResetCallTyped
  <2> QED
    BY <1>3, <2>1, ServeTyped DEF ResetFind
<1>4. CASE ResetApply(s)
  <2>1. ASSUME Stored(call[s].uid) PROVE WithNewPassword(call[s]) \in User
    <3>1. users[call[s].uid] \in User /\ call[s].loaded.tokenVersion + 1 \in Nat
      BY <1>a, <2>1 DEF Stored, User
    <3> QED
      BY <1>a, <3>1 DEF WithNewPassword, User
  <2>2. users' \in [Users -> User]
    BY <1>4, <2>1, UpdateTyped DEF ResetApply
  <2>3. spent' \in [ResetTokens -> Nat]
    <3>1. CASE call[s].token \in ResetTokens
      BY <1>4, <3>1 DEF ResetApply
    <3>2. CASE call[s].token \notin ResetTokens
      <4>1. [spent EXCEPT ![call[s].token] = @ + 1] = spent
        BY <3>2
      <4> QED
        BY <1>4, <4>1 DEF ResetApply
    <3> QED
      BY <3>1, <3>2
  <2> QED
    BY <1>4, <2>2, <2>3, FinishTyped DEF ResetApply
<1> QED
  BY <1>1, <1>2, <1>3, <1>4, <1>5

\* deleteUser and its staged event keep the types.
LEMMA DeleteTyped ==
    ASSUME TypeOK, NEW s \in Slots,
           DeleteFind(s) \/ DeleteStage(s) \/ DeleteInsertEvent(s) \/ DeleteScrub(s)
    PROVE  TypeOK'
<1> USE DEF TypeOK
<1>1. CASE DeleteFind(s)
  <2>1. \A u \in Users :
            [Idle EXCEPT !.pc = "stage", !.uid = u, !.loaded = users[u]] \in Call
    BY DefaultsTyped DEF Call, Waits
  <2> QED
    BY <1>1, <2>1, ServeTyped DEF DeleteFind
<1>2. CASE DeleteStage(s)
  BY <1>2, GotoTyped DEF DeleteStage, Waits
<1>3. CASE DeleteInsertEvent(s)
  <2>1. events' \in [Users -> Nat]
    BY <1>3 DEF DeleteInsertEvent
  <2>2. call' \in [Slots -> Call]
    BY <1>3, FinishTyped, GotoTyped DEF DeleteInsertEvent, Waits
  <2> QED
    BY <1>3, <2>1, <2>2 DEF DeleteInsertEvent
<1>4. CASE DeleteScrub(s)
  <2>1. ASSUME Stored(call[s].uid) PROVE Deleted(call[s]) \in User
    <3>1. call[s].loaded \in User
      BY DEF Call
    <3>2. users[call[s].uid] \in User /\ call[s].loaded.tokenVersion + 1 \in Nat
      BY <2>1, <3>1 DEF Stored, User
    <3>3. \A S, l : \A x \in S \cup {None} : Scrub(x, l) \in S \cup {None}
      BY DEF Scrub
    <3> QED
      BY <3>2, <3>3 DEF Deleted, User
  <2> QED
    BY <1>4, <2>1, UpdateTyped, FinishTyped DEF DeleteScrub
<1> QED
  BY <1>1, <1>2, <1>3, <1>4

\* The purge task keeps the types.
LEMMA PurgeTyped == TypeOK /\ PurgeTask => TypeOK'
<1> SUFFICES ASSUME TypeOK, PurgeTask PROVE TypeOK'
  OBVIOUS
<1> USE DEF TypeOK
<1>1. CASE PurgeList
  BY <1>1 DEF PurgeList
<1>2. ASSUME NEW u \in Users, PurgeDevices(u) PROVE TypeOK'
  BY <1>2, DropTyped DEF PurgeDevices
<1>3. ASSUME NEW u \in Users, PurgeUser(u) PROVE TypeOK'
  BY <1>3, DefaultsTyped DEF PurgeUser
<1> QED
  BY <1>1, <1>2, <1>3 DEF PurgeTask

\* Aborts, expiry, blocking, ageing and revival keep the types.
LEMMA EnvironmentTyped == TypeOK /\ Environment => TypeOK'
<1> SUFFICES ASSUME TypeOK, Environment PROVE TypeOK'
  OBVIOUS
<1> USE DEF TypeOK
<1>1. CASE Lapse
  BY <1>1 DEF Lapse
<1>2. CASE Block
  <2>1. PICK d \in Devices : devices' = [devices EXCEPT ![d].isBlocked = TRUE]
    BY <1>2 DEF Block
  <2>2. [devices[d] EXCEPT !.isBlocked = TRUE] \in Device
    BY DEF Device
  <2> QED
    BY <1>2, <2>1, <2>2 DEF Block
<1>3. ASSUME NEW u \in Users, NEW age \in {"no", "old"},
             users' = [users EXCEPT ![u].deletedAt = age],
             UNCHANGED <<devices, events, call, purge, mailed, lapsed, grants, spent>>
      PROVE  TypeOK'
  <2>1. [users[u] EXCEPT !.deletedAt = age] \in User
    BY DEF User
  <2>2. users' \in [Users -> User]
    BY <1>3, <2>1
  <2> QED
    BY <1>3, <2>2
<1>4. CASE Age \/ Revive
  BY <1>3, <1>4 DEF Age, Revive
<1>5. ASSUME NEW s \in Slots, Abort(s) PROVE TypeOK'
  BY <1>5, FinishTyped DEF Abort
<1>6. ASSUME NEW u \in Users, PurgeSkip(u) PROVE TypeOK'
  BY <1>6 DEF PurgeSkip
<1> QED
  BY <1>1, <1>2, <1>4, <1>5, <1>6 DEF Environment

\* Every step keeps the types.
LEMMA TypeStep == TypeOK /\ InFlight /\ [Next]_vars => TypeOK'
<1> SUFFICES ASSUME TypeOK, InFlight, [Next]_vars PROVE TypeOK'
  OBVIOUS
<1>1. CASE UNCHANGED vars
  BY <1>1 DEF TypeOK, vars
<1>2. ASSUME NEW s \in Slots, Handler(s) PROVE TypeOK'
  BY <1>2, AutoregTyped, LoginTyped, UpgradeTyped, OAuthTyped, PasswordTyped, DeleteTyped
     DEF Handler
<1> QED
  BY <1>1, <1>2, PurgeTyped, EnvironmentTyped DEF Next

\* Whatever the constants, the collections, the calls in flight and the
\* history stay well typed; TypeOK needs InFlight to be inductive.
THEOREM TypeCorrect == Spec => [](TypeOK /\ InFlight)
<1>1. Init => TypeOK /\ InFlight
  <2>1. Init => TypeOK
    BY DefaultsTyped DEF Init, TypeOK
  <2> QED
    BY <2>1, InFlightInit
<1>2. TypeOK /\ InFlight /\ [Next]_vars => (TypeOK /\ InFlight)'
  BY TypeStep, InFlightStep
<1> QED
  BY <1>1, <1>2, PTL DEF Spec

----------------------------------------------------------------------------
(* No deletion loses its event.  DeletionAnnounced is not inductive: the   *)
(* write that deletes comes two awaits after the look at the outbox, and   *)
(* the purge wipes accounts it listed earlier.  InFlight covers the first  *)
(* gap, PurgeAnnounced the second.                                         *)

PurgeAnnounced ==
    /\ \A u \in purge.victims : events[u] > 0
    /\ purge.half \in Users => events[purge.half] > 0

\* Is account u on its way out?
Ending(u) == users[u].row = "gone" \/ users[u].deletedAt # "no"

\* Rows of the outbox are never taken back.
LEMMA EventsGrow ==
    TypeOK /\ [Next]_vars => \A u \in Users : events[u] > 0 => events'[u] > 0
<1> SUFFICES ASSUME TypeOK, [Next]_vars, NEW u \in Users, events[u] > 0 PROVE events'[u] > 0
  OBVIOUS
<1>1. CASE UNCHANGED events
  BY <1>1 DEF TypeOK
<1>2. ASSUME NEW s \in Slots, DeleteInsertEvent(s) PROVE events'[u] > 0
  BY <1>2 DEF TypeOK, DeleteInsertEvent
<1>3. ASSUME NEW s \in Slots, Handler(s), ~DeleteInsertEvent(s) PROVE UNCHANGED events
  BY <1>3 DEF Handler, AutoregFind, AutoregLinked, AutoregTouch, AutoregDropStale,
              AutoregUserFirst, AutoregDeviceFirst, AutoregInsertUser,
              AutoregInsertDevice, LoginFind, LoginVerify, UpgradeFind, UpgradeClash, UpgradeFlush, UpgradeDetach,
              OAuthByProvider, OAuthByEmail, OAuthLink, OAuthCreate, ForgotFind,
              ForgotStore, ForgotMail, ResetFind, ResetApply, DeleteFind, DeleteStage,
              DeleteScrub
<1>4. CASE PurgeTask \/ Environment
  BY <1>4, <1>1 DEF PurgeTask, PurgeList, PurgeDevices, PurgeUser, Environment, Abort,
                    PurgeSkip, Lapse, Block, Age, Revive
<1> QED
  BY <1>1, <1>2, <1>3, <1>4 DEF Next, vars

\* A flush that leaves row and deletedAt alone ends no account.
LEMMA UpdateQuiet ==
    ASSUME TypeOK, NEW v, NEW doc, Update(v, doc),
           Stored(v) => doc.row = users[v].row /\ doc.deletedAt = users[v].deletedAt
    PROVE  \A u \in Users : Ending(u)' => Ending(u)
BY DEF TypeOK, Update, Stored, Ending

\* A new document ends no account either.
LEMMA InsertQuiet ==
    ASSUME TypeOK, NEW v \in Users, NEW doc, users' = [users EXCEPT ![v] = doc],
           doc.row = "stored", doc.deletedAt = "no"
    PROVE  \A u \in Users : Ending(u)' => Ending(u)
BY DEF TypeOK, Ending

\* Only the last write of deleteUser makes an account end, and its event is
\* in the outbox by then.
LEMMA HandlerEnds ==
    ASSUME TypeOK, InFlight, NEW s \in Slots, Handler(s), NEW u \in Users, Ending(u)'
    PROVE  Ending(u) \/ events[u] > 0
<1>1. CASE UNCHANGED users
  BY <1>1 DEF Ending
<1>2. CASE AutoregUserFirst(s) \/ AutoregInsertUser(s)
  BY <1>2, InsertQuiet DEF AutoregUserFirst, AutoregInsertUser, NewUser, InFlight, At
<1>3. CASE UpgradeFlush(s)
  <2>1. ASSUME Stored(call[s].uid)
        PROVE  /\ Upgraded(call[s]).row = users[call[s].uid].row
               /\ Upgraded(call[s]).deletedAt = users[call[s].uid].deletedAt
    <3>1. users[call[s].uid] \in User
      BY <2>1 DEF TypeOK, Stored
    <3> QED
      BY <3>1 DEF Upgraded, User
  <2> QED
    BY <1>1, <1>3, <2>1, UpdateQuiet DEF UpgradeFlush
<1>4. CASE OAuthLink(s)
  <2> DEFINE doc == [users[call[s].uid] EXCEPT
                        !.oauthLinks = call[s].loaded.oauthLinks \cup {call[s].identity}]
  <2>1. ASSUME Stored(call[s].uid)
        PROVE  doc.row = users[call[s].uid].row /\ doc.deletedAt = users[call[s].uid].deletedAt
    BY <2>1 DEF TypeOK, Stored, User
  <2> QED
    BY <1>4, <2>1, UpdateQuiet DEF OAuthLink
<1>5. CASE OAuthCreate(s)
  <2> DEFINE doc == [NewUser EXCEPT !.accountType = "user", !.email = call[s].email,
                                    !.oauthLinks = {call[s].identity}]
  <2>1. doc.row = "stored" /\ doc.deletedAt = "no"
    BY DEF NewUser
  <2>2. PICK v \in Users : UNCHANGED users \/ users' = [users EXCEPT ![v] = doc]
    BY <1>5 DEF OAuthCreate
  <2> HIDE DEF doc
  <2>3. CASE users' = [users EXCEPT ![v] = doc]
    BY <2>1, <2>3, InsertQuiet
  <2> QED
    BY <1>1, <2>2, <2>3
<1>6. CASE ForgotStore(s)
  <2> DEFINE doc == [users[call[s].uid] EXCEPT !.resetPasswordToken = call[s].token]
  <2>1. ASSUME Stored(call[s].uid)
        PROVE  doc.row = users[call[s].uid].row /\ doc.deletedAt = users[call[s].uid].deletedAt
    BY <2>1 DEF TypeOK, Stored, User
  <2> QED
    BY <1>6, <2>1, UpdateQuiet DEF ForgotStore
<1>7. CASE ResetApply(s)
  <2>1. ASSUME Stored(call[s].uid)
        PROVE  /\ WithNewPassword(call[s]).row = users[call[s].uid].row
               /\ WithNewPassword(call[s]).deletedAt = users[call[s].uid].deletedAt
    <3>1. users[call[s].uid] \in User
      BY <2>1 DEF TypeOK, Stored
    <3> QED
      BY <3>1 DEF WithNewPassword, User
  <2> QED
    BY <1>7, <2>1, UpdateQuiet DEF ResetApply
<1>8. CASE DeleteScrub(s)
  <2>1. CASE u = call[s].uid
    BY <1>8, <2>1 DEF DeleteScrub, InFlight, At
  <2>2. CASE u # call[s].uid
    BY <1>8, <2>2 DEF DeleteScrub, Update, Ending, TypeOK
  <2> QED
    BY <2>1, <2>2
<1> QED
  BY <1>1, <1>2, <1>3, <1>4, <1>5, <1>6, <1>7, <1>8
     DEF Handler, AutoregFind, AutoregLinked, AutoregTouch, AutoregDropStale,
         AutoregDeviceFirst, AutoregInsertDevice, LoginFind, LoginVerify, UpgradeFind,
         UpgradeClash, UpgradeDetach, OAuthByProvider, OAuthByEmail, ForgotFind,
         ForgotMail, ResetFind, DeleteFind, DeleteStage, DeleteInsertEvent

\* The purge wipes only accounts it listed as deleted; support only revives.
LEMMA OutsideEnds ==
    ASSUME TypeOK, PurgeAnnounced, PurgeTask \/ Environment, NEW u \in Users, Ending(u)'
    PROVE  Ending(u) \/ events[u] > 0
<1>1. CASE UNCHANGED users
  BY <1>1 DEF Ending
<1>2. ASSUME NEW v \in Users, PurgeUser(v) PROVE Ending(u) \/ events[u] > 0
  BY <1>2 DEF PurgeUser, PurgeAnnounced, Ending, TypeOK
<1>3. CASE Age
  <2>1. PICK v \in Users : /\ users[v].deletedAt = "recent"
                           /\ users' = [users EXCEPT ![v].deletedAt = "old"]
    BY <1>3 DEF Age
  <2>2. u # v => users'[u] = users[u]
    BY <2>1 DEF TypeOK
  <2> QED
    BY <2>1, <2>2 DEF Ending
<1>4. CASE Revive
  <2>1. PICK v \in Users : /\ users[v].row = "stored"
                           /\ users' = [users EXCEPT ![v].deletedAt = "no"]
    BY <1>4 DEF Revive, Stored
  <2>2. users'[u] = users[u] \/ (u = v /\ users'[u] = [users[v] EXCEPT !.deletedAt = "no"])
    BY <2>1 DEF TypeOK
  <2>3. LET doc == [users[v] EXCEPT !.deletedAt = "no"] IN doc.row = "stored" /\ doc.deletedAt = "no"
    BY <2>1 DEF TypeOK, User
  <2> QED
    BY <2>2, <2>3 DEF Ending
<1> QED
  BY <1>1, <1>2, <1>3, <1>4
     DEF PurgeTask, PurgeList, PurgeDevices, Environment, Abort, PurgeSkip, Lapse, Block

\* The purge task lists announced accounts, and rows are never taken back.
LEMMA PurgeAnnouncedStep ==
    ASSUME TypeOK, DeletionAnnounced, PurgeAnnounced, [Next]_vars
    PROVE  PurgeAnnounced'
<1>1. \A u \in Users : events[u] > 0 => events'[u] > 0
  BY EventsGrow
<1>2. CASE UNCHANGED purge
  BY <1>1, <1>2 DEF PurgeAnnounced, TypeOK
<1>3. CASE PurgeList
  <2>1. /\ purge'.victims = {u \in Users : PastGrace(u)}
        /\ purge'.half = None
    BY <1>3 DEF PurgeList
  <2>2. \A u \in Users : PastGrace(u) => events'[u] > 0
    BY <1>1 DEF PastGrace, DeletionAnnounced
  <2> QED
    BY <2>1, <2>2, NoneAssumption DEF PurgeAnnounced
<1>4. ASSUME NEW u \in Users, PurgeDevices(u) \/ PurgeUser(u) \/ PurgeSkip(u)
      PROVE  PurgeAnnounced'
  <2>1. /\ purge'.victims \subseteq purge.victims
        /\ purge'.half \in {None} \cup purge.victims
    BY <1>4 DEF PurgeDevices, PurgeUser, PurgeSkip, TypeOK
  <2> QED
    BY <1>1, <2>1, NoneAssumption DEF PurgeAnnounced, TypeOK
<1>5. CASE \E s \in Slots : Handler(s)
  BY <1>2, <1>5, HandlerFrame
<1>6. CASE Environment
  BY <1>2, <1>4, <1>6 DEF Environment, Abort, Lapse, Block, Age, Revive
<1> QED
  BY <1>2, <1>3, <1>4, <1>5, <1>6 DEF Next, vars, PurgeTask

\* deleteUser and the purge task, for every number of accounts and of calls
\* in flight, with and without the unique indexes, aborts at every await:
\* no account is deleted without a user.deleted row in the outbox.
THEOREM NoDeletionUnannounced == Spec => []DeletionAnnounced
<1> DEFINE Inv == TypeOK /\ InFlight /\ DeletionAnnounced /\ PurgeAnnounced
<1>1. Init => Inv
  <2>1. Init => TypeOK
    BY DefaultsTyped DEF Init, TypeOK
  <2>2. Init => DeletionAnnounced /\ PurgeAnnounced
    <3>1. Unborn.row = "unborn" /\ Unborn.deletedAt = "no"
      BY DEF Unborn, NewUser
    <3> QED
      BY <3>1, NoneAssumption DEF Init, DeletionAnnounced, PurgeAnnounced
  <2> QED
    BY <2>1, <2>2, InFlightInit
<1>2. Inv /\ [Next]_vars => Inv'
  <2> SUFFICES ASSUME Inv, [Next]_vars PROVE Inv'
    OBVIOUS
  <2>1. ASSUME NEW u \in Users, Ending(u)' PROVE events'[u] > 0
    <3>1. Ending(u) \/ events[u] > 0
      BY <2>1, HandlerEnds, OutsideEnds DEF Next, vars, Ending
    <3>2. events[u] > 0
      BY <3>1 DEF Ending, DeletionAnnounced
    <3> QED
      BY <3>2, EventsGrow
  <2>2. DeletionAnnounced'
    BY <2>1 DEF DeletionAnnounced, Ending
  <2> QED
    BY <2>2, TypeStep, InFlightStep, PurgeAnnouncedStep
<1> QED
  BY <1>1, <1>2, PTL DEF Spec

----------------------------------------------------------------------------
(* One address, one account.  The lookups of upgradeAccount and            *)
(* findOrCreateOAuthUser are stale when the flush comes; the proof never   *)
(* mentions them and rests on the index alone.                             *)

\* A step that writes one document at most, and gives it no address but its
\* own or a free one, leaves every address with one account.
LEMMA OneWriter ==
    ASSUME EmailUnique, NEW v \in Users,
           \A u \in Users \ {v} : users'[u] = users[u],
           users'[v].row = "stored" =>
                \/ users'[v].email = None
                \/ Stored(v) /\ users'[v].email = users[v].email
                \/ ~EmailTaken(v, users'[v].email)
    PROVE  EmailUnique'
BY DEF EmailUnique, EmailTaken, Stored

\* A flush that leaves the address alone, or removes it.
LEMMA AddressQuiet ==
    ASSUME TypeOK, EmailUnique, NEW v, NEW doc, Update(v, doc),
           Stored(v) => doc.email \in {users[v].email, None}
    PROVE  EmailUnique'
<1>1. CASE Stored(v)
  <2>1. v \in Users /\ users' = [users EXCEPT ![v] = doc]
    BY <1>1 DEF Update, Stored
  <2>2. users'[v] = doc /\ \A u \in Users \ {v} : users'[u] = users[u]
    BY <2>1 DEF TypeOK
  <2> QED
    BY <1>1, <2>1, <2>2, OneWriter
<1>2. CASE ~Stored(v)
  BY <1>2 DEF Update, EmailUnique, Stored
<1> QED
  BY <1>1, <1>2

\* The handlers.
LEMMA HandlerAddress ==
    ASSUME TypeOK, EmailUnique, NEW s \in Slots, Handler(s)
    PROVE  EmailUnique'
<1>1. CASE UNCHANGED users
  BY <1>1 DEF EmailUnique, Stored
<1>2. CASE AutoregUserFirst(s) \/ (AutoregInsertUser(s) /\ call[s].uid \in Users)
  <2>1. PICK v \in Users : users' = [users EXCEPT ![v] = NewUser]
    BY <1>2 DEF AutoregUserFirst, AutoregInsertUser
  <2>2. users'[v] = NewUser /\ \A u \in Users \ {v} : users'[u] = users[u]
    BY <2>1 DEF TypeOK
  <2>3. users'[v].email = None
    BY <2>2 DEF NewUser
  <2> QED
    BY <2>2, <2>3, OneWriter
<1>3. CASE UpgradeFlush(s)
  <2> DEFINE v == call[s].uid
  <2>1. CASE ~Stored(v)
    BY <1>1, <1>3, <2>1 DEF UpgradeFlush, Update
  <2>2. CASE Stored(v) /\ EmailTaken(v, call[s].email)
    BY <1>1, <1>3, <2>2 DEF UpgradeFlush
  <2>3. CASE Stored(v) /\ ~EmailTaken(v, call[s].email)
    <3>1. v \in Users /\ users' = [users EXCEPT ![v] = Upgraded(call[s])]
      BY <1>3, <2>3 DEF UpgradeFlush, Update, Stored
    <3>2. users'[v] = Upgraded(call[s]) /\ \A u \in Users \ {v} : users'[u] = users[u]
      BY <3>1 DEF TypeOK
    <3>3. Upgraded(call[s]).email = IF call[s].email = None THEN users[v].email ELSE call[s].email
      <4>1. users[v] \in User
        BY <3>1 DEF TypeOK
      <4> QED
        BY <4>1 DEF Upgraded, User
    <3> HIDE DEF v
    <3> QED
      BY <2>3, <3>1, <3>2, <3>3, OneWriter
  <2> QED
    BY <2>1, <2>2, <2>3
<1>4. CASE OAuthLink(s)
  <2>1. ASSUME Stored(call[s].uid)
        PROVE  [users[call[s].uid] EXCEPT
                    !.oauthLinks = call[s].loaded.oauthLinks \cup {call[s].identity}].email
                        = users[call[s].uid].email
    BY <2>1 DEF TypeOK, Stored, User
  <2> QED
    BY <1>4, <2>1, AddressQuiet DEF OAuthLink
<1>5. CASE OAuthCreate(s)
  <2> DEFINE doc == [NewUser EXCEPT !.accountType = "user", !.email = call[s].email,
                                    !.oauthLinks = {call[s].identity}]
  <2>1. doc.email = call[s].email
    BY DEF NewUser
  <2>2. PICK v \in Users : UNCHANGED users \/ (users' = [users EXCEPT ![v] = doc]
                                              /\ ~EmailTaken(v, call[s].email))
    BY <1>5 DEF OAuthCreate
  <2> HIDE DEF doc
  <2>3. CASE users' = [users EXCEPT ![v] = doc] /\ ~EmailTaken(v, call[s].email)
    <3>1. users'[v] = doc /\ \A u \in Users \ {v} : users'[u] = users[u]
      BY <2>3 DEF TypeOK
    <3> QED
      BY <2>1, <2>3, <3>1, OneWriter
  <2> QED
    BY <1>1, <2>2, <2>3
<1>6. CASE ForgotStore(s)
  <2>1. ASSUME Stored(call[s].uid)
        PROVE  [users[call[s].uid] EXCEPT !.resetPasswordToken = call[s].token].email
                    = users[call[s].uid].email
    BY <2>1 DEF TypeOK, Stored, User
  <2> QED
    BY <1>6, <2>1, AddressQuiet DEF ForgotStore
<1>7. CASE ResetApply(s)
  <2>1. ASSUME Stored(call[s].uid)
        PROVE  WithNewPassword(call[s]).email = users[call[s].uid].email
    BY <2>1 DEF TypeOK, Stored, User, WithNewPassword
  <2> QED
    BY <1>7, <2>1, AddressQuiet DEF ResetApply
<1>8. CASE DeleteScrub(s)
  <2>1. ASSUME Stored(call[s].uid)
        PROVE  Deleted(call[s]).email \in {users[call[s].uid].email, None}
    BY <2>1 DEF TypeOK, Stored, User, Deleted, Scrub
  <2> QED
    BY <1>8, <2>1, AddressQuiet DEF DeleteScrub
<1>9. CASE AutoregInsertUser(s) /\ call[s].uid \notin Users
  BY <1>1, <1>9 DEF AutoregInsertUser, TypeOK
<1> QED
  BY <1>1, <1>2, <1>3, <1>4, <1>5, <1>6, <1>7, <1>8, <1>9
     DEF Handler, AutoregFind, AutoregLinked, AutoregTouch, AutoregDropStale,
         AutoregDeviceFirst, AutoregInsertDevice, LoginFind, LoginVerify, UpgradeFind,
         UpgradeClash, UpgradeDetach, OAuthByProvider, OAuthByEmail, ForgotFind,
         ForgotMail, ResetFind, DeleteFind, DeleteStage, DeleteInsertEvent

\* The purge, and support, which revives an account with what it has left.
LEMMA OutsideAddress ==
    ASSUME TypeOK, EmailUnique, PurgeTask \/ Environment
    PROVE  EmailUnique'
<1>1. CASE UNCHANGED users
  BY <1>1 DEF EmailUnique, Stored
<1>2. ASSUME NEW v \in Users, PurgeUser(v) PROVE EmailUnique'
  <2>1. CASE Stored(v)
    <3>1. users' = [users EXCEPT ![v] = [Unborn EXCEPT !.row = "gone"]]
      BY <1>2, <2>1 DEF PurgeUser
    <3>2. users'[v].row = "gone" /\ \A u \in Users \ {v} : users'[u] = users[u]
      BY <3>1 DEF TypeOK, Unborn, NewUser
    <3> QED
      BY <3>2, OneWriter
  <2> QED
    BY <1>1, <1>2, <2>1 DEF PurgeUser
<1>3. ASSUME NEW v \in Users, NEW age \in {"no", "old"}, Stored(v),
             users' = [users EXCEPT ![v].deletedAt = age]
      PROVE  EmailUnique'
  <2>1. users'[v].email = users[v].email /\ \A u \in Users \ {v} : users'[u] = users[u]
    BY <1>3 DEF TypeOK, User
  <2> QED
    BY <1>3, <2>1, OneWriter
<1>4. CASE Age \/ Revive
  BY <1>3, <1>4 DEF Age, Revive
<1> QED
  BY <1>1, <1>2, <1>4
     DEF PurgeTask, PurgeList, PurgeDevices, Environment, Abort, PurgeSkip, Lapse, Block

\* However many handlers interleave between lookup and flush, the unique
\* index on the address leaves every address with one stored account.
THEOREM OneAccountPerAddress == Spec => []EmailUnique
<1>1. Init => EmailUnique
  <2>1. Unborn.row = "unborn"
    BY DEF Unborn, NewUser
  <2> QED
    BY <2>1 DEF Init, EmailUnique, Stored
<1>2. TypeOK /\ EmailUnique /\ [Next]_vars => EmailUnique'
  <2> SUFFICES ASSUME TypeOK, EmailUnique, [Next]_vars PROVE EmailUnique'
    OBVIOUS
  <2>1. CASE UNCHANGED vars
    BY <2>1 DEF vars, EmailUnique, Stored
  <2> QED
    BY <2>1, HandlerAddress, OutsideAddress DEF Next
<1> QED
  BY <1>1, <1>2, TypeCorrect, PTL DEF Spec
=============================================================================
