--------------------------- MODULE CredentialProofs ---------------------------
(* What the handlers of Accounts do to each other's credentials: reset     *)
(* links, passwords, addresses, identities, and the sessions of a device,  *)
(* with no limit on what runs beside what.  The first half says once, for  *)
(* every handler, what it writes and which call it leaves behind; the      *)
(* theorems about Overlaps rest on that alone.                             *)
EXTENDS Overlaps, DeviceProofs

----------------------------------------------------------------------------
(* The writes. users'[u] against users[u], field by field.                 *)

\* createAutoregUser and findOrCreateOAuthUser insert a document.
ByAutoreg(s, u) ==
    /\ call[s].pc \in {"insert", "insertUser"} /\ users[u].row = "unborn" /\ users'[u] = NewUser

ByCreate(s, u) ==
    /\ call[s].pc = "create" /\ Fresh(u) /\ users[u].row = "unborn" /\ users'[u].row = "stored"
    /\ users'[u].accountType = "user" /\ users'[u].email = call[s].email
    /\ users'[u].passwordHash = None /\ users'[u].oauthLinks = {call[s].identity}
    /\ users'[u].tokenVersion = 0 /\ users'[u].resetPasswordToken = None
    /\ users'[u].deletedAt = "no"

\* The others flush fields into the document at hand.
Into(s, u) == Stored(u) /\ u = call[s].uid /\ users'[u].row = "stored"

ByUpgrade(s, u) ==
    /\ call[s].pc = "hash" /\ Into(s, u)
    /\ users'[u].accountType = "user"
    /\ users'[u].email = IF call[s].email = None THEN users[u].email ELSE call[s].email
    /\ users'[u].passwordHash =
            IF call[s].identity = None THEN call[s].password ELSE users[u].passwordHash
    /\ users'[u].oauthLinks =
            IF call[s].identity = None THEN users[u].oauthLinks
            ELSE call[s].loaded.oauthLinks \cup {call[s].identity}
    /\ users'[u].tokenVersion = call[s].loaded.tokenVersion + 1
    /\ users'[u].resetPasswordToken = users[u].resetPasswordToken
    /\ users'[u].deletedAt = users[u].deletedAt

ByLink(s, u) ==
    /\ call[s].pc = "link" /\ Into(s, u)
    /\ users'[u].accountType = users[u].accountType /\ users'[u].email = users[u].email
    /\ users'[u].passwordHash = users[u].passwordHash
    /\ users'[u].oauthLinks = call[s].loaded.oauthLinks \cup {call[s].identity}
    /\ users'[u].tokenVersion = users[u].tokenVersion
    /\ users'[u].resetPasswordToken = users[u].resetPasswordToken
    /\ users'[u].deletedAt = users[u].deletedAt

ByForgot(s, u) ==
    /\ call[s].pc = "store" /\ Into(s, u)
    /\ users'[u].accountType = users[u].accountType /\ users'[u].email = users[u].email
    /\ users'[u].passwordHash = users[u].passwordHash
    /\ users'[u].oauthLinks = users[u].oauthLinks
    /\ users'[u].tokenVersion = users[u].tokenVersion
    /\ users'[u].resetPasswordToken = call[s].token
    /\ users'[u].deletedAt = users[u].deletedAt

ByReset(s, u) ==
    /\ call[s].pc = "apply" /\ Into(s, u)
    /\ users'[u].accountType = users[u].accountType /\ users'[u].email = users[u].email
    /\ users'[u].passwordHash = call[s].password
    /\ users'[u].oauthLinks = users[u].oauthLinks
    /\ users'[u].tokenVersion = call[s].loaded.tokenVersion + 1
    /\ users'[u].resetPasswordToken = None
    /\ users'[u].deletedAt = users[u].deletedAt

ByDelete(s, u) ==
    /\ call[s].pc = "scrub" /\ Into(s, u)
    /\ users'[u].accountType = users[u].accountType
    /\ users'[u].email = Scrub(users[u].email, call[s].loaded.email)
    /\ users'[u].passwordHash = Scrub(users[u].passwordHash, call[s].loaded.passwordHash)
    /\ users'[u].oauthLinks = users[u].oauthLinks
    /\ users'[u].tokenVersion = call[s].loaded.tokenVersion + 1
    /\ users'[u].resetPasswordToken =
            Scrub(users[u].resetPasswordToken, call[s].loaded.resetPasswordToken)
    /\ users'[u].deletedAt = "recent"

Writes(s, u) ==
    \/ users'[u] = users[u]
    \/ ByAutoreg(s, u) \/ ByCreate(s, u)
    \/ ByUpgrade(s, u) \/ ByLink(s, u) \/ ByForgot(s, u) \/ ByReset(s, u) \/ ByDelete(s, u)

\* A flush by _id changes one document at most.
LEMMA FlushWrites ==
    ASSUME TypeOK, NEW v, NEW doc, Update(v, doc)
    PROVE  \A u \in Users : users'[u] = users[u] \/ (u = v /\ Stored(u) /\ users'[u] = doc)
BY DEF TypeOK, Update, Stored

\* What upgradeAccount flushes.
LEMMA UpgradedBy ==
    ASSUME TypeOK, NEW s \in Slots, At(s, "hash"), NEW u \in Users, u = call[s].uid, Stored(u),
           users'[u] = Upgraded(call[s])
    PROVE  ByUpgrade(s, u)
<1>0. users[u] \in User
  BY DEF TypeOK
<1> DEFINE now == [users[u] EXCEPT !.accountType = "user",
                      !.tokenVersion = call[s].loaded.tokenVersion + 1,
                      !.email = IF call[s].email = None THEN @ ELSE call[s].email]
<1>1. /\ now.row = users[u].row /\ now.accountType = "user"
      /\ now.email = IF call[s].email = None THEN users[u].email ELSE call[s].email
      /\ now.passwordHash = users[u].passwordHash /\ now.oauthLinks = users[u].oauthLinks
      /\ now.tokenVersion = call[s].loaded.tokenVersion + 1
      /\ now.resetPasswordToken = users[u].resetPasswordToken
      /\ now.deletedAt = users[u].deletedAt
  BY <1>0 DEF User
<1>2. DOMAIN now = DOMAIN users[u]
  OBVIOUS
<1>3. /\ "passwordHash" \in DOMAIN users[u] /\ "oauthLinks" \in DOMAIN users[u]
  BY <1>0 DEF User
<1>4. users'[u] = IF call[s].identity = None
                  THEN [now EXCEPT !.passwordHash = call[s].password]
                  ELSE [now EXCEPT !.oauthLinks = call[s].loaded.oauthLinks \cup {call[s].identity}]
  BY DEF Upgraded
<1> HIDE DEF now
<1>5. CASE call[s].identity = None
  <2>1. users'[u] = [now EXCEPT !.passwordHash = call[s].password]
    BY <1>4, <1>5
  <2> QED
    BY <1>1, <1>2, <1>3, <1>5, <2>1 DEF ByUpgrade, Into, At, Stored
<1>6. CASE call[s].identity # None
  <2>1. users'[u] = [now EXCEPT !.oauthLinks = call[s].loaded.oauthLinks \cup {call[s].identity}]
    BY <1>4, <1>6
  <2> QED
    BY <1>1, <1>2, <1>3, <1>6, <2>1 DEF ByUpgrade, Into, At, Stored
<1> QED
  BY <1>5, <1>6

\* Every handler writes as listed.
LEMMA HandlerWrites ==
    ASSUME OInv, NEW s \in Slots, Handler(s)
    PROVE  \A u \in Users : Writes(s, u)
<1>t. TypeOK
  BY DEF OInv
<1>0. \A u \in Users : users[u] \in User
  BY <1>t DEF TypeOK
<1>1. CASE UNCHANGED users
  BY <1>1 DEF Writes
<1>2. CASE AutoregUserFirst(s) \/ AutoregInsertUser(s)
  <2>1. PICK v \in Users : users[v].row = "unborn" /\ users' = [users EXCEPT ![v] = NewUser]
    BY <1>2 DEF AutoregUserFirst, Fresh, AutoregInsertUser, At, OInv, Reserved, Born
  <2>2. \A u \in Users : users'[u] = IF u = v THEN NewUser ELSE users[u]
    BY <1>t, <2>1 DEF TypeOK
  <2>3. call[s].pc \in {"insert", "insertUser"}
    BY <1>2 DEF AutoregUserFirst, AutoregInsertUser, At
  <2> QED
    BY <2>1, <2>2, <2>3 DEF Writes, ByAutoreg
<1>3. CASE OAuthCreate(s)
  <2>1. PICK doc : doc = [NewUser EXCEPT !.accountType = "user", !.email = call[s].email,
                                         !.oauthLinks = {call[s].identity}]
    OBVIOUS
  <2>2. PICK v \in Users : /\ users[v].row = "unborn" /\ Fresh(v)
                           /\ UNCHANGED users \/ users' = [users EXCEPT ![v] = doc]
    BY <1>3, <2>1 DEF OAuthCreate, Fresh
  <2>3. /\ doc.row = "stored" /\ doc.accountType = "user" /\ doc.email = call[s].email
        /\ doc.passwordHash = None /\ doc.oauthLinks = {call[s].identity}
        /\ doc.tokenVersion = 0 /\ doc.resetPasswordToken = None /\ doc.deletedAt = "no"
    BY <2>1 DEF NewUser
  <2>4. CASE users' = [users EXCEPT ![v] = doc]
    <3>1. \A u \in Users : users'[u] = IF u = v THEN doc ELSE users[u]
      BY <1>t, <2>4 DEF TypeOK
    <3>2. ByCreate(s, v)
      BY <1>3, <2>2, <2>3, <3>1 DEF OAuthCreate, At, ByCreate
    <3> QED
      BY <3>1, <3>2 DEF Writes
  <2> QED
    BY <1>1, <2>2, <2>4
<1>4. CASE UpgradeFlush(s)
  <2>1. ASSUME NEW u \in Users, u = call[s].uid, Stored(u), users'[u] = Upgraded(call[s])
        PROVE  ByUpgrade(s, u)
    BY <1>t, <1>4, <2>1, UpgradedBy DEF UpgradeFlush
  <2>2. UNCHANGED users \/ Update(call[s].uid, Upgraded(call[s]))
    BY <1>4 DEF UpgradeFlush
  <2> QED
    BY <1>1, <2>1, <2>2, <1>t, FlushWrites DEF Writes
<1>5. CASE OAuthLink(s)
  <2>1. PICK doc : doc = [users[call[s].uid] EXCEPT
                             !.oauthLinks = call[s].loaded.oauthLinks \cup {call[s].identity}]
    OBVIOUS
  <2>2. Update(call[s].uid, doc)
    BY <1>5, <2>1 DEF OAuthLink
  <2>3. ASSUME NEW u \in Users, u = call[s].uid, Stored(u), users'[u] = doc PROVE ByLink(s, u)
    BY <1>0, <1>5, <2>1, <2>3 DEF User, OAuthLink, At, ByLink, Into, Stored
  <2> QED
    BY <2>2, <2>3, <1>t, FlushWrites DEF Writes
<1>6. CASE ForgotStore(s)
  <2>1. PICK doc : doc = [users[call[s].uid] EXCEPT !.resetPasswordToken = call[s].token]
    OBVIOUS
  <2>2. Update(call[s].uid, doc)
    BY <1>6, <2>1 DEF ForgotStore
  <2>3. ASSUME NEW u \in Users, u = call[s].uid, Stored(u), users'[u] = doc PROVE ByForgot(s, u)
    BY <1>0, <1>6, <2>1, <2>3 DEF User, ForgotStore, At, ByForgot, Into, Stored
  <2> QED
    BY <2>2, <2>3, <1>t, FlushWrites DEF Writes
<1>7. CASE ResetApply(s)
  <2>1. ASSUME NEW u \in Users, u = call[s].uid, Stored(u), users'[u] = WithNewPassword(call[s])
        PROVE  ByReset(s, u)
    BY <1>0, <1>7, <2>1 DEF User, ResetApply, At, ByReset, Into, Stored, WithNewPassword
  <2> QED
    BY <1>7, <2>1, <1>t, FlushWrites DEF Writes, ResetApply
<1>8. CASE DeleteScrub(s)
  <2>1. ASSUME NEW u \in Users, u = call[s].uid, Stored(u), users'[u] = Deleted(call[s])
        PROVE  ByDelete(s, u)
    BY <1>0, <1>8, <2>1 DEF User, DeleteScrub, At, ByDelete, Into, Stored, Deleted
  <2> QED
    BY <1>8, <2>1, <1>t, FlushWrites DEF Writes, DeleteScrub
<1> QED
  BY <1>1, <1>2, <1>3, <1>4, <1>5, <1>6, <1>7, <1>8
     DEF Handler, AutoregFind, AutoregLinked, AutoregTouch, AutoregDropStale,
         AutoregDeviceFirst, AutoregInsertDevice, LoginFind, LoginVerify, UpgradeFind, UpgradeClash,
         UpgradeDetach, OAuthByProvider, OAuthByEmail, ForgotFind, ForgotMail, ResetFind,
         DeleteFind, DeleteStage, DeleteInsertEvent

----------------------------------------------------------------------------
(* The awaits. What a handler knows when it gets to one: call'[s] is the   *)
(* call it leaves behind, users and devices are what its lookup saw.       *)

Starts(s, p) == call[s].pc = "idle" /\ p \in Can[s]

\* It goes on with the arguments it has.
Keeps(s) ==
    /\ call'[s].uid = call[s].uid /\ call'[s].did = call[s].did
    /\ call'[s].loaded = call[s].loaded /\ call'[s].fingerprint = call[s].fingerprint
    /\ call'[s].email = call[s].email /\ call'[s].password = call[s].password
    /\ call'[s].identity = call[s].identity /\ call'[s].token = call[s].token

\* It has just loaded an account.
Loads(s) == Active(call'[s].uid) /\ call'[s].loaded = users[call'[s].uid]

\* No live account has the identity it asks for.
Unowned(s) == \A u \in Users : Active(u) => call'[s].identity \notin users[u].oauthLinks

AutoregArrives(s) ==
    LET c == call[s]  d == call'[s]
    IN  /\ d.pc = "linked" => /\ Starts(s, "autoreg") /\ d.did \in Devices /\ Row(d.did)
                              /\ devices[d.did].fingerprint = d.fingerprint
                              /\ devices[d.did].userId = d.uid
        /\ d.pc = "touch" => /\ c.pc = "linked" /\ StillAnonymous(c.uid) /\ d.uid = c.uid
                             /\ d.fingerprint = c.fingerprint /\ d.loaded = users[c.uid]
        /\ d.pc = "dropStale" => c.pc = "linked" /\ ~StillAnonymous(c.uid) /\ Keeps(s)
        /\ d.pc = "insert" => Starts(s, "autoreg") \/ c.pc = "dropStale"
        /\ d.pc \in {"insertUser", "insertDevice"} => c.pc = "insert"

LoginArrives(s) == call'[s].pc = "verify" => Starts(s, "login") /\ Loads(s)

UpgradeArrives(s) ==
    LET c == call[s]  d == call'[s]
    IN  /\ d.pc = "clash" => Starts(s, "upgrade") /\ Loads(s)
        /\ d.pc = "hash" => /\ c.pc = "clash" /\ Keeps(s)
                            /\ Holders(c) = {} \/ c.uid \in Holders(c)
        /\ d.pc = "detach" => c.pc = "hash" /\ Keeps(s)
                              /\ (Stored(c.uid) => ByUpgrade(s, c.uid))

OAuthArrives(s) ==
    LET c == call[s]  d == call'[s]
    IN  /\ d.pc = "byEmail" => Starts(s, "oauth") /\ Unowned(s)
        /\ d.pc = "create" => \/ Starts(s, "oauth") /\ Unowned(s)
                              \/ c.pc = "byEmail" /\ Keeps(s)
        /\ d.pc = "link" => c.pc = "byEmail" /\ Loads(s) /\ d.identity = c.identity

PasswordArrives(s) ==
    LET c == call[s]  d == call'[s]
    IN  /\ d.pc = "store" => /\ Starts(s, "forgot") /\ Active(d.uid) /\ users[d.uid].email # None
                             /\ d.token \in ResetTokens /\ NewToken(d.token)
        /\ d.pc = "mail" => c.pc = "store" /\ Keeps(s)
        /\ d.pc = "apply" => /\ Starts(s, "reset") /\ Loads(s) /\ d.token \in mailed
                             /\ users[d.uid].resetPasswordToken = d.token

DeleteArrives(s) ==
    LET c == call[s]  d == call'[s]
    IN  /\ d.pc = "stage" => Starts(s, "delete") /\ Loads(s)
        /\ d.pc \in {"insertEvent", "scrub"} => c.pc \in {"stage", "insertEvent"} /\ Keeps(s)

Arrives(s) ==
    /\ AutoregArrives(s) /\ LoginArrives(s) /\ UpgradeArrives(s)
    /\ OAuthArrives(s) /\ PasswordArrives(s) /\ DeleteArrives(s)

\* The awaits each of them speaks of.
LEMMA ArrivesAtOne ==
    ASSUME NEW s \in Slots,
           \/ call'[s].pc = "idle"
           \/ call'[s].pc \in {"linked", "touch", "dropStale", "insert", "insertUser", "insertDevice"}
                /\ AutoregArrives(s)
           \/ call'[s].pc = "verify" /\ LoginArrives(s)
           \/ call'[s].pc \in {"clash", "hash", "detach"} /\ UpgradeArrives(s)
           \/ call'[s].pc \in {"byEmail", "create", "link"} /\ OAuthArrives(s)
           \/ call'[s].pc \in {"store", "mail", "apply"} /\ PasswordArrives(s)
           \/ call'[s].pc \in {"stage", "insertEvent", "scrub"} /\ DeleteArrives(s)
    PROVE  Arrives(s)
BY DEF Arrives, AutoregArrives, LoginArrives, UpgradeArrives, OAuthArrives, PasswordArrives,
       DeleteArrives

\* A handler that goes to another await keeps its arguments.
LEMMA GotoKeeps ==
    ASSUME TypeOK, NEW s \in Slots, NEW pc, Goto(s, pc)
    PROVE  call'[s].pc = pc /\ Keeps(s)
BY DEF TypeOK, Call, Goto, Keeps

\* One that ends waits nowhere.
LEMMA FinishArrives ==
    ASSUME TypeOK, NEW s \in Slots, Finish(s)
    PROVE  Arrives(s)
<1>1. call'[s].pc = "idle"
  BY DEF TypeOK, Finish, Idle
<1> QED
  BY <1>1, ArrivesAtOne

\* createAutoregUser.
LEMMA AutoregComes ==
    ASSUME TypeOK, NEW s \in Slots,
           \/ AutoregFind(s) \/ AutoregLinked(s) \/ AutoregTouch(s) \/ AutoregDropStale(s)
           \/ AutoregUserFirst(s) \/ AutoregDeviceFirst(s)
           \/ AutoregInsertUser(s) \/ AutoregInsertDevice(s)
    PROVE  Arrives(s)
<1>1. CASE AutoregFind(s)
  <2>1. PICK f \in Fingerprints :
          \/ Serve(s, "autoreg", [Idle EXCEPT !.pc = "insert", !.fingerprint = f])
          \/ \E d \in Devices : /\ Row(d) /\ devices[d].fingerprint = f
                                /\ Serve(s, "autoreg", [Idle EXCEPT !.pc = "linked", !.fingerprint = f,
                                                   !.did = d, !.uid = devices[d].userId])
    BY <1>1 DEF AutoregFind
  <2>2. CASE Serve(s, "autoreg", [Idle EXCEPT !.pc = "insert", !.fingerprint = f])
    <3>1. call'[s].pc = "insert" /\ Starts(s, "autoreg")
      BY <2>2 DEF TypeOK, Serve, Starts, Idle
    <3> QED
      BY <3>1, ArrivesAtOne DEF AutoregArrives
  <2>3. ASSUME NEW d \in Devices, Row(d), devices[d].fingerprint = f,
               Serve(s, "autoreg", [Idle EXCEPT !.pc = "linked", !.fingerprint = f,
                                                   !.did = d, !.uid = devices[d].userId])
        PROVE  Arrives(s)
    <3>1. /\ call'[s].pc = "linked" /\ call'[s].fingerprint = f /\ call'[s].did = d
          /\ call'[s].uid = devices[d].userId /\ Starts(s, "autoreg")
      BY <2>3 DEF TypeOK, Serve, Starts, Idle
    <3> QED
      BY <2>3, <3>1, ArrivesAtOne DEF AutoregArrives
  <2> QED
    BY <2>1, <2>2, <2>3
<1>2. CASE AutoregLinked(s)
  <2>1. CASE StillAnonymous(call[s].uid)
    <3>1. /\ call'[s].pc = "touch" /\ call'[s].uid = call[s].uid
          /\ call'[s].fingerprint = call[s].fingerprint /\ call'[s].loaded = users[call[s].uid]
      BY <1>2, <2>1 DEF AutoregLinked, TypeOK, Call
    <3> QED
      BY <1>2, <2>1, <3>1, ArrivesAtOne DEF AutoregLinked, At, AutoregArrives
  <2>2. CASE ~StillAnonymous(call[s].uid)
    BY <1>2, <2>2, GotoKeeps, ArrivesAtOne DEF AutoregLinked, At, AutoregArrives
  <2> QED
    BY <2>1, <2>2
<1>3. CASE AutoregDropStale(s)
  BY <1>3, GotoKeeps, ArrivesAtOne DEF AutoregDropStale, At, AutoregArrives
<1>4. CASE AutoregUserFirst(s) \/ AutoregDeviceFirst(s)
  <2>1. ASSUME NEW u \in Users, NEW pc \in {"insertDevice", "insertUser"},
               call' = [call EXCEPT ![s].pc = pc, ![s].uid = u]
        PROVE  Arrives(s)
    <3>1. call[s] \in Call /\ call'[s] = [call[s] EXCEPT !.pc = pc, !.uid = u]
      BY <2>1 DEF TypeOK
    <3>2. call'[s].pc = pc
      BY <3>1 DEF Call
    <3> QED
      BY <1>4, <3>2, ArrivesAtOne DEF AutoregUserFirst, AutoregDeviceFirst, At, AutoregArrives
  <2> QED
    BY <1>4, <2>1, FinishArrives DEF AutoregUserFirst, AutoregDeviceFirst
<1>5. CASE AutoregTouch(s) \/ AutoregInsertUser(s) \/ AutoregInsertDevice(s)
  BY <1>5, FinishArrives DEF AutoregTouch, AutoregInsertUser, AutoregInsertDevice, Reply
<1> QED
  BY <1>1, <1>2, <1>3, <1>4, <1>5

\* login and upgradeAccount.
LEMMA UpgradeComes ==
    ASSUME TypeOK, NEW s \in Slots,
           \/ LoginFind(s) \/ LoginVerify(s)
           \/ UpgradeFind(s) \/ UpgradeClash(s) \/ UpgradeFlush(s) \/ UpgradeDetach(s)
    PROVE  Arrives(s)
<1>1. CASE LoginFind(s)
  <2>1. PICK p \in Passwords, u \in Users :
          /\ Active(u)
          /\ Serve(s, "login", [Idle EXCEPT !.pc = "verify", !.uid = u, !.password = p,
                                            !.loaded = users[u]])
    BY <1>1 DEF LoginFind
  <2>2. /\ call'[s].pc = "verify" /\ call'[s].uid = u /\ call'[s].loaded = users[u]
        /\ Starts(s, "login")
    BY <2>1 DEF TypeOK, Serve, Starts, Idle
  <2> QED
    BY <2>1, <2>2, ArrivesAtOne DEF LoginArrives, Loads
<1>2. CASE UpgradeFind(s)
  <2>1. PICK u \in Users :
          /\ Active(u)
          /\ LET c == [Idle EXCEPT !.pc = "clash", !.uid = u, !.loaded = users[u]]
             IN  \/ \E e \in Emails, p \in Passwords :
                       Serve(s, "upgrade", [c EXCEPT !.email = e, !.password = p])
                 \/ \E i \in Identities, e \in Emails \cup {None} :
                       Serve(s, "upgrade", [c EXCEPT !.identity = i, !.email = e])
    BY <1>2 DEF UpgradeFind
  <2> DEFINE c == [Idle EXCEPT !.pc = "clash", !.uid = u, !.loaded = users[u]]
  <2>2. ASSUME NEW d, d.pc = "clash", d.uid = u, d.loaded = users[u], Serve(s, "upgrade", d)
        PROVE  Arrives(s)
    <3>1. /\ call'[s].pc = "clash" /\ call'[s].uid = u /\ call'[s].loaded = users[u]
          /\ Starts(s, "upgrade")
      BY <2>2 DEF TypeOK, Serve, Starts
    <3> QED
      BY <2>1, <3>1, ArrivesAtOne DEF UpgradeArrives, Loads
  <2>3. ASSUME NEW e, NEW p, NEW i
        PROVE  /\ [c EXCEPT !.email = e, !.password = p].pc = "clash"
               /\ [c EXCEPT !.email = e, !.password = p].uid = u
               /\ [c EXCEPT !.email = e, !.password = p].loaded = users[u]
               /\ [c EXCEPT !.identity = i, !.email = e].pc = "clash"
               /\ [c EXCEPT !.identity = i, !.email = e].uid = u
               /\ [c EXCEPT !.identity = i, !.email = e].loaded = users[u]
    BY DEF Idle
  <2> HIDE DEF c
  <2>4. \/ \E e \in Emails, p \in Passwords :
                Serve(s, "upgrade", [c EXCEPT !.email = e, !.password = p])
        \/ \E i \in Identities, e \in Emails \cup {None} :
                Serve(s, "upgrade", [c EXCEPT !.identity = i, !.email = e])
    BY <2>1 DEF c
  <2> QED
    BY <2>2, <2>3, <2>4
<1>3. CASE UpgradeClash(s)
  <2>1. CASE Finish(s)
    BY <2>1, FinishArrives
  <2>2. CASE Goto(s, "hash") /\ (Holders(call[s]) = {} \/ call[s].uid \in Holders(call[s]))
    BY <1>3, <2>2, GotoKeeps, ArrivesAtOne DEF UpgradeClash, At, UpgradeArrives
  <2> QED
    BY <1>3, <2>1, <2>2 DEF UpgradeClash
<1>4. CASE UpgradeFlush(s)
  <2>1. CASE Finish(s)
    BY <2>1, FinishArrives
  <2>2. CASE Goto(s, "detach") /\ Update(call[s].uid, Upgraded(call[s]))
    <3>1. call'[s].pc = "detach" /\ Keeps(s)
      BY <2>2, GotoKeeps
    <3>2. ASSUME Stored(call[s].uid) PROVE ByUpgrade(s, call[s].uid)
      BY <1>4, <2>2, <3>2, UpgradedBy DEF UpgradeFlush, Update, TypeOK, Stored
    <3> QED
      BY <1>4, <3>1, <3>2, ArrivesAtOne DEF UpgradeFlush, At, UpgradeArrives
  <2> QED
    BY <1>4, <2>1, <2>2 DEF UpgradeFlush
<1>5. CASE LoginVerify(s) \/ UpgradeDetach(s)
  BY <1>5, FinishArrives DEF LoginVerify, UpgradeDetach, Reply
<1> QED
  BY <1>1, <1>2, <1>3, <1>4, <1>5

\* findOrCreateOAuthUser.
LEMMA OAuthComes ==
    ASSUME TypeOK, NEW s \in Slots,
           OAuthByProvider(s) \/ OAuthByEmail(s) \/ OAuthLink(s) \/ OAuthCreate(s)
    PROVE  Arrives(s)
<1>1. CASE OAuthByProvider(s)
  <2>1. PICK i \in Identities, e \in Emails \cup {None}, v \in BOOLEAN :
          \/ /\ {u \in Users : Active(u) /\ i \in users[u].oauthLinks} = {}
             /\ Serve(s, "oauth", [[Idle EXCEPT !.identity = i, !.email = e, !.verified = v]
                                    EXCEPT !.pc = IF v THEN "byEmail" ELSE "create"])
          \/ Finish(s)
    BY <1>1 DEF OAuthByProvider, Reply
  <2>2. PICK c : c = [[Idle EXCEPT !.identity = i, !.email = e, !.verified = v]
                        EXCEPT !.pc = IF v THEN "byEmail" ELSE "create"]
    OBVIOUS
  <2>3. c.pc \in {"byEmail", "create"} /\ c.identity = i
    BY <2>2 DEF Idle
  <2>4. ASSUME {u \in Users : Active(u) /\ i \in users[u].oauthLinks} = {}, Serve(s, "oauth", c)
        PROVE  Arrives(s)
    <3>1. call'[s] = c /\ Starts(s, "oauth")
      BY <2>4 DEF TypeOK, Serve, Starts
    <3>2. \A u \in Users : Active(u) => i \notin users[u].oauthLinks
      BY <2>4
    <3>3. Unowned(s)
      BY <2>3, <3>1, <3>2 DEF Unowned
    <3> QED
      BY <2>3, <3>1, <3>3, ArrivesAtOne DEF OAuthArrives
  <2> QED
    BY <2>1, <2>2, <2>4, FinishArrives
<1>2. CASE OAuthByEmail(s)
  <2>1. CASE Goto(s, "create")
    <3>1. call'[s].pc = "create" /\ Keeps(s)
      BY <2>1, GotoKeeps
    <3>2. call[s].pc = "byEmail"
      BY <1>2 DEF OAuthByEmail, At
    <3> QED
      BY <3>1, <3>2, ArrivesAtOne DEF OAuthArrives
  <2>2. ASSUME NEW u \in Users, Active(u),
               call' = [call EXCEPT ![s].pc = "link", ![s].uid = u, ![s].loaded = users[u]]
        PROVE  Arrives(s)
    <3>1. /\ call[s] \in Call
          /\ call'[s] = [call[s] EXCEPT !.pc = "link", !.uid = u, !.loaded = users[u]]
      BY <2>2 DEF TypeOK
    <3>2. /\ call'[s].pc = "link" /\ call'[s].uid = u /\ call'[s].loaded = users[u]
          /\ call'[s].identity = call[s].identity
      BY <3>1 DEF Call
    <3> QED
      BY <1>2, <2>2, <3>2, ArrivesAtOne DEF OAuthByEmail, At, OAuthArrives, Loads
  <2> QED
    BY <1>2, <2>1, <2>2 DEF OAuthByEmail
<1>3. CASE OAuthLink(s) \/ OAuthCreate(s)
  BY <1>3, FinishArrives DEF OAuthLink, OAuthCreate, Reply
<1> QED
  BY <1>1, <1>2, <1>3

\* forgotPassword and resetPassword.
LEMMA PasswordComes ==
    ASSUME TypeOK, NEW s \in Slots,
           \/ ForgotFind(s) \/ ForgotStore(s) \/ ForgotMail(s)
           \/ ResetFind(s) \/ ResetApply(s)
    PROVE  Arrives(s)
<1>1. CASE ForgotFind(s)
  <2>1. PICK u \in Users, t \in ResetTokens :
          /\ Active(u) /\ users[u].email # None
          /\ NewToken(t)
          /\ Serve(s, "forgot", [Idle EXCEPT !.pc = "store", !.uid = u, !.token = t,
                                            !.loaded = users[u]])
    BY <1>1 DEF ForgotFind
  <2>2. /\ call'[s].pc = "store" /\ call'[s].uid = u /\ call'[s].token = t
        /\ Starts(s, "forgot")
    BY <2>1 DEF TypeOK, Serve, Starts, Idle
  <2> QED
    BY <2>1, <2>2, ArrivesAtOne DEF PasswordArrives
<1>2. CASE ResetFind(s)
  <2>1. PICK u \in Users, t \in mailed, p \in Passwords :
          /\ Active(u) /\ users[u].resetPasswordToken = t
          /\ Serve(s, "reset", [Idle EXCEPT !.pc = "apply", !.uid = u, !.token = t,
                                            !.password = p, !.loaded = users[u]])
    BY <1>2 DEF ResetFind, Matches
  <2>2. /\ call'[s].pc = "apply" /\ call'[s].uid = u /\ call'[s].token = t
        /\ call'[s].loaded = users[u] /\ Starts(s, "reset")
    BY <2>1 DEF TypeOK, Serve, Starts, Idle
  <2> QED
    BY <2>1, <2>2, ArrivesAtOne DEF PasswordArrives, Loads
<1>3. CASE ForgotStore(s)
  BY <1>3, GotoKeeps, ArrivesAtOne DEF ForgotStore, At, PasswordArrives
<1>4. CASE ForgotMail(s) \/ ResetApply(s)
  BY <1>4, FinishArrives DEF ForgotMail, ResetApply
<1> QED
  BY <1>1, <1>2, <1>3, <1>4

\* deleteUser.
LEMMA DeleteComes ==
    ASSUME TypeOK, NEW s \in Slots,
           DeleteFind(s) \/ DeleteStage(s) \/ DeleteInsertEvent(s) \/ DeleteScrub(s)
    PROVE  Arrives(s)
<1>1. CASE DeleteFind(s)
  <2>1. PICK u \in Users :
          /\ Active(u)
          /\ Serve(s, "delete", [Idle EXCEPT !.pc = "stage", !.uid = u, !.loaded = users[u]])
    BY <1>1 DEF DeleteFind
  <2>2. /\ call'[s].pc = "stage" /\ call'[s].uid = u /\ call'[s].loaded = users[u]
        /\ Starts(s, "delete")
    BY <2>1 DEF TypeOK, Serve, Starts, Idle
  <2> QED
    BY <2>1, <2>2, ArrivesAtOne DEF DeleteArrives, Loads
<1>2. CASE DeleteStage(s)
  BY <1>2, GotoKeeps, ArrivesAtOne DEF DeleteStage, At, DeleteArrives
<1>3. CASE DeleteInsertEvent(s)
  BY <1>3, GotoKeeps, FinishArrives, ArrivesAtOne DEF DeleteInsertEvent, At, DeleteArrives
<1>4. CASE DeleteScrub(s)
  BY <1>4, FinishArrives DEF DeleteScrub
<1> QED
  BY <1>1, <1>2, <1>3, <1>4

----------------------------------------------------------------------------
(* The rest: other calls, sessions, mails, devices.                        *)

\* A handler is alone on its call.
Others(s) == \A r \in Slots \ {s} : call'[r] = call[r]

\* Which sessions a reply hands out.
Grants(s) ==
    \A g \in grants' : g \in grants \/
        \/ g.via \in {"upgrade", "oauth"}
        \/ /\ g.via = "password" /\ call[s].pc = "verify" /\ g.uid = call[s].uid
           /\ g.tv = call[s].loaded.tokenVersion
           /\ g.cred = call[s].loaded.passwordHash
        \/ /\ g.via = "device" /\ g.uid = call[s].uid
           /\ \/ call[s].pc = "touch" /\ g.tv = call[s].loaded.tokenVersion
              \/ call[s].pc = "insertDevice" /\ g.tv = 0
              \/ call[s].pc = "insertUser" /\ g.tv = 0 /\ users'[g.uid] = NewUser

\* forgotPassword may mail the link; resetPassword uses it up if the account
\* is there.
Mails(s) ==
    /\ mailed' = mailed \/ (call[s].pc = "mail" /\ mailed' = mailed \cup {call[s].token})
    /\ spent' = IF call[s].pc = "apply" /\ Stored(call[s].uid)
                THEN [spent EXCEPT ![call[s].token] = @ + 1] ELSE spent
    /\ call[s].pc = "apply" /\ Stored(call[s].uid) => ByReset(s, call[s].uid)

\* Which devices a handler inserts or deletes.
Attaches(s) ==
    \A d \in Devices :
        \/ devices'[d] = devices[d]
        \/ /\ Row(d) /\ devices'[d].row = "gone"
           /\ \/ call[s].pc = "dropStale" /\ d = call[s].did
              \/ call[s].pc = "detach" /\ devices[d].userId = call[s].uid
        \/ /\ devices[d].row = "unborn"
           /\ \/ call[s].pc = "insertDevice" /\ devices'[d].userId = call[s].uid
              \/ call[s].pc = "insert" /\ users'[devices'[d].userId].row = "unborn"

\* A handler writes one account at most between two awaits.
OneWrite ==
    \A u \in Users, v \in Users : users'[u] # users[u] /\ users'[v] # users[v] => u = v

\* All that a handler may do.
Acts(s) ==
    /\ Others(s) /\ Arrives(s) /\ Grants(s) /\ Mails(s) /\ Attaches(s) /\ OneWrite
    /\ \A u \in Users : Writes(s, u)

\* Handlers do not touch each other's calls.
LEMMA HandlerOthers ==
    ASSUME TypeOK, NEW s \in Slots, Handler(s)
    PROVE  Others(s)
<1>1. ASSUME NEW c, call' = [call EXCEPT ![s] = c] PROVE Others(s)
  BY <1>1 DEF TypeOK, Others
<1>2. ASSUME NEW p, NEW c, Serve(s, p, c) PROVE Others(s)
  BY <1>1, <1>2 DEF Serve
<1>3. ASSUME NEW pc, Goto(s, pc) PROVE Others(s)
  BY <1>3 DEF TypeOK, Goto, Others
<1>4. CASE Finish(s)
  BY <1>1, <1>4 DEF Finish
<1>5. CASE AutoregFind(s) \/ AutoregLinked(s) \/ AutoregTouch(s) \/ AutoregDropStale(s)
           \/ AutoregUserFirst(s) \/ AutoregDeviceFirst(s)
           \/ AutoregInsertUser(s) \/ AutoregInsertDevice(s)
  <2>1. CASE AutoregFind(s)
    BY <1>2, <2>1 DEF AutoregFind
  <2>2. CASE AutoregLinked(s)
    BY <1>1, <1>3, <2>2 DEF AutoregLinked
  <2>3. CASE AutoregUserFirst(s) \/ AutoregDeviceFirst(s)
    BY <1>1, <1>4, <2>3 DEF AutoregUserFirst, AutoregDeviceFirst
  <2> QED
    BY <1>3, <1>4, <1>5, <2>1, <2>2, <2>3
       DEF AutoregTouch, AutoregDropStale, AutoregInsertUser, AutoregInsertDevice, Reply
<1>6. CASE LoginFind(s) \/ LoginVerify(s)
  BY <1>2, <1>4, <1>6 DEF LoginFind, LoginVerify, Reply
<1>7. CASE UpgradeFind(s) \/ UpgradeClash(s) \/ UpgradeFlush(s) \/ UpgradeDetach(s)
  <2>1. CASE UpgradeFind(s)
    BY <1>2, <2>1 DEF UpgradeFind
  <2> QED
    BY <1>3, <1>4, <1>7, <2>1 DEF UpgradeClash, UpgradeFlush, UpgradeDetach, Reply
<1>8. CASE OAuthByProvider(s) \/ OAuthByEmail(s) \/ OAuthLink(s) \/ OAuthCreate(s)
  <2>1. CASE OAuthByProvider(s)
    BY <1>2, <1>4, <2>1 DEF OAuthByProvider, Reply
  <2>2. CASE OAuthByEmail(s)
    BY <1>1, <1>3, <2>2 DEF OAuthByEmail
  <2> QED
    BY <1>4, <1>8, <2>1, <2>2 DEF OAuthLink, OAuthCreate, Reply
<1>9. CASE ForgotFind(s) \/ ForgotStore(s) \/ ForgotMail(s) \/ ResetFind(s) \/ ResetApply(s)
  BY <1>2, <1>3, <1>4, <1>9 DEF ForgotFind, ForgotStore, ForgotMail, ResetFind, ResetApply
<1>10. CASE DeleteFind(s) \/ DeleteStage(s) \/ DeleteInsertEvent(s) \/ DeleteScrub(s)
  BY <1>2, <1>3, <1>4, <1>10 DEF DeleteFind, DeleteStage, DeleteInsertEvent, DeleteScrub
<1> QED
  BY <1>5, <1>6, <1>7, <1>8, <1>9, <1>10 DEF Handler

\* Sessions come from the replies.
LEMMA HandlerGrants ==
    ASSUME OInv, NEW s \in Slots, Handler(s)
    PROVE  Grants(s)
<1>1. CASE UNCHANGED grants
  BY <1>1 DEF Grants
<1>2. ASSUME NEW via, NEW u, NEW tv, NEW cred, Reply(s, via, u, tv, cred)
      PROVE  \A g \in grants' : g \in grants
                \/ (g.via = via /\ g.uid = u /\ g.tv = tv /\ g.cred = cred)
  BY <1>2 DEF Reply
<1>3. CASE AutoregTouch(s)
  BY <1>2, <1>3 DEF AutoregTouch, At, Grants
<1>4. CASE AutoregInsertDevice(s)
  BY <1>1, <1>2, <1>4 DEF AutoregInsertDevice, At, Grants
<1>10. CASE AutoregInsertUser(s)
  <2>1. call[s].uid \in Users /\ users' = [users EXCEPT ![call[s].uid] = NewUser]
    BY <1>10 DEF AutoregInsertUser, At, OInv, Reserved
  <2>2. users'[call[s].uid] = NewUser
    BY <2>1 DEF OInv, TypeOK
  <2> QED
    BY <1>2, <1>10, <2>2 DEF AutoregInsertUser, At, Grants
<1>5. CASE LoginVerify(s)
  BY <1>1, <1>2, <1>5 DEF LoginVerify, At, Grants
<1>6. CASE UpgradeDetach(s)
  BY <1>2, <1>6 DEF UpgradeDetach, Grants
<1>7. CASE OAuthByProvider(s)
  BY <1>1, <1>2, <1>7 DEF OAuthByProvider, Grants
<1>8. CASE OAuthLink(s)
  BY <1>2, <1>8 DEF OAuthLink, Grants
<1>9. CASE OAuthCreate(s)
  BY <1>1, <1>2, <1>9 DEF OAuthCreate, Grants
<1> QED
  BY <1>1, <1>3, <1>4, <1>5, <1>6, <1>7, <1>8, <1>9, <1>10
     DEF Handler, AutoregFind, AutoregLinked, AutoregDropStale, AutoregUserFirst,
         AutoregDeviceFirst, LoginFind, UpgradeFind, UpgradeClash, UpgradeFlush, OAuthByEmail,
         ForgotFind, ForgotStore, ForgotMail, ResetFind, ResetApply, DeleteFind, DeleteStage, DeleteInsertEvent, DeleteScrub

\* What resetPassword flushes.
LEMMA ResetBy ==
    ASSUME TypeOK, NEW s \in Slots, At(s, "apply"), NEW u \in Users, u = call[s].uid, Stored(u),
           users'[u] = WithNewPassword(call[s])
    PROVE  ByReset(s, u)
<1>1. users[u] \in User
  BY DEF TypeOK
<1> QED
  BY <1>1 DEF User, At, ByReset, Into, Stored, WithNewPassword

\* Only forgotPassword mails a link and only resetPassword uses one up.
LEMMA HandlerMails ==
    ASSUME TypeOK, NEW s \in Slots, Handler(s)
    PROVE  Mails(s)
<1>1. CASE ForgotStore(s) \/ ForgotMail(s)
  BY <1>1 DEF ForgotStore, ForgotMail, At, Mails
<1>2. CASE ResetApply(s)
  <2>1. ASSUME Stored(call[s].uid) PROVE ByReset(s, call[s].uid)
    BY <1>2, <2>1, ResetBy DEF ResetApply, Update, TypeOK, Stored
  <2> QED
    BY <1>2, <2>1 DEF ResetApply, At, Mails
<1>3. CASE UNCHANGED <<mailed, spent>> /\ call[s].pc # "apply"
  BY <1>3 DEF Mails
<1>4. CASE \/ AutoregFind(s) \/ AutoregLinked(s) \/ AutoregTouch(s) \/ AutoregDropStale(s)
           \/ AutoregUserFirst(s) \/ AutoregDeviceFirst(s)
           \/ AutoregInsertUser(s) \/ AutoregInsertDevice(s)
  BY <1>3, <1>4 DEF AutoregFind, AutoregLinked, AutoregTouch, AutoregDropStale, AutoregUserFirst,
      AutoregDeviceFirst, AutoregInsertUser, AutoregInsertDevice, At, Serve
<1>5. CASE LoginFind(s) \/ LoginVerify(s) \/ UpgradeFind(s) \/ UpgradeClash(s) \/ UpgradeFlush(s)
           \/ UpgradeDetach(s)
  <2>1. CASE UpgradeFind(s)
    BY <1>3, <2>1 DEF UpgradeFind, Serve
  <2> QED
    BY <1>3, <1>5, <2>1 DEF LoginFind, LoginVerify, UpgradeClash, UpgradeFlush, UpgradeDetach, At, Serve
<1>6. CASE OAuthByProvider(s) \/ OAuthByEmail(s) \/ OAuthLink(s) \/ OAuthCreate(s)
  BY <1>3, <1>6 DEF OAuthByProvider, OAuthByEmail, OAuthLink, OAuthCreate, At, Serve
<1>7. CASE ForgotFind(s) \/ ResetFind(s)
  BY <1>3, <1>7 DEF ForgotFind, ResetFind, Serve
<1>8. CASE DeleteFind(s) \/ DeleteStage(s) \/ DeleteInsertEvent(s) \/ DeleteScrub(s)
  BY <1>3, <1>8 DEF DeleteFind, DeleteStage, DeleteInsertEvent, DeleteScrub, At, Serve
<1> QED
  BY <1>1, <1>2, <1>4, <1>5, <1>6, <1>7, <1>8 DEF Handler

\* Only createAutoregUser attaches a device; it and upgradeAccount detach some.
LEMMA HandlerAttaches ==
    ASSUME OInv, NEW s \in Slots, Handler(s)
    PROVE  Attaches(s)
<1>1. CASE UNCHANGED devices
  BY <1>1 DEF Attaches
<1>2. [NoDevice EXCEPT !.row = "gone"].row = "gone"
  BY DEF NoDevice
<1>3. CASE AutoregDropStale(s)
  BY <1>2, <1>3 DEF AutoregDropStale, At, DropDevices, Row, Attaches
<1>4. CASE UpgradeDetach(s)
  BY <1>2, <1>4 DEF UpgradeDetach, At, DropDevices, DevicesOf, Row, Attaches
<1>5. CASE AutoregInsertDevice(s)
  <2>1. CASE UNCHANGED devices
    BY <1>1, <2>1
  <2>2. CASE ~UNCHANGED devices
    <3>1. PICK d \in Devices :
            /\ devices[d].row = "unborn"
            /\ devices' = [devices EXCEPT ![d] = NewDevice(call[s].fingerprint, call[s].uid)]
      BY <1>5, <2>2 DEF AutoregInsertDevice
    <3>2. /\ devices'[d].userId = call[s].uid
          /\ \A e \in Devices \ {d} : devices'[e] = devices[e]
      BY <3>1 DEF NewDevice, OInv, TypeOK
    <3> QED
      BY <1>5, <3>1, <3>2 DEF AutoregInsertDevice, At, Attaches
  <2> QED
    BY <2>1, <2>2
<1>6. CASE AutoregDeviceFirst(s)
  <2>1. CASE UNCHANGED devices
    BY <1>1, <2>1
  <2>2. CASE ~UNCHANGED devices
    <3>1. PICK u \in Users, d \in Devices :
            /\ Fresh(u) /\ devices[d].row = "unborn" /\ UNCHANGED users
            /\ devices' = [devices EXCEPT ![d] = NewDevice(call[s].fingerprint, u)]
      BY <1>6, <2>2 DEF AutoregDeviceFirst
    <3>2. /\ devices'[d].userId = u /\ users'[u].row = "unborn"
          /\ \A e \in Devices \ {d} : devices'[e] = devices[e]
      BY <3>1 DEF NewDevice, Fresh, OInv, TypeOK
    <3> QED
      BY <1>6, <3>1, <3>2 DEF AutoregDeviceFirst, At, Attaches
  <2> QED
    BY <2>1, <2>2
<1> QED
  BY <1>1, <1>3, <1>4, <1>5, <1>6
     DEF Handler, AutoregFind, AutoregLinked, AutoregTouch, AutoregUserFirst, AutoregInsertUser,
         LoginFind, LoginVerify, UpgradeFind, UpgradeClash, UpgradeFlush, OAuthByProvider,
         OAuthByEmail, OAuthLink, OAuthCreate, ForgotFind, ForgotStore, ForgotMail, ResetFind,
         ResetApply, DeleteFind, DeleteStage, DeleteInsertEvent, DeleteScrub

\* Its writes are one by one.
LEMMA HandlerOneWrite ==
    ASSUME TypeOK, NEW s \in Slots, Handler(s)
    PROVE  OneWrite
<1>1. CASE UNCHANGED users
  BY <1>1 DEF OneWrite
<1>2. ASSUME NEW w, NEW doc, users' = [users EXCEPT ![w] = doc] PROVE OneWrite
  BY <1>2 DEF TypeOK, OneWrite
<1>3. ASSUME NEW w, NEW doc, Update(w, doc) PROVE OneWrite
  BY <1>1, <1>2, <1>3 DEF Update
<1>4. CASE AutoregUserFirst(s) \/ AutoregInsertUser(s)
  BY <1>2, <1>4 DEF AutoregUserFirst, AutoregInsertUser
<1>5. CASE UpgradeFlush(s)
  BY <1>1, <1>3, <1>5 DEF UpgradeFlush
<1>6. CASE OAuthLink(s)
  BY <1>3, <1>6 DEF OAuthLink
<1>7. CASE OAuthCreate(s)
  BY <1>1, <1>2, <1>7 DEF OAuthCreate
<1>8. CASE ForgotStore(s)
  BY <1>3, <1>8 DEF ForgotStore
<1>9. CASE ResetApply(s)
  BY <1>3, <1>9 DEF ResetApply
<1>10. CASE DeleteScrub(s)
  BY <1>3, <1>10 DEF DeleteScrub
<1> QED
  BY <1>1, <1>4, <1>5, <1>6, <1>7, <1>8, <1>9, <1>10
     DEF Handler, AutoregFind, AutoregLinked, AutoregTouch, AutoregDropStale,
         AutoregDeviceFirst, AutoregInsertDevice, LoginFind, LoginVerify, UpgradeFind, UpgradeClash,
         UpgradeDetach, OAuthByProvider, OAuthByEmail, ForgotFind, ForgotMail, ResetFind,
         DeleteFind, DeleteStage, DeleteInsertEvent

\* Every handler keeps to all of it.
LEMMA HandlerActs ==
    ASSUME OInv, NEW s \in Slots, Handler(s)
    PROVE  Acts(s)
<1>0. TypeOK
  BY DEF OInv
<1>1. Arrives(s)
  BY <1>0, AutoregComes, UpgradeComes, OAuthComes, PasswordComes, DeleteComes DEF Handler
<1> QED
  BY <1>0, <1>1, HandlerOthers, HandlerGrants, HandlerMails, HandlerAttaches, HandlerOneWrite,
     HandlerWrites DEF Acts

----------------------------------------------------------------------------
(* The steps that no handler takes.                                        *)

\* The grace window ends, or support revives the account inside it.
Redated(u) ==
    /\ Stored(u) /\ Stored(u)' /\ users[u].deletedAt = "recent"
    /\ \/ users'[u].deletedAt = "old"
       \/ users'[u].deletedAt = "no" /\ "revive" \in External
    /\ users'[u].accountType = users[u].accountType /\ users'[u].email = users[u].email
    /\ users'[u].passwordHash = users[u].passwordHash
    /\ users'[u].oauthLinks = users[u].oauthLinks
    /\ users'[u].tokenVersion = users[u].tokenVersion
    /\ users'[u].resetPasswordToken = users[u].resetPasswordToken

Wiped(u) == Stored(u) /\ users'[u].row = "gone" /\ users[u].deletedAt = "old"

Outside ==
    /\ \A s \in Slots : call'[s] = call[s] \/ call'[s].pc = "idle"
    /\ UNCHANGED <<grants, mailed, spent>>
    /\ \A u \in Users : users'[u] = users[u] \/ Redated(u) \/ Wiped(u)
    /\ \A d \in Devices :
        \/ /\ devices'[d].row = devices[d].row /\ devices'[d].userId = devices[d].userId
           /\ devices'[d].fingerprint = devices[d].fingerprint
        \/ /\ Row(d) /\ devices'[d].row = "gone" /\ devices[d].userId \in Users
           /\ users[devices[d].userId].deletedAt = "old"

\* The purge, the clock, the operator, a handler that dies.
LEMMA OutsideActs ==
    ASSUME OInv, GInv, PurgeTask \/ Environment \/ UNCHANGED vars
    PROVE  Outside
<1>1. TypeOK /\ (\A u \in Users : users[u] \in User) /\ Idle.pc = "idle"
  BY DEF OInv, TypeOK, Idle
<1>2. CASE UNCHANGED <<users, call, devices, grants, mailed, spent>>
  BY <1>2 DEF Outside
<1>3. ASSUME NEW u \in Users, PurgeDevices(u) PROVE Outside
  <2>1. users[u].deletedAt = "old"
    BY <1>3 DEF PurgeDevices, GInv
  <2>2. \A d \in Devices : devices'[d] = devices[d]
            \/ (Row(d) /\ devices[d].userId = u /\ devices'[d].row = "gone")
    BY <1>3 DEF PurgeDevices, DropDevices, DevicesOf, NoDevice
  <2> QED
    BY <1>3, <2>1, <2>2 DEF PurgeDevices, Outside, Row
<1>4. ASSUME NEW u \in Users, PurgeUser(u) PROVE Outside
  <2>1. users[u].deletedAt = "old"
    BY <1>4, NoneAssumption DEF PurgeUser, OInv, HalfBare, GInv
  <2>2. [Unborn EXCEPT !.row = "gone"].row = "gone"
    BY DEF Unborn, NewUser
  <2>3. \A v \in Users : users'[v] = users[v] \/ (v = u /\ Stored(u) /\ users'[u].row = "gone")
    BY <1>1, <1>4, <2>2 DEF PurgeUser, TypeOK
  <2> QED
    BY <1>4, <2>1, <2>3 DEF PurgeUser, Outside, Wiped
<1>5. CASE Age \/ Revive
  <2>1. PICK u \in Users, age \in {"old", "no"} :
          /\ Stored(u) /\ users[u].deletedAt = "recent"
          /\ age = "no" => "revive" \in External
          /\ users' = [users EXCEPT ![u].deletedAt = age]
    BY <1>5 DEF Age, Revive
  <2>2. /\ users'[u] = [users[u] EXCEPT !.deletedAt = age]
        /\ \A v \in Users \ {u} : users'[v] = users[v]
    BY <1>1, <2>1 DEF TypeOK
  <2>3. Redated(u)
    BY <1>1, <2>1, <2>2 DEF User, Redated, Stored
  <2> QED
    BY <1>5, <2>2, <2>3 DEF Age, Revive, Outside
<1>6. ASSUME NEW s \in Slots, Abort(s) PROVE Outside
  <2>1. \A r \in Slots : call'[r] = call[r] \/ call'[r].pc = "idle"
    BY <1>1, <1>6 DEF Abort, Finish, TypeOK
  <2> QED
    BY <1>6, <2>1 DEF Abort, Outside
<1>7. CASE Block
  <2>1. PICK b \in Devices : devices' = [devices EXCEPT ![b].isBlocked = TRUE]
    BY <1>7 DEF Block
  <2>2. \A d \in Devices : /\ devices'[d].row = devices[d].row
                           /\ devices'[d].userId = devices[d].userId
                           /\ devices'[d].fingerprint = devices[d].fingerprint
    BY <1>1, <2>1 DEF TypeOK, Device
  <2> QED
    BY <1>7, <2>2 DEF Block, Outside
<1> QED
  BY <1>2, <1>3, <1>4, <1>5, <1>6, <1>7
     DEF PurgeTask, Environment, PurgeList, PurgeSkip, Lapse, vars

----------------------------------------------------------------------------
(* The base of every invariant below.                                      *)

BInv == OInv /\ InFlight /\ GInv

\* Every step is one of a handler, or one from outside.
LEMMA EveryStep ==
    ASSUME BInv, [Next]_vars
    PROVE  Outside \/ \E s \in Slots : Acts(s)
<1>1. OInv /\ GInv
  BY DEF BInv
<1>2. ASSUME NEW s \in Slots, Handler(s) PROVE Acts(s)
  BY <1>1, <1>2, HandlerActs
<1> QED
  BY <1>1, <1>2, OutsideActs DEF Next

\* The base holds in every state.
LEMMA BaseHolds == Spec => []BInv
<1>1. Init => GInv
  BY DEF Init, Idle, GInv, Settled, Deleting
<1>2. BInv /\ [Next]_vars => BInv'
  BY OInvStep, GInvStep, InFlightStep DEF BInv, OInv
<1> QED
  BY <1>1, <1>2, OInvInit, InFlightInit, PTL DEF Spec, BInv

\* An account that was inserted is stored only if it was stored before.
LEMMA StoredBefore ==
    ASSUME NEW u \in Users, Born(u), Stored(u)', Outside \/ \E s \in Slots : Acts(s)
    PROVE  Stored(u)
<1>1. CASE Outside
  BY <1>1 DEF Outside, Stored, Redated, Wiped
<1>2. ASSUME NEW s \in Slots, Acts(s) PROVE Stored(u)
  BY <1>2 DEF Acts, Writes, ByAutoreg, ByCreate, ByUpgrade, ByLink, ByForgot, ByReset, ByDelete,
              Into, Stored, Born
<1> QED
  BY <1>1, <1>2

Writing == {"insert", "insertUser", "create", "hash", "link", "store", "apply", "scrub"}

\* A handler that is not at a write writes nothing.
LEMMA ReaderWrites ==
    ASSUME NEW s \in Slots, Acts(s), NEW u \in Users, call[s].pc \notin Writing
    PROVE  users'[u] = users[u]
BY DEF Acts, Writes, ByAutoreg, ByCreate, ByUpgrade, ByLink, ByForgot, ByReset, ByDelete, Writing

----------------------------------------------------------------------------
(* The histories. They only grow, and an overlap is in them from the step  *)
(* on that completes it.                                                   *)

Recorded ==
    /\ overtaken \subseteq overtaken' /\ crossed \subseteq crossed' /\ revived \subseteq revived'
    /\ \A u \in Users : Overtakes(u) => u \in overtaken'
    /\ \A u \in Users : Revives(u) => u \in revived'
    /\ \A i \in Identities : Crosses(i) => i \in crossed' \/ call' = call

\* The histories watch the system and do not move it.
LEMMA HistoryStep ==
    ASSUME [HNext]_hvars
    PROVE  [Next]_vars /\ Recorded
<1>1. CASE HNext
  BY <1>1 DEF HNext, Recorded
<1>2. CASE UNCHANGED hvars
  BY <1>2 DEF hvars, histories, vars, Recorded, Overtakes, Flushes, Revives
<1> QED
  BY <1>1, <1>2

\* So whatever Accounts keeps to, Overlaps keeps to.
LEMMA HistorySpec == HSpec => Spec /\ []BInv
<1>1. HInit => Init
  BY DEF HInit
<1>2. [HNext]_hvars => [Next]_vars
  BY HistoryStep
<1> QED
  BY <1>1, <1>2, BaseHolds, PTL DEF HSpec, Spec

Flushing == {"hash", "link", "store", "apply", "scrub"}

\* A handler whose flush overtakes nothing had loaded the document of today.
LEMMA LoadedIsCurrent ==
    ASSUME NEW s \in Slots, Acts(s), Recorded, NEW u \in Users, u \notin overtaken',
           call[s].pc \in Flushing, call[s].uid = u, users'[u] # users[u] \/ spent' # spent
    PROVE  call[s].loaded = users[u]
<1>1. call'[s] # call[s]
  BY DEF Flushing, Acts, Arrives, UpgradeArrives, OAuthArrives, PasswordArrives, DeleteArrives, Starts
<1> QED
  BY <1>1 DEF Recorded, Overtakes, Flushes

\* What a handler knows of the document it loaded.
LoadedInv ==
    \A s \in Slots :
        /\ call[s].pc \in {"clash", "hash"} => call[s].loaded.deletedAt = "no"
        /\ call[s].pc = "apply" => call[s].loaded.resetPasswordToken = call[s].token

\* It knows that for as long as it waits.
LEMMA LoadedHolds == Spec => []LoadedInv
<1>1. Init => LoadedInv
  <2>1. Idle.pc = "idle"
    BY DEF Idle
  <2> QED
    BY <2>1 DEF Init, LoadedInv
<1>2. BInv /\ LoadedInv /\ [Next]_vars => LoadedInv'
  <2> SUFFICES ASSUME BInv, LoadedInv, [Next]_vars PROVE LoadedInv'
    OBVIOUS
  <2>1. CASE Outside
    BY <2>1 DEF Outside, LoadedInv
  <2>2. ASSUME NEW s \in Slots, Acts(s) PROVE LoadedInv'
    <3>1. Others(s) /\ UpgradeArrives(s) /\ PasswordArrives(s)
      BY <2>2 DEF Acts, Arrives
    <3>2. call'[s].pc \in {"clash", "hash"} => call'[s].loaded.deletedAt = "no"
      BY <3>1 DEF UpgradeArrives, Loads, Active, Keeps, LoadedInv
    <3>3. call'[s].pc = "apply" => call'[s].loaded.resetPasswordToken = call'[s].token
      BY <3>1 DEF PasswordArrives, Loads
    <3> QED
      BY <3>1, <3>2, <3>3 DEF Others, LoadedInv
  <2> QED
    BY <2>1, <2>2, EveryStep
<1> QED
  BY <1>1, <1>2, BaseHolds, PTL DEF Spec

----------------------------------------------------------------------------
(* Reset links. A token is drawn once, stored in one document at most, and *)
(* whoever applies it took it from that document.                          *)

Holds(u, t) == Stored(u) /\ users[u].resetPasswordToken = t

\* The handler has drawn a token that it has not mailed yet.
Drew(s) == call[s].pc \in {"store", "mail"}

TokenInv ==
    /\ \A t \in ResetTokens \ mailed : spent[t] = 0
    /\ \A s \in Slots, r \in Slots : Drew(s) /\ Drew(r) /\ s # r => call[r].token # call[s].token
    /\ \A s \in Slots : call[s].pc = "store" =>
            call[s].token \notin mailed /\ \A u \in Users : ~Holds(u, call[s].token)
    /\ \A t \in ResetTokens, u \in Users, v \in Users : Holds(u, t) /\ Holds(v, t) => u = v
    /\ \A s \in Slots : call[s].pc = "apply" =>
            /\ call[s].token \in mailed
            /\ \A v \in Users : Holds(v, call[s].token) => v = call[s].uid

\* A document comes by a token from forgotPassword only.
LEMMA TokenMoves ==
    ASSUME NEW s \in Slots, Acts(s), NEW u \in Users, NEW t \in ResetTokens, Holds(u, t)'
    PROVE  \/ Holds(u, t) /\ ~(call[s].pc = "apply" /\ call[s].uid = u)
           \/ call[s].pc = "store" /\ call[s].token = t /\ call[s].uid = u
<1>1. NewUser.resetPasswordToken = None /\ t # None
  BY NoneAssumption DEF NewUser
<1>2. Writes(s, u) /\ (call[s].pc = "apply" /\ Stored(call[s].uid) => ByReset(s, call[s].uid))
  BY DEF Acts, Mails
<1> QED
  BY <1>1, <1>2 DEF Writes, ByAutoreg, ByCreate, ByUpgrade, ByLink, ByForgot, ByReset, ByDelete,
                    Into, Scrub, Holds, Stored

\* And loses it for good with the purge; the clock leaves it alone.
LEMMA TokenStays ==
    ASSUME Outside, NEW u \in Users, NEW t, Holds(u, t)'
    PROVE  Holds(u, t)
BY DEF Outside, Redated, Wiped, Holds, Stored

\* A handler keeps tokens apart.
LEMMA TokenHandler ==
    ASSUME BInv, TokenInv, NEW s \in Slots, Acts(s)
    PROVE  TokenInv'
<1>0. /\ mailed \subseteq ResetTokens /\ spent \in [ResetTokens -> Nat]
      /\ Others(s) /\ Mails(s) /\ PasswordArrives(s)
      /\ call[s].pc \in {"store", "mail"} => call[s].token \in ResetTokens
      /\ call[s].pc = "store" => call[s].token \notin mailed
      /\ call[s].pc = "apply" => call[s].token \in mailed
  BY DEF Acts, Arrives, BInv, OInv, TypeOK, InFlight, TokenInv
<1>1. ASSUME NEW t \in ResetTokens, t \notin mailed' PROVE spent'[t] = 0
  BY <1>0, <1>1 DEF Mails, TokenInv
<1>2. ASSUME NEW q \in Slots, NEW r \in Slots, Drew(q)', Drew(r)', q # r
      PROVE  call'[r].token # call'[q].token
  <2>1. \A p \in Slots : Drew(p)' =>
            \/ Drew(p) /\ call'[p].token = call[p].token
            \/ p = s /\ \A o \in Slots : call[o].token # call'[p].token
    BY <1>0 DEF Others, PasswordArrives, Keeps, NewToken, Drew
  <2>2. \A p \in Slots \ {s} : call'[p] = call[p]
    BY <1>0 DEF Others
  <2> QED
    BY <1>2, <2>1, <2>2 DEF TokenInv
<1>3. ASSUME NEW r \in Slots, call'[r].pc = "store"
      PROVE  call'[r].token \notin mailed' /\ \A u \in Users : ~Holds(u, call[r].token)'
  <2>1. /\ call'[r].token \in ResetTokens \ mailed
        /\ \A u \in Users : ~Holds(u, call'[r].token)
        /\ Drew(s) => call[s].token # call'[r].token
    <3>1. CASE r = s
      BY <1>0, <1>3, <3>1 DEF PasswordArrives, NewToken, Holds
    <3>2. CASE r # s
      <4>1. call'[r] = call[r] /\ call[r].token \in ResetTokens
        BY <1>0, <1>3, <3>2 DEF Others, BInv, InFlight
      <4> QED
        BY <1>3, <3>2, <4>1 DEF TokenInv, Drew
    <3> QED
      BY <3>1, <3>2
  <2>2. PICK t \in ResetTokens : t = call'[r].token
    BY <2>1
  <2>3. \A u \in Users : ~Holds(u, t)'
    BY <2>1, <2>2, TokenMoves DEF Drew
  <2>4. t \notin mailed'
    BY <1>0, <2>1, <2>2 DEF Mails, Drew
  <2> QED
    BY <2>2, <2>3, <2>4 DEF Holds
<1>4. ASSUME NEW t \in ResetTokens, NEW u \in Users, NEW v \in Users, Holds(u, t)', Holds(v, t)'
      PROVE  u = v
  <2>1. call[s].pc = "store" /\ call[s].token = t => ~Holds(u, t) /\ ~Holds(v, t)
    BY DEF TokenInv
  <2> QED
    BY <1>4, <2>1, TokenMoves DEF TokenInv
<1>5. ASSUME NEW r \in Slots, call'[r].pc = "apply"
      PROVE  /\ call'[r].token \in mailed'
             /\ \A v \in Users : Holds(v, call[r].token)' => v = call'[r].uid
  <2>1. call'[r].token \in mailed /\ mailed \subseteq mailed'
    BY <1>0, <1>5 DEF Others, PasswordArrives, Mails, TokenInv
  <2>2. \A v \in Users : Holds(v, call'[r].token) => v = call'[r].uid
    <3>1. CASE r = s
      <4>1. Holds(call'[s].uid, call'[s].token) /\ call'[s].uid \in Users
        BY <1>0, <1>5, <3>1 DEF PasswordArrives, Loads, Active, Holds, Stored
      <4> QED
        BY <1>0, <2>1, <3>1, <4>1 DEF TokenInv
    <3>2. CASE r # s
      BY <1>0, <1>5, <3>2 DEF Others, TokenInv
    <3> QED
      BY <3>1, <3>2
  <2>3. ~(call[s].pc = "store" /\ call[s].token = call'[r].token)
    BY <1>0, <2>1
  <2>4. PICK t \in ResetTokens : t = call'[r].token
    BY <1>0, <2>1
  <2>5. \A v \in Users : Holds(v, t)' => v = call'[r].uid
    BY <2>2, <2>3, <2>4, TokenMoves
  <2> QED
    BY <2>1, <2>4, <2>5 DEF Holds
<1> QED
  BY <1>1, <1>2, <1>3, <1>4, <1>5 DEF TokenInv

\* Tokens are apart in every state.
LEMMA TokenHolds == Spec => []TokenInv
<1>1. Init => TokenInv
  <2>1. Unborn.row = "unborn" /\ Idle.pc = "idle"
    BY DEF Unborn, NewUser, Idle
  <2> QED
    BY <2>1 DEF Init, TokenInv, Drew, Holds, Stored
<1>2. BInv /\ TokenInv /\ [Next]_vars => TokenInv'
  <2> SUFFICES ASSUME BInv, TokenInv, [Next]_vars PROVE TokenInv'
    OBVIOUS
  <2>1. CASE Outside
    <3>1. \A t \in ResetTokens, u \in Users : Holds(u, t)' => Holds(u, t)
      BY <2>1, TokenStays
    <3>2. \A s \in Slots : call'[s].pc = "idle" \/ call'[s] = call[s]
      BY <2>1 DEF Outside
    <3>4. \A s \in Slots, r \in Slots : Drew(s)' /\ Drew(r)' /\ s # r => call'[r].token # call'[s].token
      BY <3>2 DEF TokenInv, Drew
    <3>5. \A s \in Slots : call'[s].pc = "store" =>
              call'[s].token \notin mailed' /\ \A u \in Users : ~Holds(u, call[s].token)'
      BY <2>1, <3>2, TokenStays DEF Outside, TokenInv
    <3>6. \A s \in Slots : call'[s].pc = "apply" =>
              /\ call'[s].token \in mailed'
              /\ \A v \in Users : Holds(v, call[s].token)' => v = call'[s].uid
      BY <2>1, <3>2, TokenStays DEF Outside, TokenInv
    <3>7. \A t \in ResetTokens \ mailed' : spent'[t] = 0
      BY <2>1 DEF Outside, TokenInv
    <3>8. \A t \in ResetTokens, u \in Users, v \in Users : Holds(u, t)' /\ Holds(v, t)' => u = v
      BY <3>1 DEF TokenInv
    <3> QED
      BY <3>4, <3>5, <3>6, <3>7, <3>8 DEF TokenInv
  <2> QED
    BY <2>1, TokenHandler, EveryStep
<1> QED
  BY <1>1, <1>2, BaseHolds, PTL DEF Spec

\* A token that authorised a reset is in no document any more.
SpentInv == \A t \in ResetTokens : spent[t] = 0 \/ \A u \in Users : ~Holds(u, t)

\* And it gets into none again.
LEMMA SpentHolds == Spec => []SpentInv
<1>1. Init => SpentInv
  BY DEF Init, SpentInv
<1>2. BInv /\ TokenInv /\ SpentInv /\ [Next]_vars => SpentInv'
  <2> SUFFICES ASSUME BInv, TokenInv, SpentInv, [Next]_vars PROVE SpentInv'
    OBVIOUS
  <2>1. CASE Outside
    BY <2>1, TokenStays DEF Outside, SpentInv
  <2>2. ASSUME NEW s \in Slots, Acts(s), NEW t \in ResetTokens, spent'[t] # 0, NEW u \in Users, Holds(u, t)'
        PROVE  FALSE
    <3>1. Mails(s) /\ spent \in [ResetTokens -> Nat]
      BY <2>2 DEF Acts, BInv, OInv, TypeOK
    <3>2. CASE spent'[t] = spent[t]
      <4>1. Holds(u, t) => FALSE
        BY <2>2, <3>2 DEF SpentInv
      <4> QED
        BY <2>2, <3>2, <4>1, TokenMoves DEF TokenInv
    <3>3. CASE spent'[t] # spent[t]
      <4>1. call[s].pc = "apply" /\ call[s].token = t
        BY <3>1, <3>3 DEF Mails
      <4> QED
        BY <2>2, <4>1, TokenMoves DEF TokenInv
    <3> QED
      BY <3>2, <3>3
  <2> QED
    BY <2>1, <2>2, EveryStep DEF SpentInv
<1> QED
  BY <1>1, <1>2, BaseHolds, TokenHolds, PTL DEF Spec

\* resetPassword: no link is used twice, but by a request that had loaded its
\* account before the first use was flushed.
THEOREM ReusesAreOvertaken == HSpec => ReuseIsOvertaken
<1>1. ASSUME BInv, LoadedInv, SpentInv, [HNext]_hvars, NEW t \in ResetTokens,
             spent'[t] > spent[t], spent[t] > 0
      PROVE  \E s \in Slots : /\ call[s].pc = "apply" /\ call[s].token = t
                              /\ call[s].uid \in overtaken'
  <2>0. spent \in [ResetTokens -> Nat]
    BY <1>1 DEF BInv, OInv, TypeOK
  <2>1. [Next]_vars /\ Recorded /\ spent'[t] # spent[t] /\ spent[t] # 0
    BY <1>1, <2>0, HistoryStep
  <2>2. PICK s \in Slots : Acts(s)
    BY <1>1, <2>1, EveryStep DEF Outside
  <2>3. call[s].pc = "apply" /\ call[s].token = t /\ Stored(call[s].uid)
    BY <2>0, <2>1, <2>2 DEF Acts, Mails
  <2>4. ASSUME call[s].uid \notin overtaken' PROVE FALSE
    <3>1. call[s].loaded = users[call[s].uid]
      BY <2>1, <2>2, <2>3, <2>4, LoadedIsCurrent DEF Stored, Flushing
    <3>2. Holds(call[s].uid, t) /\ call[s].uid \in Users
      BY <1>1, <2>3, <3>1 DEF LoadedInv, Holds, Stored
    <3> QED
      BY <1>1, <2>1, <3>2 DEF SpentInv
  <2> QED
    BY <2>3, <2>4
<1>2. BInv /\ LoadedInv /\ SpentInv /\ [HNext]_hvars =>
        [\A t \in ResetTokens : spent'[t] > spent[t] /\ spent[t] > 0 =>
            \E s \in Slots : /\ call[s].pc = "apply" /\ call[s].token = t
                             /\ call[s].uid \in overtaken']_hvars
  BY <1>1
<1> QED
  BY <1>2, HistorySpec, LoadedHolds, SpentHolds, PTL DEF HSpec, ReuseIsOvertaken

\* No step breaks a working link but by using it, replacing it, deleting its
\* account or overtaking another flush.
LEMMA LinkKept ==
    ASSUME BInv, LoadedInv, TokenInv, [HNext]_hvars, NEW u \in Users, NEW t \in ResetTokens, Opens(u, t)
    PROVE  \/ users'[u].resetPasswordToken = t
           \/ spent'[t] > spent[t]
           \/ users'[u].resetPasswordToken \notin mailed \cup {None}
           \/ users'[u].deletedAt # "no"
           \/ u \in overtaken'
<1>0. /\ Stored(u) /\ users[u].deletedAt = "no" /\ users[u].resetPasswordToken = t /\ t # None
      /\ spent \in [ResetTokens -> Nat]
  BY NoneAssumption DEF Opens, Active, BInv, OInv, TypeOK
<1>1. CASE Outside
  BY <1>0, <1>1 DEF Outside, Redated, Wiped
<1>2. ASSUME NEW s \in Slots, Acts(s), users'[u].resetPasswordToken # t, u \notin overtaken'
      PROVE  \/ spent'[t] > spent[t]
             \/ users'[u].resetPasswordToken \notin mailed \cup {None}
             \/ users'[u].deletedAt # "no"
  <2>0. Writes(s, u) /\ Mails(s) /\ Recorded
    BY <1>2, HistoryStep DEF Acts
  <2>1. CASE ByForgot(s, u)
    <3>1. call[s].pc = "store" /\ users'[u].resetPasswordToken = call[s].token
      BY <2>1 DEF ByForgot
    <3>2. call[s].token \in ResetTokens \ mailed
      BY <3>1 DEF BInv, InFlight, TokenInv
    <3> QED
      BY <3>1, <3>2, NoneAssumption
  <2>2. CASE ByReset(s, u)
    <3>1. call[s].pc = "apply" /\ call[s].uid = u
      BY <2>2 DEF ByReset, Into
    <3>2. call[s].loaded = users[u]
      BY <1>0, <1>2, <2>0, <3>1, LoadedIsCurrent DEF Flushing
    <3>3. call[s].token = t
      BY <1>0, <3>1, <3>2 DEF LoadedInv
    <3>4. spent' = [spent EXCEPT ![t] = @ + 1]
      BY <1>0, <2>0, <3>1, <3>3 DEF Mails
    <3>5. spent'[t] = spent[t] + 1 /\ spent[t] \in Nat
      BY <1>0, <3>4
    <3> QED
      BY <3>5
  <2>3. CASE ByDelete(s, u)
    BY <2>3 DEF ByDelete
  <2> QED
    BY <1>0, <1>2, <2>0, <2>1, <2>2, <2>3
       DEF Writes, ByAutoreg, ByCreate, ByUpgrade, ByLink, Stored
<1> QED
  BY <1>1, <1>2, EveryStep, HistoryStep

\* forgotPassword and resetPassword, which share a field of the account: a
\* mailed link works until it is used or replaced, its account is deleted, or
\* a flush on the account overtakes another one, revivals included.
THEOREM LinksSurvive == HSpec => LinkSurvives
<1>1. BInv /\ LoadedInv /\ TokenInv /\ [HNext]_hvars =>
        [\A u \in Users, t \in ResetTokens : Opens(u, t) =>
            \/ users'[u].resetPasswordToken = t
            \/ spent'[t] > spent[t]
            \/ users'[u].resetPasswordToken \notin mailed \cup {None}
            \/ users'[u].deletedAt # "no"
            \/ u \in overtaken']_hvars
  BY LinkKept
<1> QED
  BY <1>1, HistorySpec, LoadedHolds, TokenHolds, PTL DEF HSpec, LinkSurvives

----------------------------------------------------------------------------
(* Passwords. Every write of a password raises tokenVersion, provided that *)
(* the version it raises is the one of today.                              *)

\* The session or login (tv, cred) of account u predates today's version, or
\* goes with today's password; or a flush on u overtook another one.
Covered(u, tv, cred) ==
    Stored(u) /\ u \notin overtaken =>
        /\ tv <= users[u].tokenVersion
        /\ tv = users[u].tokenVersion => users[u].passwordHash = cred

PasswordInv ==
    /\ \A s \in Slots : call[s].pc = "verify" =>
            Covered(call[s].uid, call[s].loaded.tokenVersion, call[s].loaded.passwordHash)
    /\ \A g \in grants : g.via = "password" => Covered(g.uid, g.tv, g.cred)

\* A write of the version or the password raises the version.
Raises(u) ==
    Stored(u)' => /\ Stored(u)
                  /\ \/ /\ users'[u].tokenVersion = users[u].tokenVersion
                        /\ users'[u].passwordHash = users[u].passwordHash
                     \/ users'[u].tokenVersion = users[u].tokenVersion + 1

\* So what was covered stays covered.
LEMMA CoveredStays ==
    ASSUME TypeOK, Recorded, NEW u, u \in Users => u \in overtaken' \/ Raises(u),
           NEW tv \in Nat, NEW cred, Covered(u, tv, cred)
    PROVE  Covered(u, tv, cred)'
<1>1. CASE u \in Users /\ u \notin overtaken'
  <2>1. users[u].tokenVersion \in Nat
    BY <1>1 DEF TypeOK, User
  <2> QED
    BY <1>1, <2>1 DEF Covered, Raises, Recorded
<1> QED
  BY <1>1 DEF Covered, Stored

\* The handlers raise the version they loaded, which is the one of today
\* where they overtake nothing.
LEMMA StepRaises ==
    ASSUME BInv, [HNext]_hvars, NEW u \in Users, Born(u), u \notin overtaken'
    PROVE  Raises(u)
<1>0. Recorded /\ (Outside \/ \E s \in Slots : Acts(s))
  BY HistoryStep, EveryStep
<1>1. CASE Outside
  BY <1>1 DEF Outside, Redated, Wiped, Stored, Raises
<1>2. ASSUME NEW s \in Slots, Acts(s) PROVE Raises(u)
  <2>1. Writes(s, u)
    BY <1>2 DEF Acts
  <2>2. call[s].pc \in Flushing /\ call[s].uid = u /\ users'[u] # users[u]
            => call[s].loaded = users[u]
    BY <1>0, <1>2, LoadedIsCurrent
  <2> QED
    BY <2>1, <2>2 DEF Writes, ByAutoreg, ByCreate, ByUpgrade, ByLink, ByForgot, ByReset, ByDelete,
       Into, Stored, Born, Raises, Flushing
<1> QED
  BY <1>0, <1>1, <1>2

\* Every step keeps sessions and logins covered.
LEMMA PasswordStep == BInv /\ BInv' /\ PasswordInv /\ [HNext]_hvars => PasswordInv'
<1> SUFFICES ASSUME BInv, BInv', PasswordInv, [HNext]_hvars PROVE PasswordInv'
  OBVIOUS
<1>0. /\ TypeOK /\ Recorded /\ (Outside \/ \E s \in Slots : Acts(s))
      /\ \A r \in Slots : call[r].pc = "verify" =>
            (call[r].uid \in Users => Born(call[r].uid)) /\ call[r].loaded.tokenVersion \in Nat
      /\ \A g \in grants : (g.uid \in Users => Born(g.uid)) /\ g.tv \in Nat
  BY HistoryStep, EveryStep DEF BInv, OInv, OnlyBorn, Loose, TypeOK, Call, User, Grant
<1>1. ASSUME NEW u, u \in Users => Born(u), NEW tv \in Nat, NEW cred, Covered(u, tv, cred)
      PROVE  Covered(u, tv, cred)'
  <2>1. u \in Users => u \in overtaken' \/ Raises(u)
    BY <1>1, StepRaises
  <2> QED
    BY <1>0, <1>1, <2>1, CoveredStays
<1>2. ASSUME NEW r \in Slots, call'[r].pc = "verify"
      PROVE  Covered(call[r].uid, call[r].loaded.tokenVersion, call[r].loaded.passwordHash)'
  <2>1. CASE call'[r] = call[r]
    <3>1. Covered(call[r].uid, call[r].loaded.tokenVersion, call[r].loaded.passwordHash)
      BY <1>2, <2>1 DEF PasswordInv
    <3>2. /\ call[r].uid \in Users => Born(call[r].uid)
          /\ call[r].loaded.tokenVersion \in Nat
      BY <1>0, <1>2, <2>1
    <3>3. PICK u, tv, cred : /\ u = call[r].uid /\ tv = call[r].loaded.tokenVersion
                             /\ cred = call[r].loaded.passwordHash
      OBVIOUS
    <3>4. Covered(u, tv, cred)'
      BY <1>1, <3>1, <3>2, <3>3
    <3> QED
      BY <2>1, <3>3, <3>4 DEF Covered
  <2>2. CASE call'[r] # call[r]
    <3>1. Acts(r) /\ call[r].pc = "idle" /\ Loads(r)
      BY <1>0, <1>2, <2>2 DEF Outside, Acts, Others, Arrives, LoginArrives, Starts
    <3>2. call'[r].uid \in Users /\ users'[call'[r].uid] = users[call'[r].uid]
      BY <3>1, ReaderWrites DEF Loads, Active, Stored, Writing
    <3>3. users[call'[r].uid].tokenVersion \in Nat
      BY <1>0, <3>2 DEF TypeOK, User
    <3> QED
      BY <3>1, <3>2, <3>3 DEF Loads, Covered
  <2> QED
    BY <2>1, <2>2
<1>3. ASSUME NEW g \in grants', g.via = "password"
      PROVE  Covered(g.uid, g.tv, g.cred)'
  <2>1. Covered(g.uid, g.tv, g.cred) /\ (g.uid \in Users => Born(g.uid)) /\ g.tv \in Nat
    <3>1. CASE g \in grants
      BY <1>0, <1>3, <3>1 DEF PasswordInv
    <3>2. CASE g \notin grants
      <4>1. PICK s \in Slots : Acts(s)
        BY <1>0, <3>2 DEF Outside
      <4>2. /\ call[s].pc = "verify" /\ g.uid = call[s].uid
            /\ g.tv = call[s].loaded.tokenVersion /\ g.cred = call[s].loaded.passwordHash
        BY <1>3, <3>2, <4>1 DEF Acts, Grants
      <4> QED
        BY <1>0, <4>2 DEF PasswordInv
    <3> QED
      BY <3>1, <3>2
  <2> QED
    BY <1>1, <2>1
<1> QED
  BY <1>2, <1>3 DEF PasswordInv

\* resetPassword, upgradeAccount and deleteUser: a login session that can
\* still be refreshed was opened with the password of today, unless a flush
\* on its account overtook another one.
THEOREM OldPasswordsAreDead == HSpec => []StaleLoginIsDead
<1>1. HInit => PasswordInv
  <2>1. Idle.pc = "idle"
    BY DEF Idle
  <2> QED
    BY <2>1 DEF HInit, Init, PasswordInv
<1>2. BInv /\ BInv' /\ PasswordInv /\ [HNext]_hvars => PasswordInv'
  BY PasswordStep
<1>3. PasswordInv => StaleLoginIsDead
  BY DEF PasswordInv, Covered, StaleLoginIsDead, Refreshable, Active
<1> QED
  BY <1>1, <1>2, <1>3, HistorySpec, PTL DEF HSpec

----------------------------------------------------------------------------
(* Addresses. deleteUser scrubs the fields that the document it loaded had *)
(* set; upgradeAccount loads only documents that are not deleted.          *)

\* No step leaves an address behind, unless it overtakes another one.
LEMMA AddressStep ==
    ASSUME BInv, LoadedInv, DeletedFreesAddress, [HNext]_hvars
    PROVE  DeletedFreesAddress'
<1>0. Recorded /\ (Outside \/ \E s \in Slots : Acts(s))
  BY HistoryStep, EveryStep
<1>1. SUFFICES ASSUME NEW u \in Users, Stored(u)', users'[u].deletedAt # "no",
                      users'[u].email # None, u \notin overtaken'
               PROVE  FALSE
  BY DEF DeletedFreesAddress
<1>2. Stored(u) => users[u].deletedAt = "no" \/ users[u].email = None
  BY <1>0, <1>1 DEF DeletedFreesAddress, Recorded
<1>3. CASE Outside
  BY <1>1, <1>2, <1>3 DEF Outside, Redated, Wiped, Stored
<1>4. ASSUME NEW s \in Slots, Acts(s) PROVE FALSE
  <2>1. Writes(s, u) /\ NewUser.deletedAt = "no"
    BY <1>4 DEF Acts, NewUser
  <2>2. call[s].pc \in Flushing /\ call[s].uid = u /\ users'[u] # users[u]
            => call[s].loaded = users[u]
    BY <1>0, <1>1, <1>4, LoadedIsCurrent
  <2>3. CASE ByUpgrade(s, u)
    <3>1. call[s].loaded.deletedAt = "no" /\ call[s].uid = u
      BY <2>3 DEF ByUpgrade, Into, LoadedInv
    <3> QED
      BY <1>1, <1>2, <2>2, <2>3, <3>1 DEF ByUpgrade, Into, Flushing
  <2>4. CASE ByDelete(s, u)
    BY <1>1, <1>2, <2>2, <2>4 DEF ByDelete, Into, Scrub, Flushing
  <2> QED
    BY <1>1, <1>2, <2>1, <2>3, <2>4
       DEF Writes, ByAutoreg, ByCreate, ByLink, ByForgot, ByReset, Into, Stored
<1> QED
  BY <1>0, <1>3, <1>4

\* deleteUser: a soft-deleted account has no address, so that it can be
\* registered again, unless an upgrade and the deletion overtook each other.
THEOREM DeletionFreesAddress == HSpec => []DeletedFreesAddress
<1>1. HInit => DeletedFreesAddress
  <2>1. Unborn.row = "unborn"
    BY DEF Unborn, NewUser
  <2> QED
    BY <2>1 DEF HInit, Init, DeletedFreesAddress, Stored
<1>2. BInv /\ LoadedInv /\ DeletedFreesAddress /\ [HNext]_hvars => DeletedFreesAddress'
  BY AddressStep
<1> QED
  BY <1>1, <1>2, HistorySpec, LoadedHolds, PTL DEF HSpec

----------------------------------------------------------------------------
(* Identities. Nothing in the database keeps an identity unique: whoever   *)
(* writes one must still know, at the write, that nobody has it.           *)

Has(u, i) == Active(u) /\ i \in users[u].oauthLinks

\* The accounts and identities that OneLiveOwner speaks of.
Clean(u) == u \in Users /\ u \notin overtaken /\ u \notin revived
Lonely(i) == i \in Identities /\ i \notin crossed

OwnerInv ==
    /\ \A s \in Slots, r \in Slots :
            s # r /\ call[s].identity = call[r].identity => ~Lonely(call[s].identity)
    \* who upgrades with an identity is the only one to have it, if anyone does
    /\ \A s \in Slots, v \in Users :
            Clean(v) /\ Lonely(call[s].identity) /\ Has(v, call[s].identity) =>
                /\ call[s].pc \notin {"byEmail", "create", "link"}
                /\ call[s].pc = "hash" /\ Clean(call[s].uid) => v = call[s].uid
                /\ call[s].pc = "clash" /\ Clean(call[s].uid) =>
                        \/ v = call[s].uid \/ ~Stored(call[s].uid)
                        \/ call[s].identity \notin users[call[s].uid].oauthLinks
    /\ OneLiveOwner

\* How slot s would bring identity i to account u.
Brings(s, u, i) ==
    /\ Acts(s) /\ call[s].identity = i /\ users'[u] # users[u]
    /\ call[s].pc = "create" \/ (call[s].pc \in {"hash", "link"} /\ call[s].uid = u)

\* Only an upgrade, a link or a new account brings an identity along.
LEMMA Gains ==
    ASSUME BInv, [HNext]_hvars, NEW u \in Users, Clean(u)', NEW i
    PROVE  /\ Stored(u)' /\ i \in users'[u].oauthLinks =>
                (Stored(u) /\ i \in users[u].oauthLinks) \/ \E s \in Slots : Brings(s, u, i)
           /\ Has(u, i)' => Has(u, i) \/ \E s \in Slots : Brings(s, u, i)
<1>0. Recorded /\ (Outside \/ \E s \in Slots : Acts(s))
  BY HistoryStep, EveryStep
<1>1. CASE Outside
  BY <1>0, <1>1 DEF Outside, Redated, Wiped, Stored, Has, Active, Clean, Recorded, Revives
<1>2. ASSUME NEW s \in Slots, Acts(s)
      PROVE  /\ Stored(u)' /\ i \in users'[u].oauthLinks =>
                  (Stored(u) /\ i \in users[u].oauthLinks) \/ Brings(s, u, i)
             /\ Has(u, i)' => Has(u, i) \/ Brings(s, u, i)
  <2>1. Writes(s, u) /\ NewUser.oauthLinks = {}
    BY <1>2 DEF Acts, NewUser
  <2>2. call[s].pc \in Flushing /\ call[s].uid = u /\ users'[u] # users[u]
            => call[s].loaded = users[u]
    BY <1>0, <1>2, LoadedIsCurrent DEF Clean
  <2>3. CASE ByCreate(s, u)
    BY <1>2, <2>3 DEF ByCreate, Brings, Has, Active, Stored
  <2>4. CASE ByUpgrade(s, u)
    BY <1>2, <2>2, <2>4 DEF ByUpgrade, Into, Brings, Has, Active, Stored, Flushing
  <2>5. CASE ByLink(s, u)
    BY <1>2, <2>2, <2>5 DEF ByLink, Into, Brings, Has, Active, Stored, Flushing
  <2> QED
    BY <2>1, <2>3, <2>4, <2>5
       DEF Writes, ByAutoreg, ByForgot, ByReset, ByDelete, Into, Has, Active, Stored
<1> QED
  BY <1>0, <1>1, <1>2

\* Whoever was clean and alone stays known as such.
LEMMA CleanBefore ==
    ASSUME Recorded
    PROVE  /\ \A u : Clean(u)' => Clean(u)
           /\ \A i : Lonely(i)' => Lonely(i)
BY DEF Recorded, Clean, Lonely

\* Every step keeps the owners of identities apart.
LEMMA OwnerStep ==
    ASSUME BInv, BInv', OwnerInv, [HNext]_hvars
    PROVE  OwnerInv'
<1>0. /\ Recorded /\ (Outside \/ \E s \in Slots : Acts(s))
      /\ \A r \in Slots : call[r].pc \in {"clash", "hash"} /\ call[r].uid \in Users => Born(call[r].uid)
  BY HistoryStep, EveryStep DEF BInv, OInv, OnlyBorn, Loose
<1>c. /\ \A u : Clean(u)' => Clean(u)
      /\ \A i : Lonely(i)' => Lonely(i)
  BY <1>0, CleanBefore
<1>1. ASSUME NEW s \in Slots, NEW r \in Slots, s # r, call'[s].identity = call'[r].identity,
             Lonely(call[s].identity)'
      PROVE  FALSE
  <2>1. call' = call
    BY <1>0, <1>1 DEF Recorded, Crosses, Lonely
  <2> QED
    BY <1>1, <1>c, <2>1 DEF OwnerInv
<1>2. ASSUME NEW r \in Slots, NEW v \in Users, Clean(v)', Lonely(call[r].identity)',
             Has(v, call[r].identity)'
      PROVE  /\ call'[r].pc \notin {"byEmail", "create", "link"}
             /\ call'[r].pc = "hash" /\ Clean(call[r].uid)' => v = call'[r].uid
             /\ call'[r].pc = "clash" /\ Clean(call[r].uid)' =>
                     \/ v = call'[r].uid \/ ~Stored(call[r].uid)'
                     \/ call'[r].identity \notin users'[call'[r].uid].oauthLinks
  <2>0. PICK i, w : i = call'[r].identity /\ w = call'[r].uid
    OBVIOUS
  <2>1. Clean(v) /\ Lonely(i) /\ (Clean(w)' => Clean(w))
    BY <1>2, <1>c, <2>0 DEF Lonely
  <2>2. CASE call'[r] = call[r]
    <3>1. CASE \E s \in Slots : Brings(s, v, i) \/ Brings(s, w, i)
      <4>1. PICK s \in Slots : Acts(s) /\ call[s].identity = i /\ call[s].pc \in {"create", "hash", "link"}
        BY <3>1 DEF Brings
      <4>2. s = r
        BY <2>0, <2>1, <2>2, <4>1 DEF OwnerInv
      <4> QED
        BY <2>2, <4>1, <4>2 DEF Acts, Arrives, UpgradeArrives, OAuthArrives, Starts
    <3>2. CASE ~\E s \in Slots : Brings(s, v, i) \/ Brings(s, w, i)
      <4>1. Has(v, i)
        BY <1>2, <2>0, <3>2, Gains DEF Has
      <4>2. Clean(w)' /\ Stored(w)' /\ i \in users'[w].oauthLinks
                => Stored(w) /\ i \in users[w].oauthLinks
        BY <3>2, Gains DEF Clean
      <4> QED
        BY <2>0, <2>1, <2>2, <4>1, <4>2 DEF OwnerInv
    <3> QED
      BY <3>1, <3>2
  <2>3. CASE call'[r] # call[r] /\ call'[r].pc \in {"byEmail", "create", "link", "clash", "hash"}
    <3>0. Acts(r) /\ UpgradeArrives(r) /\ OAuthArrives(r)
      BY <1>0, <2>3 DEF Outside, Acts, Others, Arrives
    <3>1. call[r].pc \in {"idle", "clash", "byEmail"}
      BY <2>3, <3>0 DEF UpgradeArrives, OAuthArrives, Starts
    <3>2. \A u \in Users : users'[u] = users[u]
      BY <3>0, <3>1, ReaderWrites DEF Writing
    <3>3. Has(v, i)
      BY <1>2, <2>0, <3>2 DEF Has, Active, Stored
    <3>4. CASE call'[r].pc = "clash"
      <4>1. w \in Users /\ Active(w)
        BY <2>0, <3>0, <3>4 DEF UpgradeArrives, Loads, Active, Stored
      <4>2. Clean(w)' /\ i \in users[w].oauthLinks => v = w
        BY <2>1, <3>3, <4>1 DEF OwnerInv, OneLiveOwner, Clean, Lonely, Has
      <4> QED
        BY <2>0, <3>2, <3>4, <4>1, <4>2
    <3>5. CASE call'[r].pc = "hash"
      <4>1. /\ call[r].pc = "clash" /\ Keeps(r) /\ call[r].identity = i /\ call[r].uid = w
            /\ Holders(call[r]) = {} \/ call[r].uid \in Holders(call[r])
        BY <2>0, <3>0, <3>5 DEF UpgradeArrives, Keeps
      <4>2. call[r].identity # None /\ v \in Holders(call[r])
        BY <2>1, <3>3, <4>1, NoneAssumption DEF Lonely, Holders, Has, Active
      <4>3. Stored(w) /\ i \in users[w].oauthLinks
        BY <4>1, <4>2 DEF Holders
      <4> QED
        BY <2>0, <2>1, <3>3, <3>5, <4>1, <4>3 DEF OwnerInv
    <3>6. CASE call'[r].pc \in {"byEmail", "create", "link"}
      <4>1. \/ Unowned(r)
            \/ call[r].pc = "byEmail" /\ call'[r].identity = call[r].identity
        BY <3>0, <3>6 DEF OAuthArrives, Keeps
      <4> QED
        BY <2>0, <2>1, <3>3, <4>1 DEF Unowned, Has, OwnerInv
    <3> QED
      BY <2>3, <3>4, <3>5, <3>6
  <2> QED
    BY <2>2, <2>3
<1>3. ASSUME NEW u \in Users, NEW v \in Users, Clean(u)', Clean(v)', NEW i, Lonely(i)',
             Has(u, i)', Has(v, i)', Has(v, i)
      PROVE  u = v
  <2>1. CASE Has(u, i)
    BY <1>3, <1>c, <2>1 DEF Has, Lonely, Clean, OwnerInv, OneLiveOwner
  <2>2. ASSUME NEW s \in Slots, Brings(s, u, i) PROVE u = v
    BY <1>3, <1>c, <2>2 DEF OwnerInv, Brings
  <2> QED
    BY <1>3, <2>1, <2>2, Gains
<1>4. ASSUME NEW u \in Users, NEW v \in Users, Clean(u)', Clean(v)', NEW i, Lonely(i)',
             Has(u, i)', Has(v, i)'
      PROVE  u = v
  <2>1. CASE ~Has(u, i) /\ ~Has(v, i)
    <3>1. PICK s \in Slots : Brings(s, u, i)
      BY <1>4, <2>1, Gains
    <3>2. OneWrite /\ users'[u] # users[u]
      BY <3>1 DEF Brings, Acts
    <3>3. users'[v] # users[v]
      BY <1>4, <2>1, Gains DEF Brings
    <3> QED
      BY <3>2, <3>3 DEF OneWrite
  <2> QED
    BY <1>3, <1>4, <2>1
<1>5. OneLiveOwner'
  <2>1. ASSUME NEW u \in Users \ (overtaken' \cup revived'), NEW v \in Users \ (overtaken' \cup revived'),
               Active(u)', Active(v)', NEW i \in users'[u].oauthLinks, i \in users'[v].oauthLinks,
               i \notin crossed'
        PROVE  u = v
    <3>1. i \in Identities
      BY <2>1 DEF BInv, OInv, TypeOK, User
    <3> QED
      BY <1>4, <2>1, <3>1 DEF Clean, Lonely, Has
  <2> QED
    BY <2>1 DEF OneLiveOwner
<1> QED
  BY <1>1, <1>2, <1>5 DEF OwnerInv

\* upgradeAccount and findOrCreateOAuthUser: although no index of the database
\* says so, an OAuth identity leads to one live account, unless two requests
\* carried it at once, support brought one of the accounts back, or a flush
\* on one of them overtook another.
THEOREM OneOwner == HSpec => []OneLiveOwner
<1>1. HInit => OwnerInv
  <2>1. Idle.pc = "idle" /\ Idle.identity = None /\ Unborn.row = "unborn"
    BY DEF Idle, Unborn, NewUser
  <2> QED
    BY <2>1, NoneAssumption DEF HInit, Init, OwnerInv, OneLiveOwner, Lonely, Has, Active, Stored
<1>2. BInv /\ BInv' /\ OwnerInv /\ [HNext]_hvars => OwnerInv'
  BY OwnerStep
<1>3. OwnerInv => OneLiveOwner
  BY DEF OwnerInv
<1> QED
  BY <1>1, <1>2, <1>3, HistorySpec, PTL DEF HSpec

----------------------------------------------------------------------------
(* Anonymous accounts. An account that autoreg created is anonymous until  *)
(* an upgrade raises its version, and its version is raised by nothing but *)
(* that upgrade and its deletion.                                          *)

\* Created by autoreg: upgraded since, or not. (Or not inserted yet.)
Anchored(u) == Stored(u) => users[u].accountType = "autoreg" \/ users[u].tokenVersion > 0

\* Version 0 is over with the deletion, or is still the one of the session.
Initial(u, tv) == Stored(u) /\ u \notin revived => tv = 0 \/ users[u].deletedAt # "no"

AnchorInv ==
    /\ \A u \in Users : Stored(u) /\ users[u].accountType = "autoreg" =>
            /\ users[u].email = None /\ users[u].resetPasswordToken = None
            /\ Initial(u, users[u].tokenVersion)
    /\ \A s \in Slots :
            /\ call[s].pc \in {"store", "apply"} /\ Stored(call[s].uid) =>
                    users[call[s].uid].accountType = "user"
            /\ call[s].pc \in {"linked", "touch"} => Anchored(call[s].uid)
            /\ call[s].pc = "touch" => Initial(call[s].uid, call[s].loaded.tokenVersion)
    /\ \A d \in Devices : Row(d) => Anchored(devices[d].userId)
    /\ \A g \in grants : g.via = "device" => Anchored(g.uid) /\ Initial(g.uid, g.tv)

\* No step turns an account back, unless support revives it.
Onward(u) ==
    Stored(u)' => /\ Stored(u)
                  /\ users[u].accountType = "user" => users'[u].accountType = "user"
                  /\ Anchored(u) => Anchored(u)'
                  /\ users[u].deletedAt # "no" => users'[u].deletedAt # "no" \/ u \in revived'

\* Handlers raise versions and keep accounts registered; so does the rest of
\* the system.
LEMMA StepOnward ==
    ASSUME BInv, [HNext]_hvars, NEW u \in Users, Born(u)
    PROVE  Onward(u)
<1>0. Recorded /\ (Outside \/ \E s \in Slots : Acts(s))
  BY HistoryStep, EveryStep
<1>1. CASE Outside
  BY <1>0, <1>1 DEF Outside, Redated, Wiped, Stored, Onward, Anchored, Recorded, Revives
<1>2. ASSUME NEW s \in Slots, Acts(s) PROVE Onward(u)
  <2>1. Writes(s, u) /\ call[s].loaded.tokenVersion \in Nat
    BY <1>2 DEF Acts, BInv, OInv, TypeOK, Call, User
  <2> QED
    BY <2>1 DEF Writes, ByAutoreg, ByCreate, ByUpgrade, ByLink, ByForgot, ByReset, ByDelete,
       Into, Stored, Born, Onward, Anchored
<1> QED
  BY <1>0, <1>1, <1>2

\* Whoever holds an inserted account goes on holding one that autoreg created.
LEMMA AnchorStays ==
    ASSUME BInv, [HNext]_hvars, NEW u, u \in Users => Born(u)
    PROVE  /\ Anchored(u) => Anchored(u)'
           /\ \A tv : Initial(u, tv) => Initial(u, tv)'
<1>1. u \in Users => Onward(u)
  BY StepOnward
<1>2. revived \subseteq revived'
  BY HistoryStep DEF Recorded
<1> QED
  BY <1>1, <1>2 DEF Onward, Anchored, Initial, Stored

\* And an account that a device or a lookup names before it is inserted is
\* inserted by autoreg: the _id of any other account is drawn afresh.
LEMMA NamedStays ==
    ASSUME BInv, [HNext]_hvars, NEW u, Anchored(u),
           \/ \E d \in Devices : devices[d].userId = u
           \/ \E r \in Slots : call[r].uid = u
    PROVE  Anchored(u)'
<1>0. Outside \/ \E s \in Slots : Acts(s)
  BY HistoryStep, EveryStep
<1>1. CASE u \in Users => Born(u)
  BY <1>1, AnchorStays
<1>2. CASE u \in Users /\ users[u].row = "unborn"
  <2>1. CASE Outside
    BY <1>2, <2>1 DEF Outside, Redated, Wiped, Anchored, Stored
  <2>2. ASSUME NEW s \in Slots, Acts(s) PROVE Anchored(u)'
    <3>1. Writes(s, u) /\ ~ByCreate(s, u)
      BY <1>2, <2>2 DEF Acts, ByCreate, Fresh
    <3>2. NewUser.accountType = "autoreg"
      BY DEF NewUser
    <3> QED
      BY <1>2, <3>1, <3>2 DEF Writes, ByAutoreg, ByUpgrade, ByLink, ByForgot, ByReset, ByDelete,
         Into, Anchored, Stored
  <2> QED
    BY <1>0, <2>1, <2>2
<1> QED
  BY <1>1, <1>2 DEF Born

\* Every step keeps the anonymous accounts apart from the registered ones.
LEMMA AnchorStep ==
    ASSUME BInv, BInv', AnchorInv, [HNext]_hvars
    PROVE  AnchorInv'
<1>0. /\ Recorded /\ (Outside \/ \E s \in Slots : Acts(s))
      /\ \A r \in Slots : call[r].pc \in {"touch", "store", "apply"} /\ call[r].uid \in Users
                            => Born(call[r].uid)
      /\ \A g \in grants : g.uid \in Users => Born(g.uid)
      /\ \A r \in Slots : call[r].pc = "insertDevice" => Lone(r)
      /\ NewUser.accountType = "autoreg" /\ NewUser.email = None
      /\ NewUser.resetPasswordToken = None /\ NewUser.tokenVersion = 0
  BY HistoryStep, EveryStep DEF BInv, OInv, OnlyBorn, Loose, NewUser
<1>1. ASSUME NEW u \in Users, Stored(u)', users'[u].accountType = "autoreg"
      PROVE  /\ users'[u].email = None /\ users'[u].resetPasswordToken = None
             /\ Initial(u, users[u].tokenVersion)'
  <2>1. CASE Outside
    BY <1>0, <1>1, <2>1 DEF Outside, Redated, Wiped, Stored, Initial, AnchorInv, Recorded, Revives
  <2>2. ASSUME NEW s \in Slots, Acts(s)
        PROVE  /\ users'[u].email = None /\ users'[u].resetPasswordToken = None
               /\ Initial(u, users[u].tokenVersion)'
    <3>1. Writes(s, u)
      BY <2>2 DEF Acts
    <3> QED
      BY <1>0, <1>1, <3>1 DEF Writes, ByAutoreg, ByCreate, ByUpgrade, ByLink, ByForgot, ByReset, ByDelete,
         Into, Stored, Initial, Scrub, AnchorInv, Recorded
  <2> QED
    BY <1>0, <2>1, <2>2
<1>2. ASSUME NEW r \in Slots, call'[r].pc \in {"store", "apply"}, Stored(call[r].uid)'
      PROVE  users'[call'[r].uid].accountType = "user"
  <2>1. CASE call'[r] = call[r]
    BY <1>0, <1>2, <2>1, StepOnward DEF Onward, AnchorInv, Stored
  <2>2. CASE call'[r] # call[r]
    <3>0. Acts(r) /\ PasswordArrives(r)
      BY <1>0, <1>2, <2>2 DEF Outside, Acts, Others, Arrives
    <3>1. /\ call[r].pc = "idle" /\ Active(call'[r].uid)
          /\ \/ users[call'[r].uid].email # None
             \/ users[call'[r].uid].resetPasswordToken = call'[r].token /\ call'[r].token \in mailed
      BY <1>2, <3>0 DEF PasswordArrives, Loads, Starts
    <3>2. None \notin mailed /\ users[call'[r].uid] \in User
      BY <3>1, NoneAssumption DEF BInv, OInv, TypeOK, Active, Stored
    <3>3. users[call'[r].uid].accountType = "user"
      BY <3>1, <3>2 DEF AnchorInv, Active, Stored, User
    <3> QED
      BY <3>0, <3>1, <3>3, ReaderWrites DEF Active, Stored, Writing
  <2> QED
    BY <2>1, <2>2
<1>3. ASSUME NEW r \in Slots, call'[r].pc \in {"linked", "touch"}
      PROVE  /\ Anchored(call[r].uid)'
             /\ call'[r].pc = "touch" => Initial(call[r].uid, call[r].loaded.tokenVersion)'
  <2>0. PICK u, tv : u = call'[r].uid /\ tv = call'[r].loaded.tokenVersion
    OBVIOUS
  <2>1. CASE call'[r] = call[r]
    <3>1. Anchored(u) /\ (call[r].pc = "touch" => Initial(u, tv))
      BY <1>3, <2>0, <2>1 DEF AnchorInv
    <3>2. Anchored(u)'
      BY <2>0, <2>1, <3>1, NamedStays
    <3>3. call[r].pc = "touch" => Initial(u, tv)'
      BY <1>0, <2>0, <2>1, <3>1, AnchorStays
    <3> QED
      BY <2>0, <2>1, <3>2, <3>3 DEF Anchored, Initial
  <2>2. CASE call'[r] # call[r]
    <3>0. Acts(r) /\ AutoregArrives(r)
      BY <1>0, <1>3, <2>2 DEF Outside, Acts, Others, Arrives
    <3>1. call[r].pc \in {"idle", "linked"}
      BY <1>3, <3>0 DEF AutoregArrives, Starts
    <3>2. \A v \in Users : users'[v] = users[v]
      BY <3>0, <3>1, ReaderWrites DEF Writing
    <3>3. Anchored(u)
      BY <1>3, <2>0, <3>0 DEF AutoregArrives, AnchorInv
    <3>4. call'[r].pc = "touch" => Initial(u, tv)
      BY <2>0, <3>0 DEF AutoregArrives, StillAnonymous, AnchorInv, Stored, Initial
    <3> QED
      BY <1>0, <2>0, <3>2, <3>3, <3>4 DEF Anchored, Initial, Stored, Recorded
  <2> QED
    BY <2>1, <2>2
<1>4. ASSUME NEW s \in Slots, Acts(s), NEW u, call[s].pc = "insertDevice", u = call[s].uid
      PROVE  Anchored(u)' /\ Initial(u, 0)'
  <2>1. u \in Users /\ users'[u] = users[u] /\ users[u] = NewUser
    BY <1>0, <1>4, ReaderWrites DEF Lone, Writing
  <2> QED
    BY <1>0, <2>1 DEF Anchored, Initial
<1>5. ASSUME NEW d \in Devices, Row(d)' PROVE Anchored(devices[d].userId)'
  <2>0. PICK u : u = devices'[d].userId
    OBVIOUS
  <2>1. CASE Row(d) /\ devices'[d].userId = devices[d].userId
    BY <2>0, <2>1, NamedStays DEF AnchorInv, Anchored
  <2>2. ASSUME NEW s \in Slots, Acts(s), devices'[d] # devices[d] PROVE Anchored(u)'
    <3>1. \/ call[s].pc = "insertDevice" /\ u = call[s].uid
          \/ call[s].pc = "insert" /\ users'[u].row = "unborn"
      BY <1>5, <2>0, <2>2 DEF Acts, Attaches, Row
    <3> QED
      BY <1>4, <2>2, <3>1 DEF Anchored, Stored
  <2>3. Outside => Row(d) /\ devices'[d].userId = devices[d].userId
    BY <1>5 DEF Outside, Row
  <2> QED
    BY <1>0, <1>5, <2>0, <2>1, <2>2, <2>3 DEF Anchored, Row
<1>6. ASSUME NEW g \in grants', g.via = "device" PROVE Anchored(g.uid)' /\ Initial(g.uid, g.tv)'
  <2>1. CASE g \in grants
    BY <1>0, <1>6, <2>1, AnchorStays DEF AnchorInv
  <2>2. ASSUME NEW s \in Slots, Acts(s), g \notin grants
        PROVE  Anchored(g.uid)' /\ Initial(g.uid, g.tv)'
    <3>1. CASE /\ call[s].pc = "touch" /\ g.uid = call[s].uid
               /\ g.tv = call[s].loaded.tokenVersion
      BY <1>0, <3>1, AnchorStays DEF AnchorInv
    <3>2. CASE call[s].pc = "insertDevice" /\ g.uid = call[s].uid /\ g.tv = 0
      BY <1>4, <2>2, <3>2
    <3>3. CASE users'[g.uid] = NewUser /\ g.tv = 0
      BY <1>0, <3>3 DEF Anchored, Initial
    <3> QED
      BY <1>6, <2>2, <3>1, <3>2, <3>3 DEF Acts, Grants
  <2> QED
    BY <1>0, <2>1, <2>2 DEF Outside
<1> QED
  BY <1>1, <1>2, <1>3, <1>5, <1>6 DEF AnchorInv

\* createAutoregUser and upgradeAccount: no session got with the bare
\* fingerprint can be refreshed once the account has a real identity, however
\* many handlers run at once, unless support brought the account back.
THEOREM AnchorsDie == HSpec => []AnchorDies
<1>1. HInit => AnchorInv
  <2>1. Idle.pc = "idle" /\ Unborn.row = "unborn" /\ NoDevice.row = "unborn"
    BY DEF Idle, Unborn, NewUser, NoDevice
  <2> QED
    BY <2>1 DEF HInit, Init, AnchorInv, Row, Stored
<1>2. BInv /\ BInv' /\ AnchorInv /\ [HNext]_hvars => AnchorInv'
  BY AnchorStep
<1>3. BInv /\ AnchorInv => AnchorDies
  <2>1. ASSUME BInv, AnchorInv, NEW g \in grants, g.via = "device", Refreshable(g), g.uid \notin revived
        PROVE  users[g.uid].accountType = "autoreg"
    BY <2>1 DEF Refreshable, Active, AnchorInv, Anchored, Initial
  <2> QED
    BY <2>1 DEF AnchorDies
<1> QED
  BY <1>1, <1>2, <1>3, HistorySpec, PTL DEF HSpec
=============================================================================
