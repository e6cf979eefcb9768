------------------------------ MODULE Accounts ------------------------------
(***************************************************************************)
(* The user-service: UsersService (apps/user/src/modules/users) over the   *)
(* collections `users`, `devices` and `outbox_events`, and the UserPurge   *)
(* task that shares them.                                                  *)
(*                                                                         *)
(* Every RPC handler is a sequence of awaits.  What it loaded before an    *)
(* await may be stale after it, and a flush is one Mongo write per         *)
(* document, without a transaction.  A handler in flight is a record in    *)
(* `call`: where it waits, its arguments, and the document it loaded.      *)
(* Between two awaits nothing else runs in the process, so one action is   *)
(* the code from one await to the next.                                    *)
(***************************************************************************)
EXTENDS Naturals, FiniteSets

CONSTANTS
    Users,              \* ObjectIds the service may generate for users
    Devices,            \* ObjectIds the service may generate for devices
    Fingerprints, Emails, Passwords, ResetTokens,
    Identities,         \* (provider, providerUserId) pairs
    None,               \* an absent field
    Slots,              \* RPC messages handled concurrently
    Can,                \* Can[s]: the RPC patterns slot s may serve
    External,           \* which outside events happen: see Environment
    MaxTv,              \* bound on tokenVersion, no call starts beyond it
    FingerprintUnique,  \* is there a unique index on devices.fingerprint?
    KeyUnique           \* is there one on outbox_events.idempotencyKey?

Patterns == {"autoreg", "login", "upgrade", "oauth", "forgot", "reset", "delete"}
Events == {"abort", "lapse", "block", "age", "revive", "purge"}

ASSUME CanAssumption == Can \in [Slots -> SUBSET Patterns]
ASSUME ExternalAssumption == External \subseteq Events
ASSUME MaxTvAssumption == MaxTv \in Nat
ASSUME IndexAssumption == FingerprintUnique \in BOOLEAN /\ KeyUnique \in BOOLEAN
ASSUME NoneAssumption ==
    /\ None \notin Users \cup Devices
    /\ None \notin Emails \cup Passwords \cup ResetTokens \cup Identities

VARIABLES
    users,      \* the users collection, by _id
    devices,    \* the devices collection, by _id
    events,     \* rows of outbox_events keyed user.deleted:<id>
    call,       \* the RPC handlers in flight
    purge,      \* the purge task: its victims and the one half deleted
    mailed,     \* reset tokens sent by email so far
    lapsed,     \* of those, the ones whose hour is over
    grants,     \* history: sessions (uid, tokenVersion) replied to the gateway
    spent       \* history: how many resets each reset token authorised

vars == <<users, devices, events, call, purge, mailed, lapsed, grants, spent>>

----------------------------------------------------------------------------
(* Documents. `row` tells an _id that was never inserted from one that is  *)
(* stored and one that was hard-deleted. deletedAt is kept as its age: no  *)
(* date, a date inside the grace window, a date before the cutoff.         *)

User ==
    [row : {"unborn", "stored", "gone"}, accountType : {"autoreg", "user"},
     email : Emails \cup {None}, passwordHash : Passwords \cup {None},
     oauthLinks : SUBSET Identities, tokenVersion : Nat,
     resetPasswordToken : ResetTokens \cup {None},
     deletedAt : {"no", "recent", "old"}]

\* Slip: the entity's default for tokenVersion is forgotten.
NewUserUnversioned ==
    [row |-> "stored", accountType |-> "autoreg", email |-> None,
     passwordHash |-> None, oauthLinks |-> {}, tokenVersion |-> None,
     resetPasswordToken |-> None, deletedAt |-> "no"]

NewUser ==
    [row |-> "stored", accountType |-> "autoreg", email |-> None,
     passwordHash |-> None, oauthLinks |-> {}, tokenVersion |-> 0,
     resetPasswordToken |-> None, deletedAt |-> "no"]

Unborn == [NewUser EXCEPT !.row = "unborn"]

Device ==
    [row : {"unborn", "stored", "gone"}, fingerprint : Fingerprints \cup {None},
     userId : Users \cup {None}, isBlocked : BOOLEAN]

NoDevice == [row |-> "unborn", fingerprint |-> None, userId |-> None, isBlocked |-> FALSE]

Stored(u) == u \in Users /\ users[u].row = "stored"
Active(u) == Stored(u) /\ users[u].deletedAt = "no"
Row(d) == devices[d].row = "stored"

----------------------------------------------------------------------------
(* Handlers in flight. pc names the await the handler is suspended on.     *)

Waits ==
    {"idle", "verify", "clash", "hash", "detach", "byEmail", "link",
     "create", "store", "mail", "apply", "stage", "insertEvent", "scrub",
     "linked", "dropStale", "touch", "insert", "insertUser", "insertDevice"}

Call ==
    [pc : Waits, uid : Users \cup {None}, did : Devices \cup {None},
     loaded : User, fingerprint : Fingerprints \cup {None},
     email : Emails \cup {None}, password : Passwords \cup {None},
     identity : Identities \cup {None}, verified : BOOLEAN,
     token : ResetTokens \cup {None}]

Idle ==
    [pc |-> "idle", uid |-> None, did |-> None, loaded |-> Unborn,
     fingerprint |-> None, email |-> None, password |-> None,
     identity |-> None, verified |-> FALSE, token |-> None]

Grant ==
    [via : {"device", "password", "oauth", "upgrade"}, uid : Users \cup {None},
     tv : Nat, cred : Fingerprints \cup Passwords \cup Identities \cup {None}]

TypeOK ==
    /\ users \in [Users -> User]
    /\ devices \in [Devices -> Device]
    /\ events \in [Users -> Nat]
    /\ call \in [Slots -> Call]
    /\ purge \in [victims : SUBSET Users, half : Users \cup {None}]
    /\ mailed \subseteq ResetTokens
    /\ lapsed \subseteq ResetTokens
    /\ grants \subseteq Grant
    /\ spent \in [ResetTokens -> Nat]

Init ==
    /\ users = [u \in Users |-> Unborn]
    /\ devices = [d \in Devices |-> NoDevice]
    /\ events = [u \in Users |-> 0]
    /\ call = [s \in Slots |-> Idle]
    /\ purge = [victims |-> {}, half |-> None]
    /\ mailed = {} /\ lapsed = {} /\ grants = {}
    /\ spent = [t \in ResetTokens |-> 0]

----------------------------------------------------------------------------
(* Building blocks of the handlers.                                        *)

\* A free slot takes a message of pattern p; its first await has returned
\* and the handler is suspended in state c.
Serve(s, p, c) == call[s].pc = "idle" /\ p \in Can[s] /\ call' = [call EXCEPT ![s] = c]

\* The handler in slot s moves from one await to the next.
At(s, pc) == call[s].pc = pc
Goto(s, pc) == call' = [call EXCEPT ![s].pc = pc]

\* The handler ends, with a reply or an exception.
Finish(s) == call' = [call EXCEPT ![s] = Idle]

\* It ends by handing a session for user u at version tv to the gateway.
Reply(s, via, u, tv, cred) ==
    /\ Finish(s)
    /\ grants' = grants \cup {[via |-> via, uid |-> u, tv |-> tv, cred |-> cred]}

\* Callers of the authenticated endpoints hold an access token for the user.
Known(u) == \E g \in grants : g.uid = u

\* Slip: the index is not unique.
EmailNeverTaken(u, e) == FALSE

\* users_email_unique: would writing email e into document u raise E11000?
EmailTaken(u, e) == e # None /\ \E v \in Users \ {u} : Stored(v) /\ users[v].email = e

\* A flush updates a document by _id; if it was hard-deleted, nothing happens.
Update(u, doc) == users' = IF Stored(u) THEN [users EXCEPT ![u] = doc] ELSE users

\* `user.f = undefined` reaches Mongo only when the loaded value was set.
Scrub(stored, loaded) == IF loaded = None THEN stored ELSE None

\* Slip: the delete filters on the wrong field and matches nothing.
DevicesOfNobody(u) == {}

DevicesOf(u) == {d \in Devices : devices[d].userId = u}

\* A delete wipes the stored devices of set D.
DropDevices(D) ==
    devices' = [d \in Devices |->
                    IF d \in D /\ Row(d) THEN [NoDevice EXCEPT !.row = "gone"] ELSE devices[d]]

\* An ObjectId generated just now: no document, device or handler has it.
Fresh(u) ==
    /\ users[u].row = "unborn"
    /\ \A d \in Devices : devices[d].userId # u
    /\ \A s \in Slots : call[s].uid # u

\* Bound: there are ids left for every call that may still create a document.
SpareIds ==
    LET busy == Cardinality({s \in Slots : call[s].pc \in
                    {"linked", "dropStale", "insert", "insertDevice", "byEmail", "create"}})
    IN  /\ Cardinality({u \in Users : Fresh(u)}) > busy
        /\ Cardinality({d \in Devices : devices[d].row = "unborn"}) > busy

----------------------------------------------------------------------------
(* createAutoregUser: find the device, find its user; touch or replace.    *)

\* A blocked device is refused with 403: nothing changes.
AutoregFind(s) ==
    /\ SpareIds
    /\ \E f \in Fingerprints :
        LET found == {d \in Devices : Row(d) /\ devices[d].fingerprint = f}
        IN  \/ /\ found = {}
               /\ Serve(s, "autoreg", [Idle EXCEPT !.pc = "insert", !.fingerprint = f])
            \/ \E d \in found :
                /\ ~devices[d].isBlocked
                /\ Serve(s, "autoreg", [Idle EXCEPT !.pc = "linked", !.fingerprint = f,
                                                   !.did = d, !.uid = devices[d].userId])
    /\ UNCHANGED <<users, devices, events, purge, mailed, lapsed, grants, spent>>

\* Slip: the defensive double-check of accountType is dropped.
StillThere(u) == Stored(u)

\* Does the device resolve to an account that is still anonymous?
StillAnonymous(u) == Stored(u) /\ users[u].accountType = "autoreg"

AutoregLinked(s) ==
    /\ At(s, "linked")
    /\ IF StillAnonymous(call[s].uid)
       THEN call' = [call EXCEPT ![s].pc = "touch", ![s].loaded = users[call[s].uid]]
       ELSE Goto(s, "dropStale")
    /\ UNCHANGED <<users, devices, events, purge, mailed, lapsed, grants, spent>>

AutoregTouch(s) ==
    /\ At(s, "touch")
    /\ Reply(s, "device", call[s].uid, call[s].loaded.tokenVersion, call[s].fingerprint)
    /\ UNCHANGED <<users, devices, events, purge, mailed, lapsed, spent>>

AutoregDropStale(s) ==
    /\ At(s, "dropStale")
    /\ DropDevices({call[s].did})
    /\ Goto(s, "insert")
    /\ UNCHANGED <<users, events, purge, mailed, lapsed, grants, spent>>

\* One flush, two inserts of ids drawn up front. No relation ties the two
\* entities, so the ORM may write either one first.
AutoregUserFirst(s) ==
    /\ At(s, "insert")
    /\ \E u \in Users :
        /\ Fresh(u)
        /\ users' = [users EXCEPT ![u] = NewUser]
        /\ call' = [call EXCEPT ![s].pc = "insertDevice", ![s].uid = u]
    /\ UNCHANGED <<devices, events, purge, mailed, lapsed, grants, spent>>

\* E11000 on devices.fingerprint, where that index exists.
FingerprintTaken(f) ==
    FingerprintUnique /\ \E d \in Devices : Row(d) /\ devices[d].fingerprint = f

NewDevice(f, u) == [row |-> "stored", fingerprint |-> f, userId |-> u, isBlocked |-> FALSE]

AutoregDeviceFirst(s) ==
    /\ At(s, "insert")
    /\ IF FingerprintTaken(call[s].fingerprint)
       THEN Finish(s) /\ UNCHANGED devices
       ELSE \E u \in Users, d \in Devices :
                /\ Fresh(u) /\ devices[d].row = "unborn"
                /\ devices' = [devices EXCEPT ![d] = NewDevice(call[s].fingerprint, u)]
                /\ call' = [call EXCEPT ![s].pc = "insertUser", ![s].uid = u]
    /\ UNCHANGED <<users, events, purge, mailed, lapsed, grants, spent>>

AutoregInsertUser(s) ==
    /\ At(s, "insertUser")
    /\ users' = [users EXCEPT ![call[s].uid] = NewUser]
    /\ Reply(s, "device", call[s].uid, 0, call[s].fingerprint)
    /\ UNCHANGED <<devices, events, purge, mailed, lapsed, spent>>

AutoregInsertDevice(s) ==
    /\ At(s, "insertDevice")
    /\ IF FingerprintTaken(call[s].fingerprint)
       THEN Finish(s) /\ UNCHANGED <<devices, grants>>
       ELSE \E d \in Devices :
                /\ devices[d].row = "unborn"
                /\ devices' = [devices EXCEPT ![d] = NewDevice(call[s].fingerprint, call[s].uid)]
                /\ Reply(s, "device", call[s].uid, 0, call[s].fingerprint)
    /\ UNCHANGED <<users, events, purge, mailed, lapsed, spent>>

----------------------------------------------------------------------------
(* login: the lookup, then argon2.verify against the loaded hash.          *)

\* An unknown email verifies a dummy hash and is refused: nothing changes.
LoginFind(s) ==
    /\ \E e \in Emails, p \in Passwords, u \in Users :
        /\ Active(u) /\ users[u].email = e
        /\ Serve(s, "login", [Idle EXCEPT !.pc = "verify", !.uid = u, !.password = p,
                                         !.loaded = users[u]])
    /\ UNCHANGED <<users, devices, events, purge, mailed, lapsed, grants, spent>>

LoginVerify(s) ==
    /\ At(s, "verify")
    /\ IF call[s].loaded.passwordHash = call[s].password
       THEN Reply(s, "password", call[s].uid, call[s].loaded.tokenVersion, call[s].password)
       ELSE Finish(s) /\ UNCHANGED grants
    /\ UNCHANGED <<users, devices, events, purge, mailed, lapsed, spent>>

----------------------------------------------------------------------------
(* upgradeAccount: findById, look for a clash, flush, detach the devices.  *)
(* No identity in the call means method 'email'.                           *)

UpgradeFind(s) ==
    /\ \E u \in Users :
        /\ Known(u) /\ Active(u) /\ users[u].accountType = "autoreg"
        /\ users[u].tokenVersion < MaxTv
        /\ LET c == [Idle EXCEPT !.pc = "clash", !.uid = u, !.loaded = users[u]]
           IN  \/ \E e \in Emails, p \in Passwords :
                     Serve(s, "upgrade", [c EXCEPT !.email = e, !.password = p])
               \/ \E i \in Identities, e \in Emails \cup {None} :
                     Serve(s, "upgrade", [c EXCEPT !.identity = i, !.email = e])
    /\ UNCHANGED <<users, devices, events, purge, mailed, lapsed, grants, spent>>

\* Slip: the clash lookup only knows addresses.
HoldersOfEmail(c) == {v \in Users : Stored(v) /\ users[v].email = c.email}

\* Whoever has the requested email or identity, soft-deleted accounts included.
Holders(c) ==
    {v \in Users : Stored(v) /\ IF c.identity = None THEN users[v].email = c.email
                                                    ELSE c.identity \in users[v].oauthLinks}

UpgradeClash(s) ==
    /\ At(s, "clash")
    /\ LET found == Holders(call[s])
       IN  \/ (found = {} \/ call[s].uid \in found) /\ Goto(s, "hash")
           \/ (found \ {call[s].uid}) # {} /\ Finish(s)
    /\ UNCHANGED <<users, devices, events, purge, mailed, lapsed, grants, spent>>

Upgraded(c) ==
    LET now == [users[c.uid] EXCEPT !.accountType = "user",
                                    !.tokenVersion = c.loaded.tokenVersion + 1,
                                    !.email = IF c.email = None THEN @ ELSE c.email]
    IN  IF c.identity = None
        THEN [now EXCEPT !.passwordHash = c.password]
        ELSE [now EXCEPT !.oauthLinks = c.loaded.oauthLinks \cup {c.identity}]

UpgradeFlush(s) ==
    /\ At(s, "hash")
    /\ IF Stored(call[s].uid) /\ EmailTaken(call[s].uid, call[s].email)
       THEN Finish(s) /\ UNCHANGED users
       ELSE Update(call[s].uid, Upgraded(call[s])) /\ Goto(s, "detach")
    /\ UNCHANGED <<devices, events, purge, mailed, lapsed, grants, spent>>

UpgradeDetach(s) ==
    /\ At(s, "detach")
    /\ DropDevices(DevicesOf(call[s].uid))
    /\ Reply(s, "upgrade", call[s].uid, call[s].loaded.tokenVersion + 1, None)
    /\ UNCHANGED <<users, events, purge, mailed, lapsed, spent>>

----------------------------------------------------------------------------
(* findOrCreateOAuthUser: by identity, by verified email, else create.     *)

OAuthByProvider(s) ==
    /\ SpareIds
    /\ \E i \in Identities, e \in Emails \cup {None}, v \in BOOLEAN :
        LET owners == {u \in Users : Active(u) /\ i \in users[u].oauthLinks}
            c == [Idle EXCEPT !.identity = i, !.email = e, !.verified = v]
        IN  /\ v => e # None
            /\ \/ /\ owners = {}
                  /\ Serve(s, "oauth", [c EXCEPT !.pc = IF v THEN "byEmail" ELSE "create"])
                  /\ UNCHANGED grants
               \/ \E u \in owners :
                  /\ At(s, "idle") /\ "oauth" \in Can[s]
                  /\ Reply(s, "oauth", u, users[u].tokenVersion, i)
    /\ UNCHANGED <<users, devices, events, purge, mailed, lapsed, spent>>

OAuthByEmail(s) ==
    /\ At(s, "byEmail")
    /\ LET found == {u \in Users : Active(u) /\ users[u].email = call[s].email}
       IN  \/ found = {} /\ Goto(s, "create")
           \/ \E u \in found :
                call' = [call EXCEPT ![s].pc = "link", ![s].uid = u, ![s].loaded = users[u]]
    /\ UNCHANGED <<users, devices, events, purge, mailed, lapsed, grants, spent>>

OAuthLink(s) ==
    /\ At(s, "link")
    /\ LET c == call[s]
       IN  /\ Update(c.uid, [users[c.uid] EXCEPT
                     !.oauthLinks = c.loaded.oauthLinks \cup {c.identity}])
           /\ Reply(s, "oauth", c.uid, c.loaded.tokenVersion, c.identity)
    /\ UNCHANGED <<devices, events, purge, mailed, lapsed, spent>>

OAuthCreate(s) ==
    /\ At(s, "create")
    /\ \E u \in Users :
        /\ Fresh(u)
        /\ IF EmailTaken(u, call[s].email)
           THEN Finish(s) /\ UNCHANGED <<users, grants>>
           ELSE /\ users' = [users EXCEPT ![u] =
                        [NewUser EXCEPT !.accountType = "user", !.email = call[s].email,
                                        !.oauthLinks = {call[s].identity}]]
                /\ Reply(s, "oauth", u, 0, call[s].identity)
    /\ UNCHANGED <<devices, events, purge, mailed, lapsed, spent>>

----------------------------------------------------------------------------
(* forgotPassword and resetPassword.                                       *)

\* A token drawn just now: no account, mail or handler has it.
NewToken(t) ==
    /\ t \notin mailed
    /\ \A u \in Users : users[u].resetPasswordToken # t
    /\ \A s \in Slots : call[s].token # t

ForgotFind(s) ==
    /\ \E u \in Users, t \in ResetTokens :
        /\ Active(u) /\ users[u].email # None
        /\ NewToken(t)
        /\ Serve(s, "forgot", [Idle EXCEPT !.pc = "store", !.uid = u, !.token = t,
                                          !.loaded = users[u]])
    /\ UNCHANGED <<users, devices, events, purge, mailed, lapsed, grants, spent>>

ForgotStore(s) ==
    /\ At(s, "store")
    /\ Update(call[s].uid, [users[call[s].uid] EXCEPT !.resetPasswordToken = call[s].token])
    /\ Goto(s, "mail")
    /\ UNCHANGED <<devices, events, purge, mailed, lapsed, grants, spent>>

\* The dispatch fails at times, and the error is swallowed.
ForgotMail(s) ==
    /\ At(s, "mail")
    /\ mailed' = mailed \cup {call[s].token} \/ UNCHANGED mailed
    /\ Finish(s)
    /\ UNCHANGED <<users, devices, events, purge, lapsed, grants, spent>>

\* Slip: the account is looked up by its address, and any link will do.
SomeToken(u, t) == users[u].resetPasswordToken # None

\* The lookup by the (hashed) token of the link.
Matches(u, t) == users[u].resetPasswordToken = t

\* An unknown, cleared or expired token is refused: nothing changes.
ResetFind(s) ==
    /\ \E u \in Users, t \in mailed \ lapsed, p \in Passwords :
        /\ Active(u) /\ Matches(u, t)
        /\ users[u].tokenVersion < MaxTv
        /\ Serve(s, "reset", [Idle EXCEPT !.pc = "apply", !.uid = u, !.token = t,
                                         !.password = p, !.loaded = users[u]])
    /\ UNCHANGED <<users, devices, events, purge, mailed, lapsed, grants, spent>>

\* Slips: the version bump, or the clearing of the token, is forgotten.
WithNewPasswordOnly(c) ==
    [users[c.uid] EXCEPT !.passwordHash = c.password, !.resetPasswordToken = None]

WithNewPasswordTokenKept(c) ==
    [users[c.uid] EXCEPT !.passwordHash = c.password,
                         !.tokenVersion = c.loaded.tokenVersion + 1]

WithNewPassword(c) ==
    [users[c.uid] EXCEPT !.passwordHash = c.password, !.resetPasswordToken = None,
                         !.tokenVersion = c.loaded.tokenVersion + 1]

ResetApply(s) ==
    /\ At(s, "apply")
    /\ Update(call[s].uid, WithNewPassword(call[s]))
    /\ spent' = IF Stored(call[s].uid) THEN [spent EXCEPT ![call[s].token] = @ + 1] ELSE spent
    /\ Finish(s)
    /\ UNCHANGED <<devices, events, purge, mailed, lapsed, grants>>

----------------------------------------------------------------------------
(* deleteUser: findById, stage the event, then one flush of two writes:    *)
(* the outbox insert and, after it, the update of the user.                *)

DeleteFind(s) ==
    /\ \E u \in Users :
        /\ Known(u) /\ Active(u) /\ users[u].tokenVersion < MaxTv
        /\ Serve(s, "delete", [Idle EXCEPT !.pc = "stage", !.uid = u, !.loaded = users[u]])
    /\ UNCHANGED <<users, devices, events, purge, mailed, lapsed, grants, spent>>

\* Slip: the existing row is taken for granted.
AlwaysStaged(u) == events[u] >= 0

\* stageOutboxEvent: an earlier row already promises the event. (Outbox.tla
\* shows that no row ever becomes 'failed', the case that is re-queued.)
AlreadyStaged(u) == events[u] > 0

DeleteStage(s) ==
    /\ At(s, "stage")
    /\ Goto(s, IF AlreadyStaged(call[s].uid) THEN "scrub" ELSE "insertEvent")
    /\ UNCHANGED <<users, devices, events, purge, mailed, lapsed, grants, spent>>

DeleteInsertEvent(s) ==
    /\ At(s, "insertEvent")
    /\ IF KeyUnique /\ events[call[s].uid] > 0
       THEN Finish(s) /\ UNCHANGED events
       ELSE events' = [events EXCEPT ![call[s].uid] = @ + 1] /\ Goto(s, "scrub")
    /\ UNCHANGED <<users, devices, purge, mailed, lapsed, grants, spent>>

\* Slip: the address is not scrubbed.
DeletedWithAddress(c) ==
    [users[c.uid] EXCEPT !.deletedAt = "recent", !.passwordHash = Scrub(@, c.loaded.passwordHash),
                         !.tokenVersion = c.loaded.tokenVersion + 1]

Deleted(c) ==
    [users[c.uid] EXCEPT !.deletedAt = "recent",
                         !.email = Scrub(@, c.loaded.email),
                         !.passwordHash = Scrub(@, c.loaded.passwordHash),
                         !.resetPasswordToken = Scrub(@, c.loaded.resetPasswordToken),
                         !.tokenVersion = c.loaded.tokenVersion + 1]

DeleteScrub(s) ==
    /\ At(s, "scrub")
    /\ Update(call[s].uid, Deleted(call[s]))
    /\ Finish(s)
    /\ UNCHANGED <<devices, events, purge, mailed, lapsed, grants, spent>>

----------------------------------------------------------------------------
(* UserPurgeTask: the victims are listed once, then each one is deleted,   *)
(* its devices first.                                                      *)

\* Slips: no cutoff; or the victims are found through their devices.
SoftDeleted(u) == Stored(u) /\ users[u].deletedAt # "no"
PastGraceWithDevice(u) == Stored(u) /\ users[u].deletedAt = "old" /\ DevicesOf(u) # {}

\* deletedAt < now - 30 days.
PastGrace(u) == Stored(u) /\ users[u].deletedAt = "old"

PurgeList ==
    /\ "purge" \in External
    /\ purge.victims = {}
    /\ {u \in Users : PastGrace(u)} # {}
    /\ purge' = [victims |-> {u \in Users : PastGrace(u)}, half |-> None]
    /\ UNCHANGED <<users, devices, events, call, mailed, lapsed, grants, spent>>

PurgeDevices(u) ==
    /\ u \in purge.victims /\ purge.half = None
    /\ DropDevices(DevicesOf(u))
    /\ purge' = [purge EXCEPT !.half = u]
    /\ UNCHANGED <<users, events, call, mailed, lapsed, grants, spent>>

PurgeUser(u) ==
    /\ purge.half = u
    /\ users' = IF Stored(u) THEN [users EXCEPT ![u] = [Unborn EXCEPT !.row = "gone"]] ELSE users
    /\ purge' = [victims |-> purge.victims \ {u}, half |-> None]
    /\ UNCHANGED <<devices, events, call, mailed, lapsed, grants, spent>>

\* A delete fails: this victim is skipped until the next run of the task.
PurgeSkip(u) ==
    /\ "abort" \in External
    /\ u \in purge.victims /\ purge.half \in {u, None}
    /\ purge' = [victims |-> purge.victims \ {u}, half |-> None]
    /\ UNCHANGED <<users, devices, events, call, mailed, lapsed, grants, spent>>

----------------------------------------------------------------------------
(* Outside events: a handler dies at an await (a Mongo error, or the pod   *)
(* with it), an hour or the grace window goes by, an operator blocks a     *)
(* device, support revives an account inside the grace window.  A request  *)
(* lasts seconds, so none spans the end of a grace window.                 *)

Abort(s) ==
    /\ "abort" \in External
    /\ call[s].pc # "idle"
    /\ Finish(s)
    /\ UNCHANGED <<users, devices, events, purge, mailed, lapsed, grants, spent>>

Lapse ==
    /\ "lapse" \in External
    /\ \E t \in mailed \ lapsed :
        /\ \E u \in Users : users[u].resetPasswordToken = t
        /\ lapsed' = lapsed \cup {t}
    /\ UNCHANGED <<users, devices, events, call, purge, mailed, grants, spent>>

Block ==
    /\ "block" \in External
    /\ \E d \in Devices : Row(d) /\ devices' = [devices EXCEPT ![d].isBlocked = TRUE]
    /\ UNCHANGED <<users, events, call, purge, mailed, lapsed, grants, spent>>

Age ==
    /\ "age" \in External
    /\ \E u \in Users : /\ Stored(u) /\ users[u].deletedAt = "recent"
                        /\ \A s \in Slots : call[s].uid # u
                        /\ users' = [users EXCEPT ![u].deletedAt = "old"]
    /\ UNCHANGED <<devices, events, call, purge, mailed, lapsed, grants, spent>>

Revive ==
    /\ "revive" \in External
    /\ \E u \in Users : /\ Stored(u) /\ users[u].deletedAt = "recent"
                        /\ users' = [users EXCEPT ![u].deletedAt = "no"]
    /\ UNCHANGED <<devices, events, call, purge, mailed, lapsed, grants, spent>>

----------------------------------------------------------------------------

Handler(s) ==
    \/ AutoregFind(s) \/ AutoregLinked(s) \/ AutoregTouch(s) \/ AutoregDropStale(s)
    \/ AutoregUserFirst(s) \/ AutoregDeviceFirst(s)
    \/ AutoregInsertUser(s) \/ AutoregInsertDevice(s)
    \/ LoginFind(s) \/ LoginVerify(s)
    \/ UpgradeFind(s) \/ UpgradeClash(s) \/ UpgradeFlush(s) \/ UpgradeDetach(s)
    \/ OAuthByProvider(s) \/ OAuthByEmail(s) \/ OAuthLink(s) \/ OAuthCreate(s)
    \/ ForgotFind(s) \/ ForgotStore(s) \/ ForgotMail(s)
    \/ ResetFind(s) \/ ResetApply(s)
    \/ DeleteFind(s) \/ DeleteStage(s) \/ DeleteInsertEvent(s) \/ DeleteScrub(s)

PurgeTask == PurgeList \/ \E u \in Users : PurgeDevices(u) \/ PurgeUser(u)

Environment ==
    \/ Lapse \/ Block \/ Age \/ Revive
    \/ \E s \in Slots : Abort(s)
    \/ \E u \in Users : PurgeSkip(u)

Next == (\E s \in Slots : Handler(s)) \/ PurgeTask \/ Environment

Spec == Init /\ [][Next]_vars

\* k8s starts the daily CronJob again after a failed run; the deletes of one
\* account may fail in a run (PurgeSkip), but not in every run for ever.
Fairness ==
    /\ WF_vars(PurgeList)
    /\ \A u \in Users : SF_vars(PurgeDevices(u)) /\ SF_vars(PurgeUser(u))

FairSpec == Spec /\ Fairness

----------------------------------------------------------------------------
(* Properties.                                                             *)

\* Can the refresh token of session g still be rotated?  The gateway asks
\* getUserTokenVersion and compares (users.controller.ts, auth.service.ts).
Refreshable(g) == Active(g.uid) /\ users[g.uid].tokenVersion = g.tv

\* The gate of users_email_unique: no two stored accounts share an address,
\* however the find-then-write handlers interleave.
EmailUnique ==
    \A u, v \in Users : Stored(u) /\ Stored(v) /\ users[u].email = users[v].email
                         /\ users[u].email # None => u = v

\* deleteUser never loses its event: an account that is soft-deleted or
\* purged has a user.deleted row, whichever write the handler died after.
DeletionAnnounced ==
    \A u \in Users : users[u].row = "gone" \/ users[u].deletedAt # "no" => events[u] > 0

\* "Same fingerprint always returns the same account": a fingerprint never
\* leads to two live anonymous accounts.
OneAccountPerFingerprint ==
    \A g, h \in grants :
        /\ g.via = "device" /\ h.via = "device" /\ g.cred = h.cred
        /\ Active(g.uid) /\ users[g.uid].accountType = "autoreg"
        /\ Active(h.uid) /\ users[h.uid].accountType = "autoreg"
        => g.uid = h.uid

\* The reset link of resetPassword is single-use.
ResetSpentOnce == \A t \in ResetTokens : spent[t] <= 1

\* UserPurgeTask and the grace window: what is hard-deleted had been deleted
\* for longer than the window, although the list of victims is older than
\* the delete and support revives accounts meanwhile.
PurgeOnlyPastGrace ==
    [][\A u \in Users : Stored(u) /\ users'[u].row = "gone" => users[u].deletedAt = "old"]_vars

\* UserPurgeTask deletes children first: no device outlives its account, in
\* whichever step a run fails and whatever autoreg does meanwhile. (A device
\* whose account was never inserted is left by an autoreg that died between
\* its two inserts; the next autoreg with that fingerprint removes it.)
NoOrphanDevice ==
    \A d \in Devices : Row(d) => users[devices[d].userId].row # "gone"

\* A deletion that support does not take back ends in a purge.
EventuallyPurged ==
    \A u \in Users : users[u].deletedAt = "old" ~> users[u].row = "gone"
=============================================================================
