---------------------------- MODULE DeviceProofs ----------------------------
(* No device outlives its account, and the purge wipes nothing early, for  *)
(* any number of accounts, devices and concurrent handlers, aborts at      *)
(* every await and failing runs of the purge.                              *)
EXTENDS AccountsProofs

Born(u) == users[u].row # "unborn"

\* No stored device belongs to an account that is gone: NoOrphanDevice.
Owned ==
    \A d \in Devices : Row(d) => /\ devices[d].userId \in Users
                                 /\ users[devices[d].userId].row # "gone"

\* An autoreg that wrote the account first. Until the device follows nobody
\* else can reach the account: it has no device, no session, no address, no
\* identity and no deletion, and no other handler has it in hand.
Lone(s) ==
    LET u == call[s].uid
    IN  /\ u \in Users /\ users[u] = NewUser /\ ~Known(u) /\ u \notin purge.victims
        /\ \A d \in Devices : Row(d) => devices[d].userId # u
        /\ \A r \in Slots \ {s} : call[r].uid # u

\* Here autoreg has of an account only what the device says.
Loose == {"linked", "dropStale", "insert"}

\* An autoreg that wrote the device first. Until the account follows only
\* other autoregs come upon its _id, by the device.
Reserved(s) ==
    LET u == call[s].uid
    IN  /\ u \in Users /\ ~Born(u)
        /\ \A r \in Slots \ {s} : call[r].uid = u => call[r].pc \in Loose

\* Handlers, sessions and the purge know only accounts that were inserted.
OnlyBorn ==
    /\ \A s \in Slots : call[s].uid \in Users =>
           Born(call[s].uid) \/ call[s].pc \in Loose \cup {"insertUser"}
    /\ \A g \in grants : g.uid \in Users => Born(g.uid)
    /\ \A u \in purge.victims : Born(u)

\* Between the two deletes of the purge no device of the victim is left.
HalfBare ==
    purge.half # None =>
        /\ purge.half \in purge.victims
        /\ \A d \in Devices : Row(d) => devices[d].userId # purge.half

Looking(s) == call[s].pc = "byEmail" => call[s].email # None

OInv ==
    /\ TypeOK /\ Owned /\ OnlyBorn /\ HalfBare
    /\ \A s \in Slots : call[s].pc = "insertDevice" => Lone(s)
    /\ \A s \in Slots : call[s].pc = "insertUser" => Reserved(s)
    /\ \A s \in Slots : Looking(s)

\* No handler but s is about to give account u its first device.
Attended(s, u) == \A r \in Slots \ {s} : call[r].pc = "insertDevice" => call[r].uid # u

\* No handler but s is between the two inserts of account u.
Free(s, u) == \A r \in Slots \ {s} : call[r].pc \in {"insertDevice", "insertUser"} => call[r].uid # u

\* A handler may have account u in hand.
Usable(s, u) == u \in Users /\ Born(u) /\ Free(s, u)

\* And where it has looked no further than the device.
Mentioned(s, u, pc) == u \in Users /\ pc \in Loose /\ Attended(s, u)

\* Or it drew the _id itself.
Drawn(u, pc) == u \in Users /\ Fresh(u) /\ pc \in {"insertDevice", "insertUser"}

----------------------------------------------------------------------------
(* Which accounts a handler can come by.                                   *)

\* The one it has had.
LEMMA OwnIsUsable ==
    ASSUME OInv, NEW s \in Slots, call[s].uid \in Users,
           call[s].pc \notin Loose \cup {"insertUser"}
    PROVE  Usable(s, call[s].uid)
BY DEF OInv, OnlyBorn, Usable, Free, Lone, Reserved

\* Or had been told of.
LEMMA OwnIsAttended ==
    ASSUME OInv, NEW s \in Slots
    PROVE  Attended(s, call[s].uid)
BY DEF OInv, Attended, Lone

\* One that has an owner or a credential: a session, a device, an address, an
\* identity, a reset token.
LEMMA OccupiedIsUsable ==
    ASSUME OInv, NEW s \in Slots, NEW u \in Users, Stored(u),
           \/ Known(u)
           \/ \E d \in Devices : Row(d) /\ devices[d].userId = u
           \/ users[u].email # None
           \/ users[u].oauthLinks # {}
           \/ users[u].resetPasswordToken # None
    PROVE  Usable(s, u)
<1>1. ASSUME NEW r \in Slots, call[r].pc = "insertDevice" PROVE call[r].uid # u
  <2>1. Lone(r)
    BY <1>1 DEF OInv
  <2>2. NewUser.email = None /\ NewUser.oauthLinks = {} /\ NewUser.resetPasswordToken = None
    BY DEF NewUser
  <2> QED
    BY <2>1, <2>2 DEF Lone
<1>2. Born(u)
  BY DEF Stored, Born
<1>3. ASSUME NEW r \in Slots, call[r].pc = "insertUser" PROVE call[r].uid # u
  BY <1>2, <1>3 DEF OInv, Reserved
<1> QED
  BY <1>1, <1>2, <1>3 DEF Usable, Free

\* And an _id drawn just now.
LEMMA FreshIsFree ==
    ASSUME NEW s \in Slots, NEW u, Fresh(u)
    PROVE  Free(s, u)
BY DEF Fresh, Free

----------------------------------------------------------------------------
(* Steps of handlers.                                                      *)

\* What a handler may do to accounts, devices and sessions.
AccountsKept(s) ==
    \A u \in Users : \/ users'[u] = users[u]
                     \/ users'[u].row = users[u].row /\ Free(s, u)
                     \/ users[u].row = "unborn" /\ users'[u].row = "stored" /\ Free(s, u)

DevicesKept(s) ==
    \A d \in Devices : Row(d)' =>
        \/ Row(d) /\ devices'[d].userId = devices[d].userId
        \/ /\ devices'[d].userId \in Users \ purge.victims
           /\ users[devices'[d].userId].row # "gone"
           /\ Attended(s, devices'[d].userId)

GrantsKept(s) ==
    \A g \in grants' : g \in grants \/ g.uid = None
                        \/ (g.uid \in Users /\ Born(g.uid)' /\ Free(s, g.uid))

\* A handler that does no more than that keeps the invariant.
LEMMA HandlerKeeps ==
    ASSUME OInv, TypeOK', NEW s \in Slots, NEW c, call' = [call EXCEPT ![s] = c],
           c.pc = "insertDevice" => Lone(s)',
           c.pc = "insertUser" => Reserved(s)',
           c.pc = "byEmail" => c.email # None,
           c.uid # None => Usable(s, c.uid) \/ Mentioned(s, c.uid, c.pc) \/ Drawn(c.uid, c.pc),
           UNCHANGED purge, AccountsKept(s), DevicesKept(s), GrantsKept(s)
    PROVE  OInv'
<1>1. TypeOK
  BY DEF OInv
<1>2. call'[s] = c /\ \A r \in Slots \ {s} : call'[r] = call[r]
  BY <1>1 DEF TypeOK
<1>3. \A u \in Users : Born(u) => Born(u)'
  BY DEF AccountsKept, Born
<1>4. \A u \in Users : users'[u].row = "gone" => users[u].row = "gone"
  BY DEF AccountsKept
<1>5. Owned'
  BY <1>4 DEF OInv, Owned, DevicesKept
<1>6. OnlyBorn'
  <2>1. \A r \in Slots \ {s} : (call[r].uid \in Users =>
            Born(call[r].uid) \/ call[r].pc \in Loose \cup {"insertUser"})'
    BY <1>2, <1>3 DEF OInv, OnlyBorn
  <2>2. (call[s].uid \in Users => Born(call[s].uid) \/ call[s].pc \in Loose \cup {"insertUser"})'
    <3>1. CASE c.pc = "insertDevice"
      BY <1>2, <3>1 DEF Lone, Born, NewUser
    <3>2. CASE c.pc # "insertDevice"
      BY <1>2, <1>3, <3>2, NoneAssumption DEF Usable, Mentioned, Drawn
    <3> QED
      BY <3>1, <3>2
  <2>3. \A g \in grants' : g.uid \in Users => Born(g.uid)'
    BY <1>3, NoneAssumption DEF OInv, OnlyBorn, GrantsKept
  <2>4. \A u \in purge.victims : Born(u)'
    BY <1>1, <1>3 DEF OInv, OnlyBorn, TypeOK
  <2> QED
    BY <2>1, <2>2, <2>3, <2>4 DEF OnlyBorn
<1>7. HalfBare'
  BY DEF OInv, HalfBare, DevicesKept
<1>8. ASSUME NEW r \in Slots, call'[r].pc = "insertDevice" PROVE Lone(r)'
  <2>1. CASE r = s
    BY <1>2, <1>8, <2>1
  <2>2. CASE r # s
    <3>1. call'[r] = call[r]
      BY <1>2, <2>2
    <3>2. PICK u : u = call[r].uid
      OBVIOUS
    <3>3. /\ Lone(r) /\ ~Free(s, u) /\ ~Attended(s, u) /\ u \in Users /\ ~Fresh(u)
      BY <1>8, <2>2, <3>1, <3>2 DEF OInv, Lone, Free, Attended, Fresh
    <3>4. users'[u] = NewUser
      BY <3>2, <3>3 DEF AccountsKept, Lone, NewUser
    <3>5. ~Known(u)'
      BY <3>2, <3>3, NoneAssumption DEF Known, GrantsKept, Lone
    <3>6. \A d \in Devices : Row(d)' => devices'[d].userId # u
      BY <3>2, <3>3 DEF DevicesKept, Lone
    <3>7. \A q \in Slots \ {r} : call'[q].uid # u
      BY <1>2, <3>2, <3>3, NoneAssumption DEF Lone, Usable, Mentioned, Drawn
    <3> QED
      BY <3>1, <3>2, <3>3, <3>4, <3>5, <3>6, <3>7 DEF Lone
  <2> QED
    BY <2>1, <2>2
<1>9. ASSUME NEW r \in Slots, call'[r].pc = "insertUser" PROVE Reserved(r)'
  <2>1. CASE r = s
    BY <1>2, <1>9, <2>1
  <2>2. CASE r # s
    <3>1. call'[r] = call[r]
      BY <1>2, <2>2
    <3>2. PICK u : u = call[r].uid
      OBVIOUS
    <3>3. /\ Reserved(r) /\ ~Free(s, u) /\ u \in Users /\ ~Fresh(u)
      BY <1>9, <2>2, <3>1, <3>2 DEF OInv, Reserved, Free, Fresh
    <3>4. ~Born(u)'
      BY <3>2, <3>3 DEF AccountsKept, Reserved, Born
    <3>5. \A q \in Slots \ {r} : call'[q].uid = u => call'[q].pc \in Loose
      BY <1>2, <3>2, <3>3, NoneAssumption DEF Reserved, Usable, Mentioned, Drawn
    <3> QED
      BY <3>1, <3>2, <3>3, <3>4, <3>5 DEF Reserved
  <2> QED
    BY <2>1, <2>2
<1>10. \A r \in Slots : Looking(r)'
  BY <1>2 DEF OInv, Looking
<1> QED
  BY <1>5, <1>6, <1>7, <1>8, <1>9, <1>10 DEF OInv

\* One that only reads.
LEMMA ReaderKeeps ==
    ASSUME OInv, TypeOK', NEW s \in Slots, NEW c, call' = [call EXCEPT ![s] = c],
           c.pc \notin {"insertDevice", "insertUser"}, c.pc = "byEmail" => c.email # None,
           c.uid # None => Usable(s, c.uid) \/ Mentioned(s, c.uid, c.pc),
           UNCHANGED <<users, devices, purge, grants>>
    PROVE  OInv'
<1>1. AccountsKept(s) /\ DevicesKept(s) /\ GrantsKept(s)
  BY DEF AccountsKept, DevicesKept, GrantsKept, Row
<1> QED
  BY <1>1, HandlerKeeps

\* One that goes on with the account it has.
LEMMA MoveKeeps ==
    ASSUME OInv, TypeOK', NEW s \in Slots, NEW pc, Goto(s, pc),
           pc \notin {"insertDevice", "insertUser", "byEmail"},
           pc \in Loose \/ call[s].pc \notin Loose \cup {"insertUser"},
           UNCHANGED <<purge, grants>>, AccountsKept(s), DevicesKept(s)
    PROVE  OInv'
<1>1. call[s] \in Call
  BY DEF OInv, TypeOK
<1>2. PICK c : c = [call[s] EXCEPT !.pc = pc] /\ call' = [call EXCEPT ![s] = c]
  BY DEF Goto
<1>3. c.pc = pc /\ c.uid = call[s].uid /\ c.uid \in Users \cup {None}
  BY <1>1, <1>2 DEF Call
<1>4. c.uid # None => Usable(s, c.uid) \/ Mentioned(s, c.uid, c.pc)
  BY <1>3, OwnIsUsable, OwnIsAttended DEF Mentioned
<1>5. GrantsKept(s)
  BY DEF GrantsKept
<1> QED
  BY <1>2, <1>3, <1>4, <1>5, HandlerKeeps

\* One that ends.
LEMMA EndKeeps ==
    ASSUME OInv, TypeOK', NEW s \in Slots, Finish(s),
           UNCHANGED purge, AccountsKept(s), DevicesKept(s), GrantsKept(s)
    PROVE  OInv'
<1>1. Idle.pc = "idle" /\ Idle.uid = None
  BY DEF Idle
<1> QED
  BY <1>1, HandlerKeeps DEF Finish

\* A reply about an account at hand.
LEMMA ReplyKeeps ==
    ASSUME OInv, NEW s \in Slots, NEW via, NEW u, NEW tv, NEW cred, Reply(s, via, u, tv, cred),
           u # None => u \in Users /\ Born(u)' /\ Free(s, u)
    PROVE  Finish(s) /\ GrantsKept(s)
<1>1. \A g \in grants' : g \in grants \/ g = [via |-> via, uid |-> u, tv |-> tv, cred |-> cred]
  BY DEF Reply
<1> QED
  BY <1>1 DEF Reply, GrantsKept

\* A flush into the document at hand.
LEMMA FlushKeeps ==
    ASSUME OInv, NEW s \in Slots, NEW u, NEW doc, Update(u, doc), Stored(u) => doc.row = users[u].row,
           Stored(u) => Free(s, u)
    PROVE  AccountsKept(s) /\ (Stored(u) => Born(u)')
BY DEF OInv, TypeOK, Update, Stored, AccountsKept, Born

\* A delete of devices.
LEMMA DropKeeps ==
    ASSUME OInv, NEW s \in Slots, NEW D, DropDevices(D)
    PROVE  /\ \A d \in Devices : Row(d)' => Row(d) /\ devices'[d] = devices[d]
           /\ DevicesKept(s)
<1>1. \A d \in Devices : Row(d)' => Row(d) /\ devices'[d] = devices[d]
  BY DEF DropDevices, Row, NoDevice
<1> QED
  BY <1>1 DEF DevicesKept

\* createAutoregUser. The first of the two inserts leaves an account that is
\* lone or an _id that is reserved, the second one ends that.
LEMMA AutoregKeeps ==
    ASSUME OInv, TypeOK', NEW s \in Slots,
           AutoregFind(s) \/ AutoregLinked(s) \/ AutoregTouch(s) \/ AutoregDropStale(s)
               \/ AutoregUserFirst(s) \/ AutoregDeviceFirst(s)
               \/ AutoregInsertUser(s) \/ AutoregInsertDevice(s)
    PROVE  OInv'
<1>1. TypeOK /\ call[s] \in Call /\ call[s].uid \in Users \cup {None}
  BY DEF OInv, TypeOK, Call
<1>2. CASE AutoregFind(s)
  <2>1. CASE \E f \in Fingerprints : Serve(s, "autoreg", [Idle EXCEPT !.pc = "insert", !.fingerprint = f])
    <3>1. PICK f, c : /\ f \in Fingerprints
                     /\ c = [Idle EXCEPT !.pc = "insert", !.fingerprint = f]
                     /\ call' = [call EXCEPT ![s] = c]
      BY <2>1 DEF Serve
    <3>2. c.pc = "insert" /\ c.uid = None
      BY <3>1 DEF Idle
    <3> QED
      BY <1>2, <3>1, <3>2, ReaderKeeps DEF AutoregFind
  <2>2. CASE \E f \in Fingerprints, d \in Devices :
                /\ Row(d)
                /\ Serve(s, "autoreg", [Idle EXCEPT !.pc = "linked", !.fingerprint = f,
                                                   !.did = d, !.uid = devices[d].userId])
    <3>1. PICK f, d, c :
            /\ f \in Fingerprints /\ d \in Devices /\ Row(d)
            /\ c = [Idle EXCEPT !.pc = "linked", !.fingerprint = f, !.did = d,
                                !.uid = devices[d].userId]
            /\ call' = [call EXCEPT ![s] = c]
      BY <2>2 DEF Serve
    <3>2. c.pc = "linked" /\ c.uid = devices[d].userId
      BY <3>1 DEF Idle
    <3>3. Mentioned(s, c.uid, c.pc)
      BY <3>1, <3>2 DEF OInv, Owned, Lone, Mentioned, Attended, Loose
    <3> QED
      BY <1>2, <3>1, <3>2, <3>3, ReaderKeeps DEF AutoregFind
  <2> QED
    BY <1>2, <2>1, <2>2 DEF AutoregFind
<1>3. CASE AutoregLinked(s)
  <2>1. CASE StillAnonymous(call[s].uid)
    <3>1. PICK c : /\ c = [call[s] EXCEPT !.pc = "touch", !.loaded = users[call[s].uid]]
                   /\ call' = [call EXCEPT ![s] = c]
      BY <1>3, <2>1 DEF AutoregLinked
    <3>2. c.pc = "touch" /\ c.uid = call[s].uid
      BY <1>1, <3>1 DEF Call
    <3>3. Usable(s, call[s].uid)
      <4>1. call[s].uid \in Users /\ Born(call[s].uid)
        BY <2>1 DEF StillAnonymous, Stored, Born
      <4> QED
        BY <1>3, <4>1 DEF OInv, Lone, Reserved, Usable, Free, AutoregLinked, At
    <3> QED
      BY <1>1, <1>3, <3>1, <3>2, <3>3, ReaderKeeps DEF AutoregLinked
  <2>2. CASE ~StillAnonymous(call[s].uid)
    BY <1>3, <2>2, MoveKeeps DEF AutoregLinked, AccountsKept, DevicesKept, Row, Loose
  <2> QED
    BY <2>1, <2>2
<1>4. CASE AutoregTouch(s)
  <2>1. UNCHANGED <<users, devices, purge>>
    BY <1>4 DEF AutoregTouch
  <2>2. PICK u : u = call[s].uid
    OBVIOUS
  <2>3. u # None => u \in Users /\ Born(u)' /\ Free(s, u)
    BY <1>1, <1>4, <2>1, <2>2, OwnIsUsable DEF AutoregTouch, At, Loose, Usable, Born
  <2>4. Finish(s) /\ GrantsKept(s)
    BY <1>4, <2>2, <2>3, ReplyKeeps DEF AutoregTouch
  <2> QED
    BY <2>1, <2>4, EndKeeps DEF AccountsKept, DevicesKept, Row
<1>5. CASE AutoregDropStale(s)
  BY <1>5, DropKeeps, MoveKeeps DEF AutoregDropStale, AccountsKept, Loose
<1>6. CASE AutoregUserFirst(s)
  <2>1. PICK u, c : /\ u \in Users /\ Fresh(u)
          /\ users' = [users EXCEPT ![u] = NewUser]
          /\ c = [call[s] EXCEPT !.pc = "insertDevice", !.uid = u]
          /\ call' = [call EXCEPT ![s] = c]
    BY <1>1, <1>6 DEF AutoregUserFirst, TypeOK
  <2>2. UNCHANGED <<devices, purge, grants>>
    BY <1>6 DEF AutoregUserFirst
  <2>3. users'[u] = NewUser /\ \A v \in Users \ {u} : users'[v] = users[v]
    BY <1>1, <2>1 DEF TypeOK
  <2>4. /\ c.pc = "insertDevice" /\ c.uid = u /\ call'[s] = c
        /\ \A r \in Slots \ {s} : call'[r] = call[r]
    BY <1>1, <2>1 DEF TypeOK, Call
  <2>5. users[u].row = "unborn" /\ NewUser.row = "stored"
    BY <2>1 DEF Fresh, NewUser
  <2>6. /\ \A r \in Slots : call[r].uid # u
        /\ \A g \in grants : g.uid # u
        /\ u \notin purge.victims
        /\ \A d \in Devices : devices[d].userId # u
    BY <2>1, <2>5 DEF Fresh, OInv, OnlyBorn, Born
  <2>7. Lone(s)'
    <3>1. u \in Users /\ call'[s].uid = u /\ users'[u] = NewUser
      BY <2>1, <2>3, <2>4
    <3>2. ~Known(u)' /\ u \notin purge'.victims
      BY <2>2, <2>6 DEF Known
    <3>3. \A d \in Devices : Row(d)' => devices'[d].userId # u
      BY <2>2, <2>6
    <3>4. \A r \in Slots \ {s} : call'[r].uid # u
      BY <2>4, <2>6
    <3> QED
      BY <3>1, <3>2, <3>3, <3>4 DEF Lone, Known
  <2>8. AccountsKept(s) /\ DevicesKept(s) /\ GrantsKept(s)
    BY <2>1, <2>2, <2>3, <2>5, FreshIsFree DEF AccountsKept, DevicesKept, GrantsKept, Row
  <2> QED
    BY <2>1, <2>2, <2>4, <2>7, <2>8, HandlerKeeps DEF Drawn
<1>8. CASE AutoregDeviceFirst(s)
  <2>1. CASE FingerprintTaken(call[s].fingerprint)
    BY <1>8, <2>1, EndKeeps DEF AutoregDeviceFirst, AccountsKept, DevicesKept, GrantsKept, Row
  <2>2. CASE ~FingerprintTaken(call[s].fingerprint)
    <3>1. PICK u, d, c :
            /\ u \in Users /\ d \in Devices /\ Fresh(u)
            /\ devices' = [devices EXCEPT ![d] = NewDevice(call[s].fingerprint, u)]
            /\ c = [call[s] EXCEPT !.pc = "insertUser", !.uid = u]
            /\ call' = [call EXCEPT ![s] = c]
      BY <1>1, <1>8, <2>2 DEF AutoregDeviceFirst, TypeOK
    <3>2. UNCHANGED <<users, purge, grants>>
      BY <1>8 DEF AutoregDeviceFirst
    <3>3. /\ c.pc = "insertUser" /\ c.uid = u /\ call'[s] = c
          /\ \A r \in Slots \ {s} : call'[r] = call[r]
      BY <1>1, <3>1 DEF TypeOK, Call
    <3>4. /\ users[u].row = "unborn"
          /\ \A r \in Slots : call[r].uid # u
      BY <3>1 DEF Fresh
    <3>5. Reserved(s)'
      BY <3>1, <3>2, <3>3, <3>4 DEF Reserved, Born
    <3>6. u \notin purge.victims /\ Attended(s, u)
      BY <3>4 DEF OInv, OnlyBorn, Born, Attended
    <3>7. DevicesKept(s)
      BY <1>1, <3>1, <3>4, <3>6 DEF DevicesKept, TypeOK, Row, NewDevice
    <3>8. AccountsKept(s) /\ GrantsKept(s)
      BY <3>2 DEF AccountsKept, GrantsKept
    <3> QED
      BY <3>1, <3>2, <3>3, <3>5, <3>7, <3>8, HandlerKeeps DEF Drawn
  <2> QED
    BY <2>1, <2>2
<1>9. CASE AutoregInsertUser(s)
  <2>1. PICK u : u = call[s].uid
    OBVIOUS
  <2>2. Reserved(s)
    BY <1>9 DEF OInv, AutoregInsertUser, At
  <2>3. /\ u \in Users /\ users[u].row = "unborn"
        /\ Free(s, u)
    BY <2>1, <2>2, <1>1 DEF Reserved, Born, Free, Loose
  <2>4. /\ users' = [users EXCEPT ![u] = NewUser]
        /\ Reply(s, "device", u, 0, call[s].fingerprint)
        /\ UNCHANGED <<devices, purge>>
    BY <1>9, <2>1 DEF AutoregInsertUser
  <2>5. users'[u] = NewUser /\ NewUser.row = "stored" /\ \A v \in Users \ {u} : users'[v] = users[v]
    BY <1>1, <2>3, <2>4 DEF TypeOK, NewUser
  <2>6. AccountsKept(s) /\ Born(u)' /\ DevicesKept(s)
    BY <2>3, <2>4, <2>5 DEF AccountsKept, Born, DevicesKept, Row
  <2>7. Finish(s) /\ GrantsKept(s)
    BY <2>3, <2>4, <2>6, ReplyKeeps
  <2> QED
    BY <2>4, <2>6, <2>7, EndKeeps
<1>7. CASE AutoregInsertDevice(s)
  <2>1. CASE FingerprintTaken(call[s].fingerprint)
    BY <1>7, <2>1, EndKeeps DEF AutoregInsertDevice, AccountsKept, DevicesKept, GrantsKept, Row
  <2>2. CASE ~FingerprintTaken(call[s].fingerprint)
    <3>1. PICK u : u = call[s].uid
      OBVIOUS
    <3>2. PICK d \in Devices :
            /\ devices' = [devices EXCEPT ![d] = NewDevice(call[s].fingerprint, u)]
            /\ Reply(s, "device", u, 0, call[s].fingerprint)
      BY <1>7, <2>2, <3>1 DEF AutoregInsertDevice
    <3>3. UNCHANGED <<users, purge>>
      BY <1>7 DEF AutoregInsertDevice
    <3>4. Lone(s)
      BY <1>7 DEF OInv, AutoregInsertDevice, At
    <3>5. /\ u \in Users /\ users[u].row = "stored" /\ u \notin purge.victims
          /\ Free(s, u) /\ Attended(s, u)
      BY <3>1, <3>4 DEF Lone, NewUser, Free, Attended
    <3>6. DevicesKept(s)
      BY <1>1, <3>2, <3>3, <3>5 DEF DevicesKept, TypeOK, Row, NewDevice
    <3>7. Born(u)'
      BY <3>3, <3>5 DEF Born
    <3>8. Finish(s) /\ GrantsKept(s)
      BY <3>2, <3>5, <3>7, ReplyKeeps
    <3> QED
      BY <3>3, <3>6, <3>8, EndKeeps DEF AccountsKept
  <2> QED
    BY <2>1, <2>2
<1> QED
  BY <1>2, <1>3, <1>4, <1>5, <1>6, <1>7, <1>8, <1>9

\* login.
LEMMA LoginKeeps ==
    ASSUME OInv, TypeOK', NEW s \in Slots, LoginFind(s) \/ LoginVerify(s)
    PROVE  OInv'
<1>1. TypeOK /\ call[s].uid \in Users \cup {None}
  BY DEF OInv, TypeOK, Call
<1>2. CASE LoginFind(s)
  <2>1. PICK e \in Emails, p \in Passwords, u \in Users :
          /\ Active(u) /\ users[u].email = e
          /\ Serve(s, "login", [Idle EXCEPT !.pc = "verify", !.uid = u, !.password = p,
                                            !.loaded = users[u]])
    BY <1>2 DEF LoginFind
  <2>2. PICK c : /\ c.pc = "verify" /\ c.uid = u
                 /\ call' = [call EXCEPT ![s] = c]
    BY <2>1 DEF Serve, Idle
  <2>3. Usable(s, u)
    BY <2>1, OccupiedIsUsable, NoneAssumption DEF Active
  <2> QED
    BY <1>2, <2>1, <2>2, <2>3, ReaderKeeps DEF LoginFind
<1>3. CASE LoginVerify(s)
  <2>1. UNCHANGED <<users, devices, purge>>
    BY <1>3 DEF LoginVerify
  <2>2. PICK u : u = call[s].uid
    OBVIOUS
  <2>3. u # None => u \in Users /\ Born(u)' /\ Free(s, u)
    BY <1>1, <1>3, <2>1, <2>2, OwnIsUsable DEF LoginVerify, At, Loose, Usable, Born
  <2>4. Finish(s) /\ GrantsKept(s)
    <3>1. CASE Finish(s) /\ UNCHANGED grants
      BY <3>1 DEF GrantsKept
    <3>2. CASE Reply(s, "password", u, call[s].loaded.tokenVersion, call[s].password)
      BY <2>3, <3>2, ReplyKeeps
    <3> QED
      BY <1>3, <2>2, <3>1, <3>2 DEF LoginVerify
  <2> QED
    BY <2>1, <2>4, EndKeeps DEF AccountsKept, DevicesKept, Row
<1> QED
  BY <1>2, <1>3

\* upgradeAccount.
LEMMA UpgradeKeeps ==
    ASSUME OInv, TypeOK', NEW s \in Slots,
           UpgradeFind(s) \/ UpgradeClash(s) \/ UpgradeFlush(s) \/ UpgradeDetach(s)
    PROVE  OInv'
<1>1. TypeOK /\ call[s].uid \in Users \cup {None}
  BY DEF OInv, TypeOK, Call
<1>2. CASE UpgradeFind(s)
  <2>1. PICK u, c :
          /\ u \in Users /\ Known(u) /\ Active(u)
          /\ c.pc = "clash" /\ c.uid = u
          /\ call' = [call EXCEPT ![s] = c]
    <3> DEFINE mail(u, e, p) ==
            [[Idle EXCEPT !.pc = "clash", !.uid = u, !.loaded = users[u]]
                EXCEPT !.email = e, !.password = p]
    <3> DEFINE oauth(u, e, i) ==
            [[Idle EXCEPT !.pc = "clash", !.uid = u, !.loaded = users[u]]
                EXCEPT !.identity = i, !.email = e]
    <3>1. \A u, e, x : /\ mail(u, e, x).pc = "clash" /\ mail(u, e, x).uid = u
                       /\ oauth(u, e, x).pc = "clash" /\ oauth(u, e, x).uid = u
      BY DEF Idle
    <3>2. PICK u \in Users :
            /\ Known(u) /\ Active(u)
            /\ \/ \E e \in Emails, p \in Passwords : Serve(s, "upgrade", mail(u, e, p))
               \/ \E i \in Identities, e \in Emails \cup {None} : Serve(s, "upgrade", oauth(u, e, i))
      BY <1>2 DEF UpgradeFind
    <3> HIDE DEF mail, oauth
    <3> QED
      BY <3>1, <3>2 DEF Serve
  <2>2. Usable(s, u)
    BY <2>1, OccupiedIsUsable DEF Active
  <2> QED
    BY <1>2, <2>1, <2>2, ReaderKeeps DEF UpgradeFind
<1>3. CASE UpgradeClash(s)
  <2>1. AccountsKept(s) /\ DevicesKept(s) /\ GrantsKept(s) /\ UNCHANGED <<purge, grants>>
    BY <1>3 DEF UpgradeClash, AccountsKept, DevicesKept, GrantsKept, Row
  <2>2. Goto(s, "hash") \/ Finish(s)
    BY <1>3 DEF UpgradeClash
  <2> QED
    BY <1>3, <2>1, <2>2, MoveKeeps, EndKeeps DEF UpgradeClash, At, Loose
<1>4. CASE UpgradeFlush(s)
  <2>1. DevicesKept(s) /\ GrantsKept(s) /\ UNCHANGED <<purge, grants>>
    BY <1>4 DEF UpgradeFlush, DevicesKept, GrantsKept, Row
  <2>2. CASE Finish(s) /\ UNCHANGED users
    BY <2>1, <2>2, EndKeeps DEF AccountsKept
  <2>3. CASE Update(call[s].uid, Upgraded(call[s])) /\ Goto(s, "detach")
    <3>1. Stored(call[s].uid) => Upgraded(call[s]).row = users[call[s].uid].row
      BY <1>1 DEF Stored, Upgraded, TypeOK, User
    <3>2. AccountsKept(s)
      BY <1>4, <2>3, <3>1, FlushKeeps, OwnIsUsable DEF UpgradeFlush, At, Loose, Usable, Stored
    <3> QED
      BY <1>4, <2>1, <2>3, <3>2, MoveKeeps DEF UpgradeFlush, At, Loose
  <2> QED
    BY <1>4, <2>2, <2>3 DEF UpgradeFlush
<1>5. CASE UpgradeDetach(s)
  <2>1. UNCHANGED <<users, purge>> /\ DevicesKept(s)
    BY <1>5, DropKeeps DEF UpgradeDetach
  <2>2. PICK u : u = call[s].uid
    OBVIOUS
  <2>3. u # None => u \in Users /\ Born(u)' /\ Free(s, u)
    BY <1>1, <1>5, <2>1, <2>2, OwnIsUsable DEF UpgradeDetach, At, Loose, Usable, Born
  <2>4. Finish(s) /\ GrantsKept(s)
    BY <1>5, <2>2, <2>3, ReplyKeeps DEF UpgradeDetach
  <2> QED
    BY <2>1, <2>4, EndKeeps DEF AccountsKept
<1> QED
  BY <1>2, <1>3, <1>4, <1>5

\* findOrCreateOAuthUser.
LEMMA OAuthKeeps ==
    ASSUME OInv, TypeOK', NEW s \in Slots,
           OAuthByProvider(s) \/ OAuthByEmail(s) \/ OAuthLink(s) \/ OAuthCreate(s)
    PROVE  OInv'
<1>1. TypeOK /\ call[s] \in Call /\ call[s].uid \in Users \cup {None}
  BY DEF OInv, TypeOK, Call
<1>2. CASE OAuthByProvider(s)
  <2>1. UNCHANGED <<users, devices, purge>>
    BY <1>2 DEF OAuthByProvider
  <2>2. AccountsKept(s) /\ DevicesKept(s)
    BY <2>1 DEF AccountsKept, DevicesKept, Row
  <2>3. PICK i \in Identities, e \in Emails \cup {None}, v \in BOOLEAN :
          /\ v => e # None
          /\ \/ /\ Serve(s, "oauth", [[Idle EXCEPT !.identity = i, !.email = e, !.verified = v]
                                EXCEPT !.pc = IF v THEN "byEmail" ELSE "create"])
                /\ UNCHANGED grants
             \/ \E u \in {u \in Users : Active(u) /\ i \in users[u].oauthLinks} :
                Reply(s, "oauth", u, users[u].tokenVersion, i)
    BY <1>2 DEF OAuthByProvider
  <2>4. CASE /\ Serve(s, "oauth", [[Idle EXCEPT !.identity = i, !.email = e, !.verified = v]
                                EXCEPT !.pc = IF v THEN "byEmail" ELSE "create"])
             /\ UNCHANGED grants
    <3>1. PICK c : /\ c.pc = (IF v THEN "byEmail" ELSE "create") /\ c.uid = None /\ c.email = e
                   /\ call' = [call EXCEPT ![s] = c]
      BY <2>4 DEF Serve, Idle
    <3> QED
      BY <2>1, <2>3, <2>4, <3>1, ReaderKeeps
  <2>5. CASE \E u \in {u \in Users : Active(u) /\ i \in users[u].oauthLinks} :
                Reply(s, "oauth", u, users[u].tokenVersion, i)
    <3>1. PICK u \in Users : /\ Active(u) /\ i \in users[u].oauthLinks
                             /\ Reply(s, "oauth", u, users[u].tokenVersion, i)
      BY <2>5
    <3>2. Usable(s, u)
      BY <3>1, OccupiedIsUsable DEF Active
    <3>3. Finish(s) /\ GrantsKept(s)
      BY <2>1, <3>1, <3>2, ReplyKeeps DEF Usable, Born
    <3> QED
      BY <2>1, <2>2, <3>3, EndKeeps
  <2> QED
    BY <2>3, <2>4, <2>5
<1>3. CASE OAuthByEmail(s)
  <2>1. UNCHANGED <<users, devices, purge, grants>>
    BY <1>3 DEF OAuthByEmail
  <2>2. CASE Goto(s, "create")
    BY <1>3, <2>1, <2>2, MoveKeeps DEF OAuthByEmail, At, Loose, AccountsKept, DevicesKept, Row
  <2>3. CASE \E u \in Users : /\ Active(u) /\ users[u].email = call[s].email
                              /\ call' = [call EXCEPT ![s].pc = "link", ![s].uid = u,
                                                      ![s].loaded = users[u]]
    <3>1. PICK u \in Users : /\ Active(u) /\ users[u].email = call[s].email
                             /\ call' = [call EXCEPT ![s].pc = "link", ![s].uid = u,
                                                     ![s].loaded = users[u]]
      BY <2>3
    <3>2. PICK c : /\ c = [call[s] EXCEPT !.pc = "link", !.uid = u, !.loaded = users[u]]
                   /\ call' = [call EXCEPT ![s] = c]
      BY <1>1, <3>1 DEF TypeOK
    <3>3. c.pc = "link" /\ c.uid = u
      BY <1>1, <3>2 DEF Call
    <3>4. users[u].email # None
      BY <1>3, <3>1 DEF OInv, Looking, OAuthByEmail, At
    <3>5. Usable(s, u)
      BY <3>1, <3>4, OccupiedIsUsable DEF Active
    <3> QED
      BY <2>1, <3>2, <3>3, <3>5, ReaderKeeps
  <2> QED
    BY <1>3, <2>2, <2>3 DEF OAuthByEmail
<1>4. CASE OAuthLink(s)
  <2>1. PICK u, doc : /\ u = call[s].uid
                      /\ doc = [users[u] EXCEPT
                                    !.oauthLinks = call[s].loaded.oauthLinks \cup {call[s].identity}]
    OBVIOUS
  <2>2. /\ Update(u, doc)
        /\ Reply(s, "oauth", u, call[s].loaded.tokenVersion, call[s].identity)
        /\ UNCHANGED <<devices, purge>>
    BY <1>4, <2>1 DEF OAuthLink
  <2>3. Stored(u) => doc.row = users[u].row
    BY <1>1, <2>1 DEF Stored, TypeOK, User
  <2>4. u # None => Usable(s, u)
    BY <1>1, <1>4, <2>1, OwnIsUsable DEF OAuthLink, At, Loose
  <2>5. AccountsKept(s)
    BY <2>2, <2>3, <2>4, NoneAssumption, FlushKeeps DEF Usable, Stored
  <2>6. u # None => Born(u)'
    BY <2>4, <2>5 DEF AccountsKept, Usable, Born
  <2>7. Finish(s) /\ GrantsKept(s)
    BY <2>2, <2>4, <2>6, ReplyKeeps DEF Usable
  <2> QED
    BY <2>2, <2>5, <2>7, EndKeeps DEF DevicesKept, Row
<1>5. CASE OAuthCreate(s)
  <2>1. PICK u, doc :
          /\ u \in Users /\ users[u].row = "unborn" /\ Free(s, u)
          /\ doc.row = "stored"
          /\ \/ Finish(s) /\ UNCHANGED <<users, grants>>
             \/ users' = [users EXCEPT ![u] = doc] /\ Reply(s, "oauth", u, 0, call[s].identity)
          /\ UNCHANGED <<devices, purge>>
    <3>1. PICK doc : doc = [NewUser EXCEPT !.accountType = "user", !.email = call[s].email,
                                           !.oauthLinks = {call[s].identity}]
      OBVIOUS
    <3>2. doc.row = "stored"
      BY <3>1 DEF NewUser
    <3> QED
      BY <1>5, <3>1, <3>2, FreshIsFree DEF OAuthCreate, Fresh
  <2>2. CASE Finish(s) /\ UNCHANGED <<users, grants>>
    BY <2>1, <2>2, EndKeeps DEF AccountsKept, DevicesKept, GrantsKept, Row
  <2>3. CASE users' = [users EXCEPT ![u] = doc] /\ Reply(s, "oauth", u, 0, call[s].identity)
    <3>1. users'[u] = doc /\ \A v \in Users \ {u} : users'[v] = users[v]
      BY <1>1, <2>3 DEF TypeOK
    <3>2. AccountsKept(s) /\ Born(u)'
      BY <2>1, <3>1 DEF AccountsKept, Born
    <3>3. Finish(s) /\ GrantsKept(s)
      BY <2>1, <2>3, <3>2, ReplyKeeps
    <3> QED
      BY <2>1, <3>2, <3>3, EndKeeps DEF DevicesKept, Row
  <2> QED
    BY <2>1, <2>2, <2>3
<1> QED
  BY <1>2, <1>3, <1>4, <1>5

\* forgotPassword and resetPassword.
LEMMA PasswordKeeps ==
    ASSUME OInv, TypeOK', NEW s \in Slots,
           \/ ForgotFind(s) \/ ForgotStore(s) \/ ForgotMail(s)
           \/ ResetFind(s) \/ ResetApply(s)
    PROVE  OInv'
<1>1. TypeOK /\ call[s].uid \in Users \cup {None}
  BY DEF OInv, TypeOK, Call
<1>2. CASE ForgotFind(s)
  <2>1. PICK u \in Users, t \in ResetTokens :
          /\ Active(u) /\ users[u].email # None
          /\ Serve(s, "forgot", [Idle EXCEPT !.pc = "store", !.uid = u, !.token = t,
                                            !.loaded = users[u]])
    BY <1>2 DEF ForgotFind
  <2>2. PICK c : /\ c.pc = "store" /\ c.uid = u
                 /\ call' = [call EXCEPT ![s] = c]
    BY <2>1 DEF Serve, Idle
  <2>3. Usable(s, u)
    BY <2>1, OccupiedIsUsable DEF Active
  <2> QED
    BY <1>2, <2>2, <2>3, ReaderKeeps DEF ForgotFind
<1>3. CASE ResetFind(s)
  <2>1. PICK u \in Users, t \in mailed \ lapsed, p \in Passwords :
          /\ Active(u) /\ users[u].resetPasswordToken = t
          /\ Serve(s, "reset", [Idle EXCEPT !.pc = "apply", !.uid = u, !.token = t,
                                            !.password = p, !.loaded = users[u]])
    BY <1>3 DEF ResetFind, Matches
  <2>2. PICK c : /\ c.pc = "apply" /\ c.uid = u
                 /\ call' = [call EXCEPT ![s] = c]
    BY <2>1 DEF Serve, Idle
  <2>3. Usable(s, u)
    BY <1>1, <2>1, OccupiedIsUsable, NoneAssumption DEF Active, TypeOK
  <2> QED
    BY <1>3, <2>2, <2>3, ReaderKeeps DEF ResetFind
<1>4. ASSUME NEW doc, Update(call[s].uid, doc), call[s].pc \in {"store", "apply"},
             Stored(call[s].uid) => doc.row = users[call[s].uid].row
      PROVE  AccountsKept(s)
  BY <1>4, FlushKeeps, OwnIsUsable DEF Usable, Stored, Loose
<1>5. CASE ForgotStore(s)
  <2>1. Stored(call[s].uid)
          => [users[call[s].uid] EXCEPT !.resetPasswordToken = call[s].token].row
                = users[call[s].uid].row
    BY <1>1 DEF Stored, TypeOK, User
  <2>2. AccountsKept(s)
    BY <1>4, <1>5, <2>1 DEF ForgotStore, At
  <2> QED
    BY <1>5, <2>2, MoveKeeps DEF ForgotStore, At, Loose, DevicesKept, Row
<1>6. CASE ResetApply(s)
  <2>1. Stored(call[s].uid) => WithNewPassword(call[s]).row = users[call[s].uid].row
    BY <1>1 DEF Stored, TypeOK, User, WithNewPassword
  <2>2. AccountsKept(s)
    BY <1>4, <1>6, <2>1 DEF ResetApply, At
  <2> QED
    BY <1>6, <2>2, EndKeeps DEF ResetApply, DevicesKept, GrantsKept, Row
<1>7. CASE ForgotMail(s)
  BY <1>7, EndKeeps DEF ForgotMail, AccountsKept, DevicesKept, GrantsKept, Row
<1> QED
  BY <1>2, <1>3, <1>5, <1>6, <1>7

\* deleteUser.
LEMMA DeleteKeeps ==
    ASSUME OInv, TypeOK', NEW s \in Slots,
           DeleteFind(s) \/ DeleteStage(s) \/ DeleteInsertEvent(s) \/ DeleteScrub(s)
    PROVE  OInv'
<1>1. TypeOK /\ call[s].uid \in Users \cup {None}
  BY DEF OInv, TypeOK, Call
<1>2. CASE DeleteFind(s)
  <2>1. PICK u \in Users :
          /\ Known(u) /\ Active(u)
          /\ Serve(s, "delete", [Idle EXCEPT !.pc = "stage", !.uid = u, !.loaded = users[u]])
    BY <1>2 DEF DeleteFind
  <2>2. PICK c : /\ c.pc = "stage" /\ c.uid = u
                 /\ call' = [call EXCEPT ![s] = c]
    BY <2>1 DEF Serve, Idle
  <2>3. Usable(s, u)
    BY <2>1, OccupiedIsUsable DEF Active
  <2> QED
    BY <1>2, <2>2, <2>3, ReaderKeeps DEF DeleteFind
<1>3. CASE DeleteStage(s) \/ DeleteInsertEvent(s)
  <2>1. UNCHANGED <<users, devices, purge, grants>>
    BY <1>3 DEF DeleteStage, DeleteInsertEvent
  <2>2. AccountsKept(s) /\ DevicesKept(s) /\ GrantsKept(s)
    BY <2>1 DEF AccountsKept, DevicesKept, GrantsKept, Row
  <2>3. Goto(s, "scrub") \/ Goto(s, "insertEvent") \/ Finish(s)
    BY <1>3 DEF DeleteStage, DeleteInsertEvent
  <2> QED
    BY <1>3, <2>1, <2>2, <2>3, MoveKeeps, EndKeeps DEF DeleteStage, DeleteInsertEvent, At, Loose
<1>4. CASE DeleteScrub(s)
  <2>1. Stored(call[s].uid) => Deleted(call[s]).row = users[call[s].uid].row
    BY <1>1 DEF Stored, TypeOK, User, Deleted
  <2>2. AccountsKept(s)
    BY <1>4, <2>1, FlushKeeps, OwnIsUsable DEF DeleteScrub, At, Loose, Usable, Stored
  <2> QED
    BY <1>4, <2>2, EndKeeps DEF DeleteScrub, DevicesKept, GrantsKept, Row
<1> QED
  BY <1>2, <1>3, <1>4

----------------------------------------------------------------------------
(* The purge and the outside world.                                        *)

\* The purge lists no lone account, and no half purged one has a device.
LEMMA PurgeKeeps ==
    ASSUME OInv, TypeOK', PurgeTask
    PROVE  OInv'
<1>1. TypeOK /\ \A u \in Users : users[u] \in User
  BY DEF OInv, TypeOK
<1>2. NewUser.deletedAt = "no" /\ NewUser.row = "stored"
  BY DEF NewUser
<1>3. \A d \in Devices : Row(d) => devices[d].userId \in Users
                              /\ users[devices[d].userId].row # "gone"
  BY DEF OInv, Owned
<1>4. CASE PurgeList
  <2>1. /\ purge'.victims = {u \in Users : PastGrace(u)} /\ purge'.half = None
        /\ UNCHANGED <<users, devices, call, grants>>
    BY <1>4 DEF PurgeList
  <2>2. \A u \in purge'.victims : users[u] # NewUser /\ Born(u)
    BY <1>2, <2>1 DEF PastGrace, Stored, Born
  <2>3. HalfBare' /\ OnlyBorn'
    BY <2>1, <2>2 DEF OInv, HalfBare, OnlyBorn, Born
  <2>4. ASSUME NEW r \in Slots, call[r].pc = "insertDevice" PROVE Lone(r)'
    BY <2>1, <2>2, <2>4 DEF OInv, Lone, Known, Row
  <2> QED
    BY <2>1, <2>3, <2>4 DEF OInv, Owned, Looking, Reserved, Born, Row
<1>5. ASSUME NEW u \in Users, PurgeDevices(u) PROVE OInv'
  <2>1. /\ u \in purge.victims /\ DropDevices(DevicesOf(u))
        /\ purge' = [purge EXCEPT !.half = u]
        /\ UNCHANGED <<users, call, grants>>
    BY <1>5 DEF PurgeDevices
  <2>2. \A d \in Devices : Row(d)' => Row(d) /\ devices'[d] = devices[d] /\ devices[d].userId # u
    BY <2>1 DEF DropDevices, DevicesOf, Row, NoDevice
  <2>3. purge'.victims = purge.victims /\ purge'.half = u
    BY <1>1, <2>1 DEF TypeOK
  <2>4. HalfBare'
    BY <2>1, <2>2, <2>3 DEF HalfBare
  <2> QED
    BY <1>3, <2>1, <2>2, <2>3, <2>4 DEF OInv, Owned, OnlyBorn, Born, Lone, Reserved, Known, Looking
<1>6. ASSUME NEW u \in Users, PurgeUser(u) PROVE OInv'
  <2>1. /\ purge.half = u /\ purge'.victims = purge.victims \ {u} /\ purge'.half = None
        /\ UNCHANGED <<devices, call, grants>>
        /\ users' = IF Stored(u) THEN [users EXCEPT ![u] = [Unborn EXCEPT !.row = "gone"]] ELSE users
    BY <1>6 DEF PurgeUser
  <2>2. /\ u \in purge.victims /\ Born(u)
        /\ \A d \in Devices : Row(d) => devices[d].userId # u
    BY <2>1, NoneAssumption DEF OInv, HalfBare, OnlyBorn
  <2>3. [Unborn EXCEPT !.row = "gone"].row = "gone"
    BY DEF Unborn, NewUser
  <2>4. /\ users'[u] = users[u] \/ users'[u].row = "gone"
        /\ \A v \in Users \ {u} : users'[v] = users[v]
    BY <1>1, <2>1, <2>3 DEF TypeOK
  <2>5. \A v \in Users : Born(v) => Born(v)'
    BY <2>4 DEF Born
  <2>6. Owned'
    BY <1>3, <2>1, <2>2, <2>4 DEF Owned, Row
  <2>7. OnlyBorn'
    BY <1>1, <2>1, <2>5 DEF OInv, OnlyBorn, TypeOK
  <2>8. ASSUME NEW r \in Slots, call[r].pc = "insertDevice" PROVE Lone(r)'
    <3>1. Lone(r) /\ call[r].uid # u
      BY <2>2, <2>8 DEF OInv, Lone
    <3> QED
      BY <2>1, <2>4, <3>1 DEF Lone, Known, Row
  <2>9. HalfBare'
    BY <2>1 DEF HalfBare
  <2>10. \A r \in Slots : (call[r].pc = "insertUser" => Reserved(r))'
    BY <2>1, <2>2, <2>4 DEF OInv, Reserved, Born
  <2> QED
    BY <2>1, <2>6, <2>7, <2>8, <2>9, <2>10 DEF OInv, Looking
<1> QED
  BY <1>4, <1>5, <1>6 DEF PurgeTask

----------------------------------------------------------------------------
\* Aborts leave accounts without a device, never a device without an account.
LEMMA EnvironmentKeeps ==
    ASSUME OInv, TypeOK', Environment
    PROVE  OInv'
<1>1. TypeOK /\ \A u \in Users : users[u] \in User
  BY DEF OInv, TypeOK
<1>2. ASSUME UNCHANGED <<users, devices, purge, call, grants>> PROVE OInv'
  BY <1>2 DEF OInv, Owned, OnlyBorn, HalfBare, Lone, Reserved, Looking, Born, Known, Row
<1>3. CASE Block
  <2>1. PICK d \in Devices : devices' = [devices EXCEPT ![d].isBlocked = TRUE]
    BY <1>3 DEF Block
  <2>2. \A e \in Devices : Row(e)' = Row(e) /\ devices'[e].userId = devices[e].userId
    BY <1>1, <2>1 DEF TypeOK, Device, Row
  <2>3. UNCHANGED <<users, purge, call, grants>>
    BY <1>3 DEF Block
  <2> QED
    BY <2>2, <2>3 DEF OInv, Owned, OnlyBorn, HalfBare, Lone, Reserved, Looking, Born, Known
<1>4. ASSUME NEW u \in Users, users[u].deletedAt = "recent", NEW age \in {"no", "old"},
             users' = [users EXCEPT ![u].deletedAt = age],
             UNCHANGED <<devices, purge, call, grants>>
      PROVE  OInv'
  <2>1. /\ users'[u].row = users[u].row
        /\ \A v \in Users \ {u} : users'[v] = users[v]
    BY <1>1, <1>4 DEF TypeOK, User
  <2>2. users[u] # NewUser
    BY <1>4 DEF NewUser
  <2>3. \A v \in Users : users'[v].row = users[v].row /\ Born(v)' = Born(v)
    BY <2>1 DEF Born
  <2>4. ASSUME NEW r \in Slots, call[r].pc = "insertDevice" PROVE Lone(r)'
    <3>1. Lone(r)
      BY <2>4 DEF OInv
    <3> QED
      BY <1>4, <2>1, <2>2, <3>1 DEF Lone, Known, Row
  <2>5. Owned' /\ HalfBare' /\ \A r \in Slots : Looking(r)'
    BY <1>4, <2>3 DEF OInv, Owned, HalfBare, Looking, Row
  <2>6. OnlyBorn'
    BY <1>1, <1>4, <2>3 DEF OInv, OnlyBorn, TypeOK
  <2>7. \A r \in Slots : (call[r].pc = "insertUser" => Reserved(r))'
    BY <1>4, <2>3 DEF OInv, Reserved
  <2> QED
    BY <1>4, <2>4, <2>5, <2>6, <2>7 DEF OInv
<1>5. CASE Age \/ Revive
  BY <1>4, <1>5 DEF Age, Revive
<1>6. ASSUME NEW s \in Slots, Abort(s) PROVE OInv'
  BY <1>6, EndKeeps DEF Abort, AccountsKept, DevicesKept, GrantsKept, Row
<1>7. ASSUME NEW u \in Users, PurgeSkip(u) PROVE OInv'
  <2>1. /\ purge'.victims \subseteq purge.victims /\ purge'.half = None
        /\ UNCHANGED <<users, devices, call, grants>>
    BY <1>7 DEF PurgeSkip
  <2> QED
    BY <2>1 DEF OInv, Owned, OnlyBorn, HalfBare, Lone, Reserved, Looking, Born, Known, Row
<1> QED
  BY <1>2, <1>3, <1>5, <1>6, <1>7 DEF Environment, Lapse

----------------------------------------------------------------------------

\* The invariant.
LEMMA OInvInit == Init => OInv
<1>1. Unborn.row = "unborn" /\ NoDevice.row = "unborn" /\ Idle.pc = "idle" /\ Idle.uid = None
  BY DEF Unborn, NoDevice, Idle
<1>2. Init => TypeOK
  BY DefaultsTyped DEF Init, TypeOK
<1> QED
  BY <1>1, <1>2, NoneAssumption DEF Init, OInv, Owned, OnlyBorn, HalfBare, Lone, Reserved, Looking, Row

\* Every step keeps the invariant.
LEMMA OInvStep == OInv /\ InFlight /\ [Next]_vars => OInv'
<1> SUFFICES ASSUME OInv, InFlight, [Next]_vars PROVE OInv'
  OBVIOUS
<1>1. TypeOK'
  BY TypeStep DEF OInv
<1>2. CASE UNCHANGED vars
  BY <1>1, <1>2 DEF vars, OInv, Owned, OnlyBorn, HalfBare, Lone, Reserved, Looking, Born, Known, Row
<1>3. ASSUME NEW s \in Slots, Handler(s) PROVE OInv'
  BY <1>1, <1>3, AutoregKeeps, LoginKeeps, UpgradeKeeps, OAuthKeeps, PasswordKeeps, DeleteKeeps
     DEF Handler
<1> QED
  BY <1>1, <1>2, <1>3, PurgeKeeps, EnvironmentKeeps DEF Next

\* UserPurgeTask and createAutoregUser: whatever handlers interleave, in
\* whichever order autoreg's two documents are written and in whichever step
\* a purge fails, no device outlives its account.
THEOREM DevicesHaveOwners == Spec => []NoOrphanDevice
<1>1. OInv => NoOrphanDevice
  BY DEF OInv, Owned, NoOrphanDevice
<1>2. Spec => []OInv
  BY OInvInit, OInvStep, TypeCorrect, PTL DEF Spec
<1> QED
  BY <1>1, <1>2, PTL

----------------------------------------------------------------------------
(* The purge wipes nothing early, although it works on a list that is      *)
(* older than its deletes.                                                 *)

Deleting == {"stage", "insertEvent", "scrub"}

\* What is past the grace window stays so: no handler that could write
\* deletedAt has the account in hand any more.
Settled(s) == call[s].pc \in Deleting => call[s].uid \in Users /\ users[call[s].uid].deletedAt # "old"

GInv ==
    /\ \A u \in purge.victims : users[u].deletedAt = "old"
    /\ \A s \in Slots : Settled(s)

----------------------------------------------------------------------------

\* What a handler does to an account and the date of its deletion.
DateKept(u) ==
    /\ users'[u].row = "gone" => users[u].row = "gone"
    /\ \/ users'[u].deletedAt = users[u].deletedAt
       \/ users[u].row = "unborn" /\ users'[u].deletedAt = "no"
       \/ users[u].deletedAt # "old" /\ users'[u].deletedAt = "recent"

\* A flush into a stored document.
LEMMA FlushDate ==
    ASSUME TypeOK, NEW v, NEW doc, Update(v, doc),
           Stored(v) => doc.row = users[v].row /\ doc.deletedAt \in {users[v].deletedAt, "recent"},
           Stored(v) /\ users[v].deletedAt = "old" => doc.deletedAt = "old"
    PROVE  \A u \in Users : DateKept(u)
BY DEF TypeOK, Update, Stored, DateKept

\* An insert.
LEMMA InsertDate ==
    ASSUME TypeOK, NEW v \in Users, NEW doc, users' = [users EXCEPT ![v] = doc],
           users[v].row = "unborn", doc.row = "stored", doc.deletedAt = "no"
    PROVE  \A u \in Users : DateKept(u)
BY DEF TypeOK, DateKept

\* Every handler: only deleteUser sets a date, and only on an account that is
\* not past the window.
LEMMA HandlerDate ==
    ASSUME OInv, GInv, NEW s \in Slots, Handler(s)
    PROVE  \A u \in Users : DateKept(u)
<1>t. TypeOK
  BY DEF OInv
<1>0. ASSUME Stored(call[s].uid) PROVE users[call[s].uid] \in User
  BY <1>0, <1>t DEF TypeOK, Stored
<1>1. CASE UNCHANGED users
  BY <1>1 DEF DateKept
<1>2. CASE AutoregUserFirst(s) \/ AutoregInsertUser(s)
  <2>1. PICK v \in Users : users[v].row = "unborn" /\ users' = [users EXCEPT ![v] = NewUser]
    BY <1>2 DEF AutoregUserFirst, Fresh, AutoregInsertUser, At, OInv, Reserved, Born
  <2>2. NewUser.row = "stored" /\ NewUser.deletedAt = "no"
    BY DEF NewUser
  <2> QED
    BY <1>t, <2>1, <2>2, InsertDate
<1>3. CASE UpgradeFlush(s)
  <2>1. Stored(call[s].uid) => /\ Upgraded(call[s]).row = users[call[s].uid].row
                               /\ Upgraded(call[s]).deletedAt = users[call[s].uid].deletedAt
    BY <1>0 DEF Upgraded, User
  <2> QED
    BY <1>1, <1>3, <1>t, <2>1, FlushDate DEF UpgradeFlush
<1>4. CASE OAuthLink(s)
  <2>1. Stored(call[s].uid) =>
          LET doc == [users[call[s].uid] EXCEPT
                         !.oauthLinks = call[s].loaded.oauthLinks \cup {call[s].identity}]
          IN  doc.row = users[call[s].uid].row /\ doc.deletedAt = users[call[s].uid].deletedAt
    BY <1>0 DEF User
  <2> QED
    BY <1>4, <1>t, <2>1, FlushDate DEF OAuthLink
<1>5. CASE OAuthCreate(s)
  <2>1. PICK doc : doc = [NewUser EXCEPT !.accountType = "user", !.email = call[s].email,
                                         !.oauthLinks = {call[s].identity}]
    OBVIOUS
  <2>2. doc.row = "stored" /\ doc.deletedAt = "no"
    BY <2>1 DEF NewUser
  <2>3. PICK v \in Users : users[v].row = "unborn" /\ (UNCHANGED users \/ users' = [users EXCEPT ![v] = doc])
    BY <1>5, <2>1 DEF OAuthCreate, Fresh
  <2> QED
    BY <1>t, <1>1, <2>2, <2>3, InsertDate
<1>6. CASE ForgotStore(s)
  <2>1. Stored(call[s].uid) =>
          LET doc == [users[call[s].uid] EXCEPT !.resetPasswordToken = call[s].token]
          IN  doc.row = users[call[s].uid].row /\ doc.deletedAt = users[call[s].uid].deletedAt
    BY <1>0 DEF User
  <2> QED
    BY <1>6, <1>t, <2>1, FlushDate DEF ForgotStore
<1>7. CASE ResetApply(s)
  <2>1. Stored(call[s].uid) => /\ WithNewPassword(call[s]).row = users[call[s].uid].row
                               /\ WithNewPassword(call[s]).deletedAt = users[call[s].uid].deletedAt
    BY <1>0 DEF WithNewPassword, User
  <2> QED
    BY <1>7, <1>t, <2>1, FlushDate DEF ResetApply
<1>8. CASE DeleteScrub(s)
  <2>1. Stored(call[s].uid) => /\ Deleted(call[s]).row = users[call[s].uid].row
                               /\ Deleted(call[s]).deletedAt = "recent"
    BY <1>0 DEF Deleted, User
  <2>2. users[call[s].uid].deletedAt # "old"
    BY <1>8 DEF GInv, Settled, Deleting, DeleteScrub, At
  <2> QED
    BY <1>8, <2>1, <1>t, <2>2, FlushDate DEF DeleteScrub
<1> QED
  BY <1>1, <1>2, <1>3, <1>4, <1>5, <1>6, <1>7, <1>8
     DEF Handler, AutoregFind, AutoregLinked, AutoregTouch, AutoregDropStale,
         AutoregDeviceFirst, AutoregInsertDevice, LoginFind, LoginVerify, UpgradeFind, UpgradeClash,
         UpgradeDetach, OAuthByProvider, OAuthByEmail, ForgotFind, ForgotMail, ResetFind,
         DeleteFind, DeleteStage, DeleteInsertEvent

----------------------------------------------------------------------------
(* Only deleteUser gets to the awaits of a deletion.                       *)

Stays(s) == call'[s].pc \notin Deleting \/ (call[s].pc \in Deleting /\ call'[s].uid = call[s].uid)

\* A handler that starts.
LEMMA ServeStays ==
    ASSUME TypeOK, NEW s \in Slots, NEW p, NEW c, Serve(s, p, c), c.pc \notin Deleting
    PROVE  Stays(s)
BY DEF TypeOK, Serve, Stays

\* One that goes to another await.
LEMMA GotoStays ==
    ASSUME TypeOK, NEW s \in Slots, NEW pc, Goto(s, pc),
           pc \notin Deleting \/ call[s].pc \in Deleting
    PROVE  Stays(s)
<1>1. call'[s].uid = call[s].uid /\ call'[s].pc = pc
  BY DEF TypeOK, Call, Goto
<1> QED
  BY <1>1 DEF Stays

\* One that ends.
LEMMA FinishStays ==
    ASSUME TypeOK, NEW s \in Slots, Finish(s)
    PROVE  Stays(s)
BY DEF TypeOK, Finish, Idle, Stays, Deleting

\* Every handler but the start of deleteUser.
LEMMA HandlerStays ==
    ASSUME TypeOK, NEW s \in Slots, Handler(s)
    PROVE  Stays(s) \/ DeleteFind(s)
<1> USE DEF Deleting
<1>1. CASE AutoregFind(s)
  BY <1>1, ServeStays DEF AutoregFind, Idle
<1>2. CASE AutoregLinked(s)
  <2>1. [call[s] EXCEPT !.pc = "touch", !.loaded = users[call[s].uid]].pc = "touch"
    BY DEF TypeOK, Call
  <2>2. CASE StillAnonymous(call[s].uid)
    BY <1>2, <2>1, <2>2 DEF AutoregLinked, TypeOK, Stays
  <2> QED
    BY <1>2, <2>2, GotoStays DEF AutoregLinked
<1>3. CASE AutoregUserFirst(s) \/ AutoregDeviceFirst(s)
  <2>1. ASSUME NEW u \in Users, NEW pc \in {"insertDevice", "insertUser"},
               call' = [call EXCEPT ![s].pc = pc, ![s].uid = u]
        PROVE  Stays(s)
    BY <2>1 DEF TypeOK, Call, Stays
  <2> QED
    BY <1>3, <2>1, FinishStays DEF AutoregUserFirst, AutoregDeviceFirst
<1>4. CASE \/ AutoregTouch(s) \/ AutoregInsertUser(s) \/ AutoregInsertDevice(s) \/ LoginVerify(s)
           \/ UpgradeDetach(s) \/ OAuthLink(s) \/ OAuthCreate(s) \/ ForgotMail(s) \/ ResetApply(s)
           \/ DeleteScrub(s)
  BY <1>4, FinishStays DEF AutoregTouch, AutoregInsertUser, AutoregInsertDevice, LoginVerify,
      UpgradeDetach, OAuthLink, OAuthCreate, ForgotMail, ResetApply, DeleteScrub, Reply
<1>5. CASE AutoregDropStale(s) \/ UpgradeClash(s) \/ UpgradeFlush(s) \/ ForgotStore(s)
  BY <1>5, GotoStays, FinishStays DEF AutoregDropStale, UpgradeClash, UpgradeFlush, ForgotStore
<1>6. CASE DeleteStage(s) \/ DeleteInsertEvent(s)
  BY <1>6, GotoStays, FinishStays DEF DeleteStage, DeleteInsertEvent, At
<1>7. CASE LoginFind(s) \/ ForgotFind(s) \/ ResetFind(s)
  <2>1. CASE LoginFind(s)
    <3>1. PICK p \in Passwords, u \in Users :
            Serve(s, "login", [Idle EXCEPT !.pc = "verify", !.uid = u, !.password = p,
                                           !.loaded = users[u]])
      BY <2>1 DEF LoginFind
    <3>2. [Idle EXCEPT !.pc = "verify", !.uid = u, !.password = p, !.loaded = users[u]].pc = "verify"
      BY DEF Idle
    <3> QED
      BY <3>1, <3>2, ServeStays
  <2>2. CASE ForgotFind(s)
    <3>1. PICK u \in Users, t \in ResetTokens :
            Serve(s, "forgot", [Idle EXCEPT !.pc = "store", !.uid = u, !.token = t,
                                            !.loaded = users[u]])
      BY <2>2 DEF ForgotFind
    <3>2. [Idle EXCEPT !.pc = "store", !.uid = u, !.token = t, !.loaded = users[u]].pc = "store"
      BY DEF Idle
    <3> QED
      BY <3>1, <3>2, ServeStays
  <2>3. CASE ResetFind(s)
    <3>1. PICK u \in Users, t \in mailed, p \in Passwords :
            Serve(s, "reset", [Idle EXCEPT !.pc = "apply", !.uid = u, !.token = t,
                                           !.password = p, !.loaded = users[u]])
      BY <2>3 DEF ResetFind
    <3>2. [Idle EXCEPT !.pc = "apply", !.uid = u, !.token = t, !.password = p,
                       !.loaded = users[u]].pc = "apply"
      BY DEF Idle
    <3> QED
      BY <3>1, <3>2, ServeStays
  <2> QED
    BY <1>7, <2>1, <2>2, <2>3
<1>8. CASE UpgradeFind(s)
  <2>1. \A u, doc :
          LET c == [Idle EXCEPT !.pc = "clash", !.uid = u, !.loaded = doc]
          IN  /\ \A e, p : [c EXCEPT !.email = e, !.password = p].pc = "clash"
              /\ \A i, e : [c EXCEPT !.identity = i, !.email = e].pc = "clash"
    BY DEF Idle
  <2> QED
    BY <1>8, <2>1, ServeStays DEF UpgradeFind
<1>9. CASE OAuthByProvider(s)
  <2>1. PICK i \in Identities, e \in Emails \cup {None}, v \in BOOLEAN :
          \/ Serve(s, "oauth", [[Idle EXCEPT !.identity = i, !.email = e, !.verified = v]
                                EXCEPT !.pc = IF v THEN "byEmail" ELSE "create"])
          \/ Finish(s)
    BY <1>9 DEF OAuthByProvider, Reply
  <2>2. PICK c : c = [[Idle EXCEPT !.identity = i, !.email = e, !.verified = v]
                        EXCEPT !.pc = IF v THEN "byEmail" ELSE "create"]
    OBVIOUS
  <2>3. c.pc \notin Deleting
    BY <2>2 DEF Idle
  <2> QED
    BY <2>1, <2>2, <2>3, ServeStays, FinishStays
<1>10. CASE OAuthByEmail(s)
  <2>1. ASSUME NEW u \in Users, call' = [call EXCEPT ![s].pc = "link", ![s].uid = u, ![s].loaded = users[u]]
        PROVE  call'[s].pc = "link"
    BY <2>1 DEF TypeOK, Call
  <2> QED
    BY <1>10, <2>1, GotoStays DEF OAuthByEmail, Stays
<1> QED
  BY <1>1, <1>2, <1>3, <1>4, <1>5, <1>6, <1>7, <1>8, <1>9, <1>10 DEF Handler

----------------------------------------------------------------------------

\* A step in which dates, victims and handlers change as allowed.
LEMMA GraceKept ==
    ASSUME OInv, GInv, TypeOK', \A u \in Users : DateKept(u),
           purge'.victims \subseteq purge.victims,
           \A s \in Slots : call'[s] = call[s] \/ Stays(s)
    PROVE  GInv'
<1>1. \A u \in purge.victims : u \in Users /\ users'[u].deletedAt = "old"
  BY DEF OInv, OnlyBorn, Born, GInv, TypeOK, DateKept
<1>2. ASSUME NEW s \in Slots PROVE Settled(s)'
  <2>1. \A u \in Users : users'[u].deletedAt = "old" => users[u].deletedAt = "old"
    BY DEF DateKept
  <2> QED
    BY <2>1 DEF GInv, Settled, Stays
<1> QED
  BY <1>1, <1>2 DEF GInv

\* Every step keeps the victims past the window.
LEMMA GInvStep == OInv /\ OInv' /\ GInv /\ [Next]_vars => GInv'
<1> SUFFICES ASSUME OInv, OInv', GInv, [Next]_vars PROVE GInv'
  OBVIOUS
<1>1. TypeOK /\ TypeOK' /\ \A u \in Users : users[u] \in User
  BY DEF OInv, TypeOK
<1>2. ASSUME NEW s \in Slots, Handler(s) PROVE GInv'
  <2>1. /\ UNCHANGED purge
        /\ \A r \in Slots \ {s} : call'[r] = call[r]
    BY <1>1, <1>2 DEF TypeOK, Handler, Serve, Goto, Finish, Reply, AutoregFind, AutoregLinked,
        AutoregTouch, AutoregDropStale, AutoregUserFirst, AutoregDeviceFirst, AutoregInsertUser,
        AutoregInsertDevice, LoginFind,
        LoginVerify, UpgradeFind, UpgradeClash, UpgradeFlush, UpgradeDetach, OAuthByProvider,
        OAuthByEmail, OAuthLink, OAuthCreate, ForgotFind, ForgotStore, ForgotMail, ResetFind, ResetApply,
        DeleteFind, DeleteStage, DeleteInsertEvent, DeleteScrub
  <2>2. \A u \in Users : DateKept(u)
    BY <1>1, <1>2, HandlerDate
  <2>3. CASE Stays(s)
    BY <1>1, <2>1, <2>2, <2>3, GraceKept
  <2>4. CASE DeleteFind(s)
    <3>1. PICK u \in Users :
            /\ Active(u)
            /\ Serve(s, "delete", [Idle EXCEPT !.pc = "stage", !.uid = u, !.loaded = users[u]])
      BY <2>4 DEF DeleteFind
    <3>2. call'[s].uid = u
      BY <1>1, <3>1 DEF Serve, Idle, TypeOK
    <3>3. users'[u].deletedAt # "old"
      BY <2>4, <3>1 DEF DeleteFind, Active
    <3> QED
      BY <2>1, <2>4, <3>2, <3>3 DEF GInv, Settled, DeleteFind
  <2> QED
    BY <1>1, <1>2, <2>3, <2>4, HandlerStays
<1>3. CASE PurgeList
  BY <1>3 DEF PurgeList, PastGrace, GInv, Settled
<1>4. ASSUME NEW u \in Users, PurgeDevices(u) \/ PurgeSkip(u) PROVE GInv'
  <2>1. purge'.victims \subseteq purge.victims /\ UNCHANGED <<users, call>>
    BY <1>1, <1>4 DEF PurgeDevices, PurgeSkip, TypeOK
  <2> QED
    BY <2>1 DEF GInv, Settled
<1>5. ASSUME NEW u \in Users, PurgeUser(u) PROVE GInv'
  <2>1. /\ purge'.victims = purge.victims \ {u} /\ UNCHANGED call
        /\ users' = IF Stored(u) THEN [users EXCEPT ![u] = [Unborn EXCEPT !.row = "gone"]] ELSE users
    BY <1>5 DEF PurgeUser
  <2>2. [Unborn EXCEPT !.row = "gone"].deletedAt = "no"
    BY DEF Unborn, NewUser
  <2>3. /\ \A v \in Users \ {u} : users'[v] = users[v]
        /\ users'[u] = users[u] \/ users'[u].deletedAt = "no"
    BY <1>1, <2>1, <2>2 DEF TypeOK
  <2>4. \A v \in purge'.victims : users'[v].deletedAt = "old"
    BY <1>1, <2>1, <2>3 DEF GInv, TypeOK
  <2>5. \A v \in Users : users'[v].deletedAt = "old" => users[v].deletedAt = "old"
    BY <2>3
  <2>6. \A s \in Slots : Settled(s)'
    BY <2>1, <2>5 DEF GInv, Settled
  <2> QED
    BY <2>4, <2>6 DEF GInv
<1>6. CASE Age
  <2>1. PICK u \in Users : /\ users[u].deletedAt = "recent"
                           /\ \A s \in Slots : call[s].uid # u
                           /\ users' = [users EXCEPT ![u].deletedAt = "old"]
    BY <1>6 DEF Age
  <2>2. /\ users'[u].deletedAt = "old" /\ \A v \in Users \ {u} : users'[v] = users[v]
        /\ UNCHANGED <<call, purge>>
    BY <1>1, <1>6, <2>1 DEF TypeOK, User, Age
  <2>3. \A v \in purge'.victims : users'[v].deletedAt = "old"
    BY <1>1, <2>2 DEF GInv, TypeOK
  <2>4. \A s \in Slots : Settled(s)'
    BY <2>1, <2>2 DEF GInv, Settled
  <2> QED
    BY <2>3, <2>4 DEF GInv
<1>7. CASE Revive
  <2>1. PICK u \in Users : /\ users[u].deletedAt = "recent"
                           /\ users' = [users EXCEPT ![u].deletedAt = "no"]
    BY <1>7 DEF Revive
  <2>2. /\ users'[u].deletedAt = "no" /\ \A v \in Users \ {u} : users'[v] = users[v]
        /\ UNCHANGED <<call, purge>>
    BY <1>1, <1>7, <2>1 DEF TypeOK, User, Revive
  <2> QED
    BY <1>1, <2>1, <2>2 DEF GInv, Settled, TypeOK
<1>8. ASSUME NEW s \in Slots, Abort(s) PROVE GInv'
  <2>1. Stays(s) /\ UNCHANGED <<users, purge>> /\ \A r \in Slots \ {s} : call'[r] = call[r]
    BY <1>1, <1>8, FinishStays DEF Abort, Finish, TypeOK
  <2> QED
    BY <1>1, <2>1, GraceKept DEF DateKept
<1>9. CASE Lapse \/ Block \/ UNCHANGED vars
  BY <1>9 DEF Lapse, Block, vars, GInv, Settled
<1> QED
  BY <1>2, <1>3, <1>4, <1>5, <1>6, <1>7, <1>8, <1>9 DEF Next, PurgeTask, Environment

\* A document that goes was past the window just before.
LEMMA GoneWasOld ==
    ASSUME OInv, GInv, [Next]_vars, NEW u \in Users, Stored(u), users'[u].row = "gone"
    PROVE  users[u].deletedAt = "old"
<1>1. TypeOK /\ users[u] \in User /\ users[u].row = "stored"
  BY DEF OInv, TypeOK, Stored
<1>2. ~\E s \in Slots : Handler(s)
  <2>1. ASSUME NEW s \in Slots, Handler(s) PROVE FALSE
    BY <1>1, <2>1, HandlerDate DEF DateKept
  <2> QED
    BY <2>1
<1>3. UNCHANGED users \/ (\E v \in Users : PurgeUser(v)) \/ Age \/ Revive
  BY <1>2 DEF Next, PurgeTask, Environment, PurgeList, PurgeDevices, PurgeSkip, Abort, Lapse, Block, vars
<1>4. ~Age /\ ~Revive
  <2>1. ASSUME NEW v \in Users, NEW age, users' = [users EXCEPT ![v].deletedAt = age] PROVE FALSE
    BY <1>1, <2>1 DEF TypeOK, User
  <2> QED
    BY <2>1 DEF Age, Revive
<1>5. PICK v \in Users : PurgeUser(v)
  BY <1>1, <1>3, <1>4
<1>6. v = u
  BY <1>1, <1>5 DEF PurgeUser, TypeOK
<1> QED
  BY <1>5, <1>6, NoneAssumption DEF PurgeUser, OInv, HalfBare, GInv

\* UserPurgeTask: whatever happens between the list and the delete, a purged
\* account was past the grace window. Rests on Age: no request is so slow
\* that it has an account in hand from before its deletion until after it.
THEOREM NothingPurgedEarly == Spec => PurgeOnlyPastGrace
<1>1. Init => GInv
  <2>1. Idle.pc = "idle"
    BY DEF Idle
  <2> QED
    BY <2>1 DEF Init, GInv, Settled, Deleting
<1>2. OInv /\ GInv /\ [Next]_vars
        => [\A u \in Users : Stored(u) /\ users'[u].row = "gone" => users[u].deletedAt = "old"]_vars
  BY GoneWasOld
<1>3. Spec => []OInv
  BY OInvInit, OInvStep, TypeCorrect, PTL DEF Spec
<1>4. Spec => []GInv
  BY <1>1, <1>3, GInvStep, PTL DEF Spec
<1> QED
  BY <1>2, <1>3, <1>4, PTL DEF Spec, PurgeOnlyPastGrace
=============================================================================
