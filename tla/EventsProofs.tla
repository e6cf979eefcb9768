---------------------------- MODULE EventsProofs ----------------------------
(* What a subscriber may rely on, for any number of services, events,      *)
(* publishers and interruptions.                                           *)
EXTENDS Events, TLAPS

\* An open process has a channel, and handlers run in a process that
\* listens: a handler of an unbroken process that throws is recorded.
Equipped ==
    \A c \in Services :
        /\ life[c] \in {"joined", "up"} => bus[c]
        /\ life[c] \in {"down", "booting", "joined"} => \A r \in Rows : running[c][r] = 0

\* The copies of r on their way to c, with c, done with, or lost.
Held(c, r) ==
    queue[c][r] + wire[c][r] + running[c][r] + handled[c][r]
        + outgoing[c][r] + letters[c][r] + severed[c][r] + rejected[c][r]

EInv == EventsTypeOK /\ Equipped /\ EveryCopyAccounted /\ LettersAreOwn

----------------------------------------------------------------------------
(* Copies.                                                                 *)

\* One copy more in one place.
LEMMA PutIs ==
    ASSUME NEW bag \in Copies, NEW c \in Services, NEW r \in Rows
    PROVE  /\ Put(bag, c, r) \in Copies
           /\ \A d \in Services, q \in Rows :
                Put(bag, c, r)[d][q] =
                    IF d = c /\ q = r THEN bag[d][q] + 1 ELSE bag[d][q]
BY DEF Put, Copies

\* One copy less in one place.
LEMMA TakeIs ==
    ASSUME NEW bag \in Copies, NEW c \in Services, NEW r \in Rows, bag[c][r] > 0
    PROVE  /\ Take(bag, c, r) \in Copies
           /\ \A d \in Services, q \in Rows :
                Take(bag, c, r)[d][q] =
                    IF d = c /\ q = r THEN bag[d][q] - 1 ELSE bag[d][q]
<1>1. bag[c] \in [Rows -> Nat] /\ bag[c][r] - 1 \in Nat
  BY DEF Copies
<1>2. Take(bag, c, r) = [bag EXCEPT ![c] = [bag[c] EXCEPT ![r] = bag[c][r] - 1]]
  BY <1>1 DEF Take, Copies
<1>3. [bag[c] EXCEPT ![r] = bag[c][r] - 1] \in [Rows -> Nat]
  BY <1>1
<1> QED BY <1>1, <1>2, <1>3 DEF Copies

\* A process forgets what it had.
LEMMA ForgetIs ==
    ASSUME NEW bag \in Copies, NEW c \in Services
    PROVE  /\ Forget(bag, c) \in Copies
           /\ \A q \in Rows : Forget(bag, c)[c][q] = 0
           /\ \A d \in Services \ {c}, q \in Rows : Forget(bag, c)[d][q] = bag[d][q]
BY DEF Forget, Copies

\* The exchange adds the same copies to what it has routed and to the queues.
LEMMA CopiedIs ==
    ASSUME NEW bag \in Copies, NEW r
    PROVE  /\ Copied(bag, r) \in Copies
           /\ \A d \in Services, q \in Rows :
                Copied(bag, r)[d][q] =
                    bag[d][q] + (IF q = r /\ d \in Receivers(r) THEN 1 ELSE 0)
BY DEF Copied, Copies

\* The name of a service leads to its own dead-letter queue alone.
LEMMA OwnQueue == \A c \in Services : DeadLetterQueues(ServiceName(c)) = {c}
BY DEF DeadLetterQueues, ServiceName, Prefixed

\* Every count of copies is a natural number.
LEMMA CopiesAreNat ==
    ASSUME EventsTypeOK, NEW c \in Services, NEW r \in Rows
    PROVE  /\ queue[c][r] \in Nat /\ wire[c][r] \in Nat /\ running[c][r] \in Nat
           /\ handled[c][r] \in Nat /\ outgoing[c][r] \in Nat /\ letters[c][r] \in Nat
           /\ severed[c][r] \in Nat /\ rejected[c][r] \in Nat /\ threw[c][r] \in Nat
           /\ routed[c][r] \in Nat
BY DEF EventsTypeOK, Copies

----------------------------------------------------------------------------
(* The invariant is inductive.                                             *)

\* There are no copies at the start.
LEMMA EInitially == EventsInit => EInv
<1> SUFFICES ASSUME EventsInit PROVE EInv
  OBVIOUS
<1>1. NoCopies \in Copies /\ \A c \in Services, r \in Rows : NoCopies[c][r] = 0
  BY DEF NoCopies, Copies
<1>2. EventsTypeOK /\ Equipped
  BY <1>1 DEF EventsInit, EventsTypeOK, Equipped
<1>3. EveryCopyAccounted /\ LettersAreOwn
  BY <1>1 DEF EventsInit, EveryCopyAccounted, LettersAreOwn
<1> QED BY <1>2, <1>3 DEF EInv

\* Nothing of the invariant speaks of the publisher, or of a queue before it
\* is bound.
LEMMA OthersStutter ==
    ASSUME EInv, UNCHANGED <<consumer, queue, wire, letters, routed, severed, rejected>>,
           declared' \in SUBSET Services, bound' \in SUBSET declared'
    PROVE  EInv'
<1>1. EventsTypeOK'
  BY DEF EInv, EventsTypeOK, consumer
<1>2. Equipped' /\ EveryCopyAccounted' /\ LettersAreOwn'
  BY DEF EInv, Equipped, EveryCopyAccounted, LettersAreOwn, Unbroken, consumer
<1> QED BY <1>1, <1>2 DEF EInv

\* The broker sends an accepted event to every bound queue.
LEMMA RouteKeeps == ASSUME EInv, NEW p \in Pods, Route(p) PROVE EInv'
<1>1. PICK r \in buffer[p] \ buffer'[p] : queue' = Copied(queue, r) /\ routed' = Copied(routed, r)
  BY DEF Route
<1>2. queue \in Copies /\ routed \in Copies
  BY DEF EInv, EventsTypeOK
<1>3. UNCHANGED <<declared, bound, wire, letters, severed, rejected, consumer>>
  BY DEF Route
<1>4. EventsTypeOK'
  BY <1>1, <1>2, <1>3, CopiedIs DEF EInv, EventsTypeOK, consumer
<1>5. Equipped' /\ LettersAreOwn'
  BY <1>3 DEF EInv, Equipped, LettersAreOwn, consumer
<1>6. EveryCopyAccounted'
  <2> SUFFICES ASSUME NEW c \in Services, NEW q \in Rows, Unbroken(c)'
               PROVE  routed'[c][q] = Held(c, q)'
    BY DEF EveryCopyAccounted, Held
  <2>1. routed[c][q] = Held(c, q)
    BY <1>3 DEF EInv, EveryCopyAccounted, Unbroken, consumer, Held
  <2>2. \E n \in {0, 1} : queue'[c][q] = queue[c][q] + n /\ routed'[c][q] = routed[c][q] + n
    BY <1>1, <1>2, CopiedIs
  <2>3. UNCHANGED <<wire, running, handled, outgoing, letters, severed, rejected>>
    BY <1>3 DEF consumer
  <2> QED BY CopiesAreNat, <2>1, <2>2, <2>3 DEF EInv, Held
<1> QED BY <1>4, <1>5, <1>6 DEF EInv

\* The life cycle short of an end: no copy moves.
LEMMA PhaseKeeps ==
    ASSUME EInv, NEW c \in Services, Boot(c) \/ Join(c) \/ Listen(c) \/ Stop(c)
    PROVE  EInv'
<1>1. /\ UNCHANGED <<queue, wire, letters, routed, severed, rejected>>
      /\ UNCHANGED <<running, handled, outgoing, threw, ends>>
  BY DEF Boot, Join, Listen, Stop, broker
<1>2. EventsTypeOK'
  <2>1. declared' \in SUBSET Services /\ bound' \in SUBSET declared'
    BY DEF EInv, EventsTypeOK, Boot, Join, Listen, Stop, broker, Bindings, CanBind
  <2> QED BY <1>1, <2>1 DEF EInv, EventsTypeOK, Boot, Join, Listen, Stop
<1>3. Equipped'
  BY <1>1 DEF EInv, EventsTypeOK, Equipped, Boot, Join, Listen, Stop
<1>4. \A d \in Services : Unbroken(d)' => Unbroken(d)
  BY <1>1 DEF EInv, EventsTypeOK, Unbroken, Boot, Join, Listen, Stop
<1>5. EveryCopyAccounted' /\ LettersAreOwn'
  BY <1>1, <1>4 DEF EInv, EveryCopyAccounted, LettersAreOwn
<1> QED BY <1>2, <1>3, <1>5 DEF EInv

\* One copy moves from one place to the next.
LEMMA CopyMoves ==
    ASSUME EInv, NEW c \in Services,
           \/ Deliver(c) \/ Receive(c) \/ Return(c) \/ Throw(c)
           \/ DeadLetter(c) \/ RefuseLetter(c)
    PROVE  EInv'
<1>1. UNCHANGED <<declared, bound, routed, severed, life, bus, ends>>
  BY DEF Deliver, Receive, Return, Throw, DeadLetter, RefuseLetter, broker, consumer
<1>2. /\ queue \in Copies /\ wire \in Copies /\ running \in Copies /\ handled \in Copies
      /\ outgoing \in Copies /\ letters \in Copies /\ threw \in Copies
      /\ severed \in Copies /\ rejected \in Copies
  BY DEF EInv, EventsTypeOK
<1>3. \A d \in Services : Unbroken(d)' <=> Unbroken(d)
  BY <1>1 DEF Unbroken
<1>4. \A d \in Services, q \in Rows :
        /\ queue[d][q] \in Nat /\ wire[d][q] \in Nat /\ running[d][q] \in Nat
        /\ handled[d][q] \in Nat /\ outgoing[d][q] \in Nat /\ letters[d][q] \in Nat
        /\ threw[d][q] \in Nat /\ severed[d][q] \in Nat /\ rejected[d][q] \in Nat
  BY <1>2 DEF Copies
<1>a. SUFFICES /\ EventsTypeOK' /\ Equipped' /\ LettersAreOwn'
               /\ \A d \in Services, q \in Rows : Unbroken(d) => Held(d, q)' = Held(d, q)
  BY <1>1, <1>3 DEF EInv, EveryCopyAccounted, Held
<1>5. CASE Deliver(c)
  <2>1. PICK r \in Rows : /\ queue[c][r] > 0
                          /\ queue' = Take(queue, c, r) /\ wire' = Put(wire, c, r)
    BY <1>5 DEF Deliver
  <2>2. UNCHANGED <<running, letters, handled, outgoing, threw, rejected>>
    BY <1>5 DEF Deliver, consumer
  <2>3. /\ queue' \in Copies /\ wire' \in Copies
        /\ \A d \in Services, q \in Rows :
            /\ queue'[d][q] = IF d = c /\ q = r THEN queue[d][q] - 1 ELSE queue[d][q]
            /\ wire'[d][q] = IF d = c /\ q = r THEN wire[d][q] + 1 ELSE wire[d][q]
    BY <1>2, <2>1, PutIs, TakeIs
  <2>4. EventsTypeOK' /\ Equipped'
    BY <1>1, <2>2, <2>3 DEF EInv, EventsTypeOK, Equipped
  <2>5. ASSUME NEW d \in Services, NEW q \in Rows PROVE Held(d, q)' = Held(d, q)
    <3>1. queue'[d][q] + wire'[d][q] = queue[d][q] + wire[d][q]
      BY <1>4, <2>3
    <3>2. queue'[d][q] \in Nat /\ wire'[d][q] \in Nat
      BY <2>3 DEF Copies
    <3> QED BY <1>1, <1>4, <2>2, <3>1, <3>2 DEF Held
  <2>6. LettersAreOwn'
    BY <2>2 DEF EInv, LettersAreOwn
  <2> QED BY <2>4, <2>5, <2>6
<1>b. CASE Receive(c)
  <2>1. PICK r \in Rows : /\ wire[c][r] > 0
                          /\ wire' = Take(wire, c, r) /\ running' = Put(running, c, r)
    BY <1>b DEF Receive
  <2>2. life[c] \in {"up", "closing"} /\ UNCHANGED <<queue, letters, handled, outgoing, threw, rejected>>
    BY <1>b DEF Receive
  <2>3. /\ wire' \in Copies /\ running' \in Copies
        /\ \A d \in Services, q \in Rows :
            /\ wire'[d][q] = IF d = c /\ q = r THEN wire[d][q] - 1 ELSE wire[d][q]
            /\ running'[d][q] = IF d = c /\ q = r THEN running[d][q] + 1 ELSE running[d][q]
    BY <1>2, <2>1, PutIs, TakeIs
  <2>4. EventsTypeOK' /\ Equipped'
    BY <1>1, <2>2, <2>3 DEF EInv, EventsTypeOK, Equipped
  <2>5. ASSUME NEW d \in Services, NEW q \in Rows PROVE Held(d, q)' = Held(d, q)
    <3>1. wire'[d][q] + running'[d][q] = wire[d][q] + running[d][q]
      BY <1>4, <2>3
    <3>2. wire'[d][q] \in Nat /\ running'[d][q] \in Nat
      BY <2>3 DEF Copies
    <3> QED BY <1>1, <1>4, <2>2, <3>1, <3>2 DEF Held
  <2>6. LettersAreOwn'
    BY <2>2 DEF EInv, LettersAreOwn
  <2> QED BY <2>4, <2>5, <2>6
<1>6. CASE Return(c)
  <2>1. PICK r \in Rows : /\ running[c][r] > 0
                          /\ running' = Take(running, c, r) /\ handled' = Put(handled, c, r)
    BY <1>6 DEF Return
  <2>2. UNCHANGED <<queue, wire, letters, outgoing, threw, rejected>>
    BY <1>6 DEF Return, broker
  <2>3. /\ running' \in Copies /\ handled' \in Copies
        /\ \A d \in Services, q \in Rows :
            /\ running'[d][q] = IF d = c /\ q = r THEN running[d][q] - 1 ELSE running[d][q]
            /\ handled'[d][q] = IF d = c /\ q = r THEN handled[d][q] + 1 ELSE handled[d][q]
    BY <1>2, <2>1, PutIs, TakeIs
  <2>4. EventsTypeOK' /\ Equipped'
    BY <1>1, <2>1, <2>2, <2>3 DEF EInv, EventsTypeOK, Equipped
  <2>5. ASSUME NEW d \in Services, NEW q \in Rows PROVE Held(d, q)' = Held(d, q)
    <3>1. running'[d][q] + handled'[d][q] = running[d][q] + handled[d][q]
      BY <1>4, <2>3
    <3>2. running'[d][q] \in Nat /\ handled'[d][q] \in Nat
      BY <2>3 DEF Copies
    <3> QED BY <1>1, <1>4, <2>2, <3>1, <3>2 DEF Held
  <2>6. LettersAreOwn'
    BY <2>2 DEF EInv, LettersAreOwn
  <2> QED BY <2>4, <2>5, <2>6
<1>7. CASE Throw(c)
  <2>1. PICK r \in Rows : /\ running[c][r] > 0 /\ running' = Take(running, c, r)
                          /\ threw' = Put(threw, c, r) /\ outgoing' = WithLetter(c, r)
    BY <1>7 DEF Throw
  <2>2. UNCHANGED <<queue, wire, letters, handled, rejected>>
    BY <1>7 DEF Throw, broker
  <2>3. /\ running' \in Copies /\ threw' \in Copies
        /\ \A d \in Services, q \in Rows :
            /\ running'[d][q] = IF d = c /\ q = r THEN running[d][q] - 1 ELSE running[d][q]
            /\ threw'[d][q] = IF d = c /\ q = r THEN threw[d][q] + 1 ELSE threw[d][q]
    BY <1>2, <2>1, PutIs, TakeIs
  <2>4. /\ outgoing' \in Copies
        /\ \A d \in Services, q \in Rows : outgoing'[d][q] =
                IF d = c /\ q = r /\ bus[c] THEN outgoing[d][q] + 1 ELSE outgoing[d][q]
    BY <1>2, <2>1, PutIs DEF WithLetter
  <2>5. EventsTypeOK' /\ Equipped'
    BY <1>1, <2>1, <2>2, <2>3, <2>4 DEF EInv, EventsTypeOK, Equipped
  <2>6. Unbroken(c) => bus[c]
    BY <2>1 DEF EInv, EventsTypeOK, Equipped, Unbroken
  <2>7. ASSUME NEW d \in Services, NEW q \in Rows, Unbroken(d)
        PROVE  Held(d, q)' = Held(d, q)
    <3>1. /\ queue'[d][q] = queue[d][q] /\ handled'[d][q] = handled[d][q]
          /\ letters'[d][q] = letters[d][q] /\ wire'[d][q] = wire[d][q]
          /\ severed'[d][q] = severed[d][q] /\ rejected'[d][q] = rejected[d][q]
      BY <1>1, <2>2
    <3>2. CASE d = c /\ q = r
      <4>1. running'[d][q] + outgoing'[d][q] = running[d][q] + outgoing[d][q]
        BY <1>4, <2>3, <2>4, <2>6, <2>7, <3>2
      <4>2. running'[d][q] \in Nat /\ outgoing'[d][q] \in Nat
        BY <2>3, <2>4 DEF Copies
      <4> QED
        BY <1>4, <3>1, <4>1, <4>2 DEF Held
    <3>3. CASE ~(d = c /\ q = r)
      <4>1. running'[d][q] = running[d][q] /\ outgoing'[d][q] = outgoing[d][q]
        BY <2>3, <2>4, <3>3
      <4> QED
        BY <3>1, <4>1 DEF Held
    <3> QED
      BY <3>2, <3>3
  <2>8. LettersAreOwn'
    BY <1>4, <2>2, <2>3, <2>4 DEF EInv, LettersAreOwn
  <2> QED BY <2>5, <2>7, <2>8
<1>8. CASE DeadLetter(c)
  <2>1. PICK r \in Rows :
            /\ outgoing[c][r] > 0 /\ outgoing' = Take(outgoing, c, r)
            /\ letters' = [d \in Services |->
                    IF d \in DeadLetterQueues(ServiceName(c))
                    THEN [letters[d] EXCEPT ![r] = @ + 1] ELSE letters[d]]
    BY <1>8 DEF DeadLetter
  <2>2. UNCHANGED <<queue, wire, running, handled, threw, rejected>>
    BY <1>8 DEF DeadLetter
  <2>3. /\ letters' \in Copies
        /\ \A d \in Services, q \in Rows : letters'[d][q] =
                IF d = c /\ q = r THEN letters[d][q] + 1 ELSE letters[d][q]
    BY <1>2, <2>1, OwnQueue DEF Copies
  <2>4. /\ outgoing' \in Copies
        /\ \A d \in Services, q \in Rows : outgoing'[d][q] =
                IF d = c /\ q = r THEN outgoing[d][q] - 1 ELSE outgoing[d][q]
    BY <1>2, <2>1, TakeIs
  <2>5. EventsTypeOK' /\ Equipped'
    BY <1>1, <2>2, <2>3, <2>4 DEF EInv, EventsTypeOK, Equipped
  <2>6. ASSUME NEW d \in Services, NEW q \in Rows PROVE Held(d, q)' = Held(d, q)
    <3>1. letters'[d][q] + outgoing'[d][q] = letters[d][q] + outgoing[d][q]
      BY <1>4, <2>3, <2>4
    <3>2. letters'[d][q] \in Nat /\ outgoing'[d][q] \in Nat
      BY <2>3, <2>4 DEF Copies
    <3> QED BY <1>1, <1>4, <2>2, <3>1, <3>2 DEF Held
  <2>7. LettersAreOwn'
    BY <1>4, <2>2, <2>3, <2>4 DEF EInv, LettersAreOwn
  <2> QED BY <2>5, <2>6, <2>7
<1>9. CASE RefuseLetter(c)
  <2>1. PICK r \in Rows : /\ outgoing[c][r] > 0
                          /\ outgoing' = Take(outgoing, c, r) /\ rejected' = Put(rejected, c, r)
    BY <1>9 DEF RefuseLetter
  <2>2. UNCHANGED <<queue, wire, running, handled, threw, letters>>
    BY <1>9 DEF RefuseLetter
  <2>3. /\ outgoing' \in Copies /\ rejected' \in Copies
        /\ \A d \in Services, q \in Rows :
            /\ outgoing'[d][q] = IF d = c /\ q = r THEN outgoing[d][q] - 1 ELSE outgoing[d][q]
            /\ rejected'[d][q] = IF d = c /\ q = r THEN rejected[d][q] + 1 ELSE rejected[d][q]
    BY <1>2, <2>1, PutIs, TakeIs
  <2>4. EventsTypeOK' /\ Equipped'
    BY <1>1, <2>2, <2>3 DEF EInv, EventsTypeOK, Equipped
  <2>5. ASSUME NEW d \in Services, NEW q \in Rows PROVE Held(d, q)' = Held(d, q)
    <3>1. outgoing'[d][q] + rejected'[d][q] = outgoing[d][q] + rejected[d][q]
      BY <1>4, <2>3
    <3>2. outgoing'[d][q] \in Nat /\ rejected'[d][q] \in Nat
      BY <2>3 DEF Copies
    <3> QED BY <1>1, <1>4, <2>2, <3>1, <3>2 DEF Held
  <2>6. LettersAreOwn'
    BY <1>4, <2>2, <2>3 DEF EInv, LettersAreOwn
  <2> QED BY <2>4, <2>5, <2>6
<1> QED BY <1>5, <1>b, <1>6, <1>7, <1>8, <1>9

\* What was on the wire of a broken connection is counted as lost with it.
LEMMA SeverKeeps == ASSUME EInv, NEW c \in Services, Sever(c) PROVE EInv'
<1>1. /\ wire \in Copies /\ severed \in Copies
      /\ UNCHANGED <<consumer, declared, bound, queue, letters, routed, rejected>>
  BY DEF EInv, EventsTypeOK, Sever
<1>2. /\ wire' \in Copies
      /\ \A q \in Rows : wire'[c][q] = 0
      /\ \A d \in Services \ {c}, q \in Rows : wire'[d][q] = wire[d][q]
  BY <1>1, ForgetIs DEF Sever
<1>3. /\ severed' \in Copies
      /\ \A q \in Rows : severed'[c][q] = severed[c][q] + wire[c][q]
      /\ \A d \in Services \ {c}, q \in Rows : severed'[d][q] = severed[d][q]
  BY <1>1 DEF Sever, Copies
<1>4. EventsTypeOK' /\ Equipped' /\ LettersAreOwn'
  BY <1>1, <1>2, <1>3 DEF EInv, EventsTypeOK, Equipped, LettersAreOwn, consumer
<1>5. ASSUME NEW d \in Services, NEW q \in Rows PROVE Held(d, q)' = Held(d, q)
  <2>1. wire'[d][q] + severed'[d][q] = wire[d][q] + severed[d][q]
    BY CopiesAreNat, <1>2, <1>3 DEF EInv
  <2>2. wire'[d][q] \in Nat /\ severed'[d][q] \in Nat
    BY <1>2, <1>3 DEF Copies
  <2> QED BY CopiesAreNat, <1>1, <2>1, <2>2 DEF EInv, Held, consumer
<1>6. EveryCopyAccounted'
  BY <1>1, <1>5 DEF EInv, EveryCopyAccounted, Unbroken, Held, consumer
<1> QED BY <1>4, <1>6 DEF EInv

\* The memory of the process is lost, or the part of it in the channel.
LEMMA EndKeeps ==
    ASSUME EInv, NEW c \in Services, CloseChannel(c) \/ End(c)
    PROVE  EInv'
<1>1. UNCHANGED <<declared, bound, queue, letters, routed, severed, rejected, handled, threw>>
  BY DEF CloseChannel, End, broker
<1>2. wire \in Copies /\ running \in Copies /\ outgoing \in Copies /\ letters \in Copies /\ threw \in Copies
  BY DEF EInv, EventsTypeOK
<1>3. /\ outgoing' = Forget(outgoing, c)
      /\ running' = running \/ running' = Forget(running, c)
      /\ wire' = wire \/ wire' = Forget(wire, c)
  BY DEF CloseChannel, End, broker
<1>4. /\ outgoing' \in Copies /\ running' \in Copies /\ wire' \in Copies
      /\ \A q \in Rows : outgoing'[c][q] = 0
      /\ \A d \in Services \ {c}, q \in Rows :
            /\ outgoing'[d][q] = outgoing[d][q] /\ running'[d][q] = running[d][q]
            /\ wire'[d][q] = wire[d][q]
  <2>1. /\ Forget(outgoing, c) \in Copies
        /\ \A q \in Rows : Forget(outgoing, c)[c][q] = 0
        /\ \A d \in Services \ {c}, q \in Rows : Forget(outgoing, c)[d][q] = outgoing[d][q]
    BY <1>2, ForgetIs
  <2>2. /\ Forget(running, c) \in Copies
        /\ \A d \in Services \ {c}, q \in Rows : Forget(running, c)[d][q] = running[d][q]
    BY <1>2, ForgetIs
  <2>3. /\ Forget(wire, c) \in Copies
        /\ \A d \in Services \ {c}, q \in Rows : Forget(wire, c)[d][q] = wire[d][q]
    BY <1>2, ForgetIs
  <2> QED BY <1>2, <1>3, <2>1, <2>2, <2>3
<1>5. life' \in [Services -> {"down", "booting", "joined", "up", "closing"}]
      /\ bus' \in [Services -> BOOLEAN] /\ ends' \in [Services -> Nat]
  <2>1. /\ life \in [Services -> {"down", "booting", "joined", "up", "closing"}]
        /\ bus \in [Services -> BOOLEAN] /\ ends \in [Services -> Nat]
    BY DEF EInv, EventsTypeOK
  <2>2. CASE CloseChannel(c)
    BY <2>1, <2>2 DEF CloseChannel
  <2>3. CASE End(c)
    BY <2>1, <2>3 DEF End
  <2> QED BY <2>2, <2>3
<1>6. EventsTypeOK'
  BY <1>1, <1>4, <1>5 DEF EInv, EventsTypeOK
<1>7. \A d \in Services \ {c} : life'[d] = life[d] /\ bus'[d] = bus[d] /\ ends'[d] = ends[d]
  BY DEF EInv, EventsTypeOK, CloseChannel, End
<1>8. ~Unbroken(c)'
  BY DEF EInv, EventsTypeOK, CloseChannel, End, Unbroken
<1>9. Equipped'
  <2>1. CASE CloseChannel(c)
    BY <1>4, <1>7, <2>1 DEF EInv, EventsTypeOK, Equipped, CloseChannel
  <2>2. CASE End(c)
    <3>1. life'[c] = "down" /\ \A q \in Rows : running'[c][q] = 0
      BY <1>2, <2>2, ForgetIs DEF End, EInv, EventsTypeOK
    <3> QED BY <1>4, <1>7, <3>1 DEF EInv, Equipped
  <2> QED BY <2>1, <2>2
<1>10. EveryCopyAccounted'
  BY <1>1, <1>4, <1>7, <1>8 DEF EInv, EveryCopyAccounted, Unbroken
<1>11. LettersAreOwn'
  <2> SUFFICES ASSUME NEW d \in Services, NEW q \in Rows
               PROVE  letters'[d][q] + outgoing'[d][q] <= threw'[d][q]
    BY DEF LettersAreOwn
  <2>1. letters[d][q] + outgoing[d][q] <= threw[d][q]
    BY DEF EInv, LettersAreOwn
  <2>2. letters[d][q] \in Nat /\ outgoing[d][q] \in Nat /\ threw[d][q] \in Nat
    BY <1>2 DEF Copies
  <2>3. outgoing'[d][q] \in {0, outgoing[d][q]}
    BY <1>4
  <2> QED BY <1>1, <2>1, <2>2, <2>3
<1> QED BY <1>6, <1>9, <1>10, <1>11 DEF EInv

\* Every step keeps the invariant.
LEMMA EStep == EInv /\ [EventsNext]_eventVars => EInv'
<1> SUFFICES ASSUME EInv, [EventsNext]_eventVars PROVE EInv'
  OBVIOUS
<1>1. declared \in SUBSET Services /\ bound \in SUBSET declared
  BY DEF EInv, EventsTypeOK
<1>2. CASE Publisher \/ UNCHANGED eventVars
  BY <1>1, <1>2, OthersStutter DEF Publisher, eventVars, broker, consumer
<1>3. CASE \E p \in Pods : Route(p)
  BY <1>3, RouteKeeps
<1>4. CASE \E c \in Services : PeerDeclares(c)
  BY <1>1, <1>4, OthersStutter DEF PeerDeclares
<1>5. CASE \E c \in Services : Consumer(c)
  BY <1>5, PhaseKeeps, CopyMoves, SeverKeeps, EndKeeps DEF Consumer
<1> QED BY <1>2, <1>3, <1>4, <1>5 DEF EventsNext

\* The invariant holds in every state.
LEMMA EInvHolds == EventsSpec => []EInv
BY EInitially, EStep, PTL DEF EventsSpec

----------------------------------------------------------------------------

\* Type correctness of the topology, the services and the copies; a bound
\* queue exists.
THEOREM TypeCorrect == EventsSpec => []EventsTypeOK
BY EInvHolds, PTL DEF EInv

\* Where a copy can be: as long as the process of its service lives, it is
\* in exactly one place, and what is lost is lost with a connection or as a
\* refused dead letter, never by a handler, however it ends.
THEOREM CopiesAccounted == EventsSpec => []EveryCopyAccounted
BY EInvHolds, PTL DEF EInv

\* A dead-letter queue holds failures of its own service only.
THEOREM LettersStayHome == EventsSpec => []LettersAreOwn
BY EInvHolds, PTL DEF EInv
=============================================================================
