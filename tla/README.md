# Verification of the NestJS microservice boilerplate

TLA+ models of the parts of this repository that keep state and share it: the
accounts of the user-service, the transactional outbox, the event bus with its
dead letters, the refresh tokens of the gateway, the purge task, the database
migrations, and the way of a sign-in through an OAuth provider and over
RabbitMQ. TLC checks them on small instances, TLAPS proves the central
invariants for every instance. Paths are relative to the root of the repository.

## 1. The system

| Component | State | Operations | Talks to |
|---|---|---|---|
| **Gateway** `apps/gateway` | none of its own; the refresh-token blacklist is in Redis (`services/token-store.service.ts`) | HTTP endpoints of `auth` and `users`; JWT strategies | user-service by RPC over RabbitMQ, Redis, VK and Yandex over HTTP |
| **User service** `apps/user` | Mongo: `users`, `devices` | `createAutoregUser`, `login`, `upgradeAccount`, `findOrCreateOAuthUser`, `forgotPassword`, `resetPassword`, `deleteUser`, `updateUser`, `getUserById`, `getUserTokenVersion` | Mongo, SMTP, the outbox |
| **Outbox** `libs/messaging/src/outbox` | Mongo: `outbox_events`; a timer and a flag in each pod | `stageOutboxEvent` (inside a handler's unit of work), the sweep every 2 s | Mongo, the event bus |
| **Event bus** `libs/messaging/src/amqp` | per process: connection, channel, the memory of amqp-connection-manager; in the broker: queues, bindings, DLQs | bootstrap with its topology, `publish`, `publishToDeadLetter`, close | RabbitMQ |
| **Dead-letter interceptor** `libs/messaging/src/amqp/event-dead-letter.interceptor.ts` | none | a failing event handler becomes a dead letter | the event bus |
| **user-purge** `tasks/user-purge` | none | daily: hard-delete accounts soft-deleted 30 days ago | Mongo |
| **db-migrate** `tasks/db-migrate`, `tools/migrations` | Mongo: `_migrations`, the indexes | apply what is not recorded | Mongo |
| **RPC client and filters** `libs/common` | none | send with a 15 s timeout, map errors both ways | RabbitMQ |
| Health, metrics, telemetry, logging, configuration, throttling, email | none that the rest depends on | | |

Components interact through Mongo documents (user-service, outbox, purge,
migrations), through RPC replies (the gateway signs what the user-service
answered a moment ago) and through life-cycle hooks (outbox timer, bus channel).

**What is hard.** Every RPC handler is a chain of awaits over a unit of work
that loads a document, decides, and flushes later. No flush is a transaction:
one flush of two documents is two writes. Handlers of the same and of other pods
interleave at every await; a handler may die at any of them; an RPC that timed
out at the gateway still runs to its end. The outbox marks a row `sent` when the
event is in the memory of the pod, and the pod may die. Consumers acknowledge
nothing: what was delivered exists in the memory of one process. The gateway
checks its blacklist in a guard and writes it two awaits later. Times are in
milliseconds here and in seconds there. A migration runs while handlers write
what it checks, and may run twice at once.

**What makes each component correct.**

- Accounts: one account per address, fingerprint and OAuth identity; credentials
  that were replaced open nothing; a deletion is announced and, unless revoked,
  completed; nothing is left behind.
- Outbox: every staged event reaches the broker, repeated only for a reason.
- Events: what a service was sent is handled, waits, or is a dead letter of its
  own, exactly once.
- Sessions: a refresh token dies with its use, with logout, with the version
  bump, with its expiry; no client is told that a good token is bad.
- Purge: nothing before its time, everything in the end.
- Migrations: what is recorded holds; a run that died can be repeated.
- RPC and verifiers: a fault of the infrastructure never looks like a fault of
  the client, and the other way round.

## 2. Modules

| Module | Models | State in the model ↔ in the code |
|---|---|---|
| `Accounts` | the user-service and user-purge over Mongo | `users`, `devices`, `events` = the collections (by `_id`; `events[u]` counts rows keyed `user.deleted:<u>`); `call[s]` = one RPC in flight: the await it waits on (`pc`), its arguments, the document it `loaded`; `purge` = the victims the task has listed; `mailed`, `lapsed` = reset tokens in mailboxes and those past their hour; `grants`, `spent` = history |
| `Overlaps` (extends `Accounts`) | nothing of its own: what the user-service promises under every overlap of its handlers | `overtaken`, `crossed`, `revived` = history: accounts written by a flush that had loaded another document than the stored one, identities two requests carried at once, accounts support brought back |
| `EventDelivery` | what a dispatcher promises: *promise*, *hand over*, *settle*; abstract | |
| `Outbox` | `OutboxDispatcher`, the publishing side of `EventBusService`, the life of the pods | `rows` = `outbox_events`; `armed`, `pc`, `batch` = timer, `running` flag and local variables of the sweep; `channel`, `buffer` = the channel wrapper and its memory; `accepted` = confirmed by the broker; `phase` = life cycle; `dropped` = published without a channel, `refused` = refused by the broker, `handed`, `interrupted`, `died` = history |
| `Events` (extends `Outbox`) | the broker's routing, the subscribed processes, `EventDeadLetterInterceptor` | `declared`, `bound` = queues and bindings; `life`, `bus` = the start and shutdown hooks of a subscriber and whether it has a channel; `queue`, `wire`, `running`, `handled` = copies of an event in the queue, sent to the process, in a handler, behind it; `outgoing`, `letters` = dead letters in the channel wrapper and in the DLQ; `routed`, `threw`, `severed` (lost with a connection), `rejected` (dead letters the broker refused), `ends` = history |
| `Session` | `AuthService.refresh`/`logout`, `JwtRefreshStrategy`, `TokenStoreService` | `token` = what was signed; `until` = TTL of `blacklist:rt:<jti>`; `account` = what `getUserTokenVersion` would answer; `redis` = does it answer; `call` = requests by await, with what was true of the token when they came in (`used`, `outdated`) and when Redis answered (`late`); `now` = `Date.now()`; `rotated`, `loggedOut` = history |
| `Migrate` | `DbMigrateTask.run`, migrations 001 and 005, the handlers that write addresses | `doc` = `users`; `claim` = the address a handler is about to flush; `exists`, `index` = the collection, and which indexes on `users.email` exist; `recorded` = `_migrations`; `job` = each instance of the task: its await, its snapshot of `_migrations`, the indexes it listed; `rollback` = a `down` by hand |
| `OAuthVerifier` | the VK and Yandex verifiers and their factory | `req` = the token and what the provider knows about it; `configured` = which `VK_*_APP_ID` are set; `asking` = the client ids still to try, or the attempts left; `heard` = history |
| `Rpc` | `RpcClientService.send`, the queue, `RpcAllExceptionsFilter` | `caller` = the promise of `send`, `status` what it settles with; `message` = where request or reply is; `outcome`, `committed` = history |
| `SignIn` | composes the last two: `oauthLogin` and the provider's half of `upgrade` | `payload` = what the user-service is told; `HttpStatus` = what the client is told |
| `MCAccounts`, `MCOverlaps`, `MCOutbox`, `MCEvents`, `MCSession`, `MCMigrate`, `MCSignIn` | constants of the runs | |
| `AccountsProofs`, `DeviceProofs`, `CredentialProofs` (each extends the one before), `OutboxProofs`, `EventsProofs`, `SessionProofs`, `MigrateProofs`, `SignInProofs` | theorems | |

An action is the code between two awaits: in Node nothing else of the process
runs there, so it is atomic. An action ends at the await that follows, and what
was read before is kept in `call[s].loaded`, `batch[p]` or `job[j]`: staleness is
in the model wherever it is in the code. A flush that writes two documents is two
actions (`DeleteInsertEvent` then `DeleteScrub`: MikroORM commits inserts before
updates). `createAutoregUser` inserts an account and a device that no relation
ties, so either one may come first: `AutoregUserFirst` then `AutoregInsertDevice`,
or `AutoregDeviceFirst` then `AutoregInsertUser`. MikroORM writes the fields that changed since the load, which is why `Upgraded`, `Deleted` and
`WithNewPassword` combine the stored document with the loaded version.

`Events` composes two components: its `Route` is the broker's `Accept` of
`Outbox` together with the copies it puts into the bound queues. `Migrate` has a
smaller user-service of its own: what it needs is who writes an address and what
a handler looked up before, not what else a handler does.

Definitions marked *Slip* are plausible mistakes: one helper, written the wrong
way. Each property is run once with a slip in place of the helper to see that it
notices.

## 3. Runs

| Run | Question | Bounds |
|---|---|---|
| `accounts_lifecycle` | From sign-up to purge: every handler, with deaths at every await, revival, blocked devices and deletes that fail; liveness under the fairness of the daily job | 2 accounts, 2 devices, 1 address, 1 password, 1 reset token, 1 identity, 1 bump; one slot serves autoreg and upgrade, the other the rest |
| `overlaps` | Upgrades and resets beside every other handler, with revivals: what holds under every interleaving, and which accounts are exempt from the rest? | 2 accounts, 2 devices, 1 fingerprint, 1 address, 2 passwords, 2 reset tokens, 1 identity, 2 bumps |
| `outbox_replicas` | How often is an event published, and what can lose it, with two replicas that start in any order of their hooks and a broker that refuses messages? | 2 rows, batch of 2, one interruption per pod |
| `outbox_single` | Does one replica implement `EventDelivery`, safety and liveness? | 3 rows, batch of 2, two interruptions |
| `events` | From the outbox row to the handler of two subscribers: what can lose a copy while its process lives, does a dead letter stay with its service, does every event end somewhere? | 1 row, 1 publisher that is interrupted once, 2 services whose processes end once each; connections break and messages are refused at any time |
| `session_races` | Two refreshes with one token and a logout, Redis outages, bumps, deletion, requests that die, expiry: what is dead stays dead, and what is told about it is true | 2 tokens, 2 requests, 2 ticks a second, 2 s lifetime, 2.5 s |
| `migrate` | Is 005 true once it is recorded, and recorded in the end, with two jobs, crashes, writers, purges, `ensureIndexes` and a rollback by hand, on a database with the old index, without it, or without the collection? | 2 accounts, 1 address, 2 jobs; nothing else is bounded |
| `signin` | Is a genuine token ever reported bad, an unattested address ever merged, the client ever told something false, or nothing? | none: every request, configuration and answer; two client ids, one retry, one RPC, as in the code |
| `accounts_V_reset`, `accounts_V_fingerprint`, `outbox_V_crash`, `session_V_refused` | Promises of comments and docs the code does not keep; see 5 | |

**Why the bounds are enough.** Every property relates at most two accounts,
tokens, jobs or requests, and two concurrent handlers show every pairwise race;
in `overlaps` one slot serves upgrades and resets, the other all the rest and
resets again. No handler dies there: for what another one sees, a handler that dies
at an await is one that waits for ever. (`accounts_lifecycle` has deaths, and the
theorems have them everywhere.) Three rows against
a batch of two let a row wait for a second page; in `events` the rows do not
interact, one that is published twice after a failed flush makes the two copies
the counters tell apart. Two ticks a second are the least resolution with a time
inside a second, a lifetime of two seconds the least with a second that is not
the last. An address is shared by two documents or by none, so two documents and
one address show every duplicate. `SpareIds` keeps a call from starting when it
could run out of ids. `MaxTv` starts no call that would bump beyond it.

**Deadlock** is not checked: ids, tokens and the clock are finite, so every
model comes to a stop that the system does not have.

**Fairness.** Only liveness properties use it. No fairness is assumed of callers,
of Redis or of the clock.

- `Accounts!Fairness`: the purge job is a daily CronJob, so a listable victim is
  listed again (weak fairness of `PurgeList`), and the deletes of one account may
  fail on some days but not on all of them (strong fairness of `PurgeDevices` and
  `PurgeUser`: each failure disables them until the next list).
- `Outbox!Fairness`: k8s restarts a pod and its hooks run; the timer is armed
  again after every sweep, also after one that rejects (`schedule` re-arms in
  `finally`), so `Find` and `Publish` are weakly fair; `Flush` is strongly fair,
  Mongo does not fail for ever; the broker comes back (`Accept`).
- `EventsFairness`: the same of the publisher; subscribers are restarted, their
  consumer goes on, handlers end, the broker takes dead letters. Nothing is
  assumed of `PeerDeclares`: nobody promises that a peer declares the queue a
  subscriber waits for at its first start, so the liveness property starts from a
  bound queue.
- `Migrate!Fairness`: one job is started again after a failure and does not fail
  for ever at the same await (strong fairness of its steps, which a failure
  disables), and a human resolves the duplicates a failed job reports. The other
  job may hang. The property also needs handlers to leave the addresses alone in
  the end: a writer that is for ever quicker than the job keeps it from its goal.
- `SignIn!Fairness`: the gateway's process goes on and its timers fire, which
  abort a fetch after 5 s and an RPC after 15 s; nothing is assumed of provider,
  broker and user-service.

## 4. Proofs

`tlapm` checks every leaf of the eight proof modules. A theorem holds for every
value of the constants: any number of accounts, pods, tokens, services, jobs and
concurrent requests, with every outside event allowed.

**Accounts**
- `TypeCorrect`: `TypeOK` is not inductive, a handler indexes collections with
  ids it holds. `InFlight` says which ids a call holds at which await.
- `NoDeletionUnannounced`: no account is soft-deleted or purged without its
  outbox row. Only `DeleteScrub` sets `deletedAt`, it runs after the row exists
  (`InFlight`), rows are never taken back, and what the purge has listed was
  announced when it was listed (`PurgeAnnounced`).
- `OneAccountPerAddress`: no two stored accounts share an address. The proof
  never mentions what a handler looked up: it rests on the unique index at the
  moment of the write (`OneWriter`), which is what 005 is for.
- `DeviceProofs!DevicesHaveOwners`: no device outlives its account. The dangerous
  moments are the gaps between two writes. In autoreg's, one of account and device
  exists without the other. `Lone` says of an account written first that nobody can
  reach it, for want of a session, a device, an address, an identity, a reset
  token, and that the purge has not listed it; `Reserved` says of an account whose
  device came first that other handlers know its id from that device only. In the
  purge's gap the devices are gone and the account is not: `HalfBare` says that
  none comes back.
- `DeviceProofs!NothingPurgedEarly`: what the purge wipes was past the grace window
  just before. `GInv` says the victims stay so: no handler that could write
  `deletedAt` has one of them in hand. It rests on the guard of `Age`: no request
  is so slow that it spans the end of a grace window of 30 days.

**Accounts: credentials** (`CredentialProofs`, about `Overlaps`). The service
serialises nothing, and neither do the theorems: any number of handlers of any
kind may be in flight. The first half of the module says once, for all handlers,
what a step writes into an account (`Writes`, one case per flush) and what it
leaves alone (`HandlerActs`, `OutsideActs`); the invariants below rest on that and
never on the text of a handler. `HistoryStep` shows that the histories only watch;
`LoadedIsCurrent`, that a flush which overtakes nothing had loaded the document of
today. Each promise is then proved of what the histories do not name; section 5
says how it breaks where they do.
- `AnchorsDie`. An account autoreg created is anonymous at version 0 (`Anchored`), a
  session got by fingerprint carries version 0 or its account is being deleted
  (`Initial`), and every write that ends the anonymity raises the version. It needs
  no exemption but that of revived accounts.
- `ReusesAreOvertaken`: a token is in one mailbox, one account and one `store` at most
  (`TokenInv`), and one that was spent is in no account (`SpentInv`), so a second use
  had loaded the account before the first was flushed. An action property.
- `LinksSurvive`: by `TokenInv` no handler puts an older token back; what takes a
  link away is its own use, a newer token, a deletion, or an overtaking flush.
- `OldPasswordsAreDead`: `Covered` says that a session or a login in flight predates
  the version of today, or goes with the password of today; every flush that
  overtakes nothing keeps that (`StepRaises`). Logins are unrestricted.
- `DeletionFreesAddress`: a deletion scrubs what the document it loaded had, an
  upgrade in flight had loaded a live one (`LoadedInv`).
- `OneOwner`: the identity a handler is about to write, if no other request carries
  it, is nobody else's (`OwnerInv`).

**Outbox and Events**
- `PublishesBounded`: a pod publishes an event at most once more than it was
  interrupted. `Budget` adds that a pod which may still publish the row has one
  publication left.
- `LossesHaveCauses`: an event whose row says `sent` is confirmed or buffered, or
  was refused by the broker, or published where there was no channel, or handed
  over by a process that ended or closed its bus. Nothing is assumed of the order
  in which a pod starts. `Kept` says the same of the rows that are published and
  not flushed yet, and `HeldStays` that no step takes the reason away.
- `SweepDelivers`: with one pod, `Outbox` implements the safety part of
  `EventDelivery`. `Claimed` says that the rows of the batch are still pending at
  the flush; a second pod breaks it, and with it the refinement.
- `EventsProofs!CopiesAccounted`, `LettersStayHome`: conservation. A step moves one
  copy from one place to another (`CopyMoves`), adds one to `routed` and `queue`,
  or happens to a process that is ending; `severed` and `rejected` are two of the
  places. The invariant adds `Equipped`: a process that has run without an end and
  takes deliveries has a channel, so a failure never meets `bus[c] = FALSE` there.

**Session**
- `RotatedIsDead`, `LogoutHolds`: a token that was rotated, or whose logout Redis
  took, is on the blacklist while it verifies. `Blacklisted` changes with time;
  the invariant says instead that the key lives as long as the token
  (`token.exp * T <= until`) or the token has expired (`Consumed`), which needs
  `(n \div t) * t <= n` for the second the TTL is computed from.
- `SpentIsRefused`: a request that comes in with an outdated or orphaned token gets
  no pair, and one with a rotated or logged-out token only if that expired before
  Redis answered. `InCall` follows a request from await to await: past the
  blacklist a used token is late, past the version an outdated one is refused
  (`VersionsBehind`: no token is ahead).
- `RefusalsAreTrue`: while Redis answers, a verdict `token_invalid` is true when it
  is reached. With an outage it is not (`session_V_refused`).

**Migrate**
- `RecordIsTrue`, `RecordsInOrder`: as long as nobody runs `down`, 005 recorded
  means that the index is there and no stored documents share an address. The
  record is written two steps after the index, and a second job drops indexes in
  between; the invariant is that a unique index keeps the documents apart
  (`Enforced`), that a job which has it to record only finds it there (`Landed`),
  and that no job has a unique index on its list to drop (`Underway`).

**SignIn**
- `OutagesAreNoRejections`: `VerifierInv` follows the client ids that are left: as
  long as every answer was a verdict, the one a genuine token was issued for is
  among them. It needs that the filter of `orderedClientIds` loses none
  (`ClientIds`).
- `MergesAreAttested`, `AnswersAreTrue`, `StatusKept`: `CallInv` says that a handler
  which has not ended has committed nothing the gateway could have been told, that
  a reply on its way carries the outcome, and that a request the verifier refused
  was never sent. The run of `SignIn` is exhaustive already; the proofs give the
  reason.

Assumptions: those the modules name (`ASSUME`), and what a theorem states
(`Single` in `SweepDelivers`). Every invariant and action property the passing runs
check is proved. Only model-checked is liveness
(`EventuallyPurged`, `EventuallySettled`, `EventuallyRecorded`, the liveness part of
`EventDelivery`, `EveryRequestAnswered`): it needs fairness and ENABLED, which are
beyond the prover.

## 5. Known disagreements

Each of these four has a run that must end in a counterexample.

1. **A reset link can be spent twice** (`accounts_V_reset`). `resetPassword`
   looks the token up, awaits `argon2.hash`, then clears it.
2. **One fingerprint can have two accounts** (`accounts_V_fingerprint`).
   `createAutoregUser` is find-then-insert, production runs without
   `ensureIndexes`, and no migration creates the unique index on
   `devices.fingerprint`; the controller promises that the same fingerprint always
   returns the same account.
3. **An event can be lost after its row says sent** (`outbox_V_crash`). The
   publish does not wait for the confirm, so a crash drops the buffer.
4. **A Redis outage logs clients out** (`session_V_refused`). `isBlacklisted`
   throws a 503 that clients may retry; `JwtRefreshGuard.handleRequest` turns it
   into 401 `token_invalid`, upon which they wipe their tokens.

Seen while modelling, without a run of their own; where a property has to except
one of them, its hazard in PROJECT.json says so.

*Accounts.* Nothing serialises the handlers of one account, and a flush writes what
was decided on the document of an earlier moment. Concurrent bumps of
`tokenVersion` collapse into one, so a session opened between them survives a
reset. A reset in flight clears the token of a newer link that was mailed
meanwhile. An upgrade that overlaps a deletion writes the address back into the
soft-deleted document. Two OAuth logins with one identity and different addresses
make two accounts. The properties of `Overlaps` except exactly these overlaps.
`forgotPassword` stores the new token before it sends the mail and swallows a failed
dispatch: the old link is dead, a new one never arrives, and the client gets the
answer of a success. A second deletion after a revival finds the outbox row of the first and is not
announced. Nor has production a unique index on `outbox_events.idempotencyKey`;
`FingerprintUnique` and `KeyUnique` stand for the two indexes that
only `ensureIndexes` builds. An autoreg that dies between its two inserts leaves an
account without a device or a device without an account, whichever the ORM wrote
first; the next autoreg with the fingerprint replaces the device.
`deleteUser` dying between its two writes announces a deletion that did not
happen. Autoreg on the device of a deleted anonymous account answers with the
deleted account. The comment in `deleteUser` has a soft-deleted record hold neither
email nor name; the code scrubs the email and leaves the name until the purge.

*Sign-in.* `auth.dto.ts:137` documents the `email` of an OAuth request as a hint
"Used to link accounts by email". The code never does that: `oauthLogin` passes
it on unattested and only if the provider names no address, and an unattested
address is never merged (`auth.service.ts:150-163`). `OnlyAttestedMerges` states what
the code does, which is the safe reading; the description in the DTO is wrong. A
provider that limits its rate, or whose body is cut off by the 5 s abort, makes a
genuine token `token_invalid`, which `GenuineNotRejected` has to except.

*Sessions.* `docs/AUTH-FLOW.md` calls a refresh token single-use; two refreshes
that both pass the strategy before either of them blacklists the token both get a
pair. What the code does guarantee is `SpentNeverRotates`: a request that comes in
after the first pair was issued gets none, with one exception: the strategy checks
the expiry before it asks Redis, so a used token that is verified in its last
moment passes if its key has expired when the GET is served. Logout reports
success when Redis did not store the key.

*Events.* `publish` and `publishToDeadLetter` do not await the confirm; their `catch`
only logs. A message the broker refuses is lost, though the row of an event says
`sent` or will. A sweep that runs before the bus of its pod is open publishes
nothing and marks the rows `sent` all the same. A connection of a consumer that
breaks takes the deliveries on it along (`noAck`) while the process lives. "So we don't silently drop events" (`messaging.module.ts`) does not hold
during a shutdown: the destroy hook closes the channel while deliveries and
handlers go on, and a handler that throws then leaves a warning only. What was
delivered to a process that dies is gone (`noAck`). The comment on `bindQueue`
says that Nest's consumer has asserted the queue by then; Nest runs the bootstrap
hooks first, so the first start of a subscriber waits for its queue until the 60 s
limit ends it, unless a peer's client has declared it. Events published before a
subscriber is bound are not kept for it. One comment calls the dead-letter exchange
a fanout; it is a topic exchange, and `EveryDlq` shows what a fanout would do.

*Health.* `HealthController.live` is documented to fail only when the process itself
is wedged, yet it pings Redis and RabbitMQ: an outage of either fails the liveness
probe of every gateway pod at once.

*Migrations.* On a fresh database `users.indexes()` in 005 rejects with
NamespaceNotFound until the first account creates the collection, so the job that
is to run before the first release fails there however often it is run again;
`EventuallyRecorded` speaks of databases in which the collection comes to be. The pre-flight of 005 counts active accounts, `createIndex` every
stored document: an address left in a soft-deleted one (an upgrade that overlapped
the deletion) passes the first and fails the second, with a message that does not
say which documents. `down` leaves the row in `_migrations`, so `up` is never run
again. Between the drop of the old index and the build of the new one there is
none. A swallowed `dropIndex` error may leave the old index beside the new one.

## 6. Not modelled, and why

- `updateUser`, `getUserById`: profile fields no property is about.
- The `failed` status, `attempts` limit and re-queueing of the outbox:
  `RpcClientService.publishEvent` catches every error, so the branch that sets
  them never runs. The metrics gauges.
- What an event handler does: no service of the repository declares one. `Events`
  lets it return or throw. Dead letters stay in their queue: nothing consumes it.
- `deviceId` of a refresh token, access tokens: checked without state.
- A missing migrations directory or a file without `up`: skipped with a warning,
  a deployment fault without a step of its own.
- Throttling (its counters live in `@nestjs/throttler`), health, metrics,
  telemetry, configuration checks, email: no state the rest depends on. The
  scaffolding and audit scripts under `tools/` run on a developer's machine.
- `RpcAllExceptionsFilter` for an `HttpException` or a plain `RpcException`: no handler of
  the user-service throws one, and its payloads are interfaces, which the
  `ValidationPipe` lets pass.
- `Session` takes from `Accounts` that a bump increases the version; concurrent
  handlers of `Accounts` may lose one of two bumps.
- Redis keeps what it stored until the TTL; a Redis that loses its data is
  outside the model. The broker keeps durable queues. No request spans the end of
  a grace window (30 days).

## 7. Plan

Done: all components that keep state, as listed in 2, with the proofs of 4.

1. Compositions: `Accounts` with `Session` (versions as the user-service really
   bumps them), `Accounts` with `Outbox` (from `deleteUser` to the broker), an RPC
   that is retried by the client after a timeout against `Accounts`.
2. Theorems: `DeliverySafe` of the publisher inside `Events`.
