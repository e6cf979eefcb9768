------------------------------- MODULE Migrate -------------------------------
(***************************************************************************)
(* The db-migrate task (tasks/db-migrate), the migrations it applies       *)
(* (tools/migrations: 001, a no-op, and 005, the unique index on           *)
(* users.email) and what goes on in the collection `users` meanwhile: the  *)
(* user-service is not stopped for a migration.                            *)
(*                                                                         *)
(* A job is started by hand from a CronJob, so two may run at once. One    *)
(* action is the code from one await to the next; what a job read stays in *)
(* its record in `job`, to be used stale.                                  *)
(***************************************************************************)
EXTENDS Naturals

CONSTANTS
    Users,      \* _ids of user documents
    Emails,     \* addresses
    Jobs,       \* instances of the task that may run at the same time
    External,   \* which outside events happen, a subset of Events
    None        \* an absent field

Events == {"die", "delete", "purge", "rollback", "ensureIndexes"}

ASSUME ExternalAssumption == External \subseteq Events
ASSUME NoneAssumption == None \notin Emails

VARIABLES
    doc,        \* the users collection, by _id
    claim,      \* claim[u]: the address a handler is about to flush into u
    exists,     \* is there a collection `users`?
    index,      \* which indexes on users.email exist
    recorded,   \* ids of the rows of _migrations
    job,        \* the instances of the task
    rollback    \* a `down` of 005 run by hand: "no", "half" or "done"

vars == <<doc, claim, index, exists, recorded, job, rollback>>

Files == {1, 5}
Baseline == 1
UserEmailUnique == 5

Doc ==
    [row : {"active", "deleted"}, email : Emails \cup {None}]
        \cup [row : {"unborn", "gone"}, email : {None}]

\* seen: the indexes the job has listed and will drop.
Job == [pc : {"idle", "preflight", "list", "drop", "create", "record"},
        applied : SUBSET Files, file : Files \cup {0}, seen : SUBSET {"plain", "unique"}]

NoJob == [pc |-> "idle", applied |-> {}, file |-> 0, seen |-> {}]

TypeOK ==
    /\ doc \in [Users -> Doc]
    /\ claim \in [Users -> Emails \cup {None}]
    /\ exists \in BOOLEAN
    /\ index \in SUBSET {"plain", "unique"}
    /\ recorded \in SUBSET Files
    /\ job \in [Jobs -> Job]
    /\ rollback \in {"no", "half", "done"}

\* A database from before the migrations, with the index of its time or
\* without one, or a fresh one without the collection.
Init ==
    /\ doc = [u \in Users |-> [row |-> "unborn", email |-> None]]
    /\ claim = [u \in Users |-> None]
    /\ exists \in BOOLEAN
    /\ index \in IF exists THEN {{}, {"plain"}} ELSE {{}}
    /\ recorded = {}
    /\ job = [j \in Jobs |-> NoJob]
    /\ rollback = "no"

----------------------------------------------------------------------------
(* The collection.                                                         *)

Stored(u) == doc[u].row \in {"active", "deleted"}
Active(u) == doc[u].row = "active"

\* The address e is in a stored document other than u.
Held(u, e) == \E v \in Users \ {u} : Stored(v) /\ doc[v].email = e

\* The index is sparse: documents without the field do not count.
Shared == \E u \in Users : Stored(u) /\ doc[u].email # None /\ Held(u, doc[u].email)

\* upgradeAccount looks for the address, in deleted accounts, too, and
\* flushes it into the document it loaded after an argon2 hash.
UpgradeFind(u, e) ==
    /\ claim[u] = None /\ Active(u) /\ doc[u].email = None /\ ~Held(u, e)
    /\ claim' = [claim EXCEPT ![u] = e]
    /\ UNCHANGED <<doc, index, exists, recorded, job, rollback>>

\* An account without an address: autoreg. The first document creates the
\* collection.
Autoreg(u) ==
    /\ doc[u].row = "unborn" /\ claim[u] = None
    /\ doc' = [doc EXCEPT ![u].row = "active"]
    /\ exists' = TRUE
    /\ UNCHANGED <<claim, index, recorded, job, rollback>>

\* findOrCreateOAuthUser looks among the active accounts if the address is
\* attested, and nowhere if it is not, before it inserts a document.
OAuthFind(u, e) ==
    /\ claim[u] = None /\ doc[u].row = "unborn"
    /\ claim' = [claim EXCEPT ![u] = e]
    /\ UNCHANGED <<doc, index, exists, recorded, job, rollback>>

\* Slip: the update is an upsert.
Upserted(u) ==
    IF "unique" \in index /\ Held(u, claim[u]) THEN doc ELSE [doc EXCEPT ![u].email = claim[u]]

\* The flush of either one: an insert, or an update of the document by _id,
\* which finds nothing when it was purged. E11000 is answered 409.
Written(u) ==
    IF doc[u].row = "gone" \/ ("unique" \in index /\ Held(u, claim[u]))
    THEN doc
    ELSE [doc EXCEPT ![u] = [row |-> IF @.row = "unborn" THEN "active" ELSE @.row,
                             email |-> claim[u]]]

Flush(u) ==
    /\ claim[u] # None
    /\ claim' = [claim EXCEPT ![u] = None]
    /\ doc' = Written(u)
    /\ exists' = (exists \/ doc' # doc)
    /\ UNCHANGED <<index, recorded, job, rollback>>

\* deleteUser scrubs the address. An upgrade that overlaps it leaves the
\* address in the soft-deleted document: Delete, then Flush.
Delete(u) ==
    /\ "delete" \in External /\ Active(u)
    /\ doc' = [doc EXCEPT ![u] = [row |-> "deleted", email |-> None]]
    /\ UNCHANGED <<claim, index, exists, recorded, job, rollback>>

Purge(u) ==
    /\ "purge" \in External /\ doc[u].row = "deleted"
    /\ doc' = [doc EXCEPT ![u] = [row |-> "gone", email |-> None]]
    /\ UNCHANGED <<claim, index, exists, recorded, job, rollback>>

\* A failed job is loud: a human takes a shared address out of a document.
Resolve(u) ==
    /\ Stored(u) /\ doc[u].email # None /\ Held(u, doc[u].email)
    /\ doc' = [doc EXCEPT ![u].email = None]
    /\ UNCHANGED <<claim, index, exists, recorded, job, rollback>>

Service(u) ==
    \/ Autoreg(u) \/ Flush(u) \/ Delete(u) \/ Purge(u)
    \/ \E e \in Emails : UpgradeFind(u, e) \/ OAuthFind(u, e)

----------------------------------------------------------------------------
(* The runner: DbMigrateTask.run.                                          *)

At(j, pc) == job[j].pc = pc
Goto(j, pc) == job' = [job EXCEPT ![j].pc = pc]

\* The loop goes on behind file f: to the first await of the next file that
\* is not in the snapshot of _migrations. `up` of 001 does nothing.
StepOf(r, f) ==
    IF Baseline \notin r.applied /\ f < Baseline
    THEN [r EXCEPT !.pc = "record", !.file = Baseline]
    ELSE IF UserEmailUnique \notin r.applied /\ f < UserEmailUnique
    THEN [r EXCEPT !.pc = "preflight", !.file = UserEmailUnique]
    ELSE NoJob

\* loadAppliedIds, once per run.
Load(j) ==
    /\ At(j, "idle")
    /\ job' = [job EXCEPT ![j] = StepOf([NoJob EXCEPT !.applied = recorded], 0)]
    /\ job' # job
    /\ UNCHANGED <<doc, claim, index, exists, recorded, rollback>>

\* Slip: the catch logs the error and the loop goes on.
CarriedOn(j) == StepOf(job[j], job[j].file)

\* The catch rethrows and the process exits with 1.
Failed(j) == NoJob

\* Slip: documents without an address are grouped under null.
SameAddressOrNone(u, v) == doc[u].email = doc[v].email

\* The $match and $group of the pre-flight.
SameAddress(u, v) == doc[u].email # None /\ doc[u].email = doc[v].email

\* 005, step 1: no two active accounts share an address.
Preflight(j) ==
    /\ At(j, "preflight")
    /\ IF \E u, v \in Users : u # v /\ Active(u) /\ Active(v) /\ SameAddress(u, v)
       THEN job' = [job EXCEPT ![j] = Failed(j)]
       ELSE Goto(j, "list")
    /\ UNCHANGED <<doc, claim, index, exists, recorded, rollback>>

\* Slip: `!ix.unique` is forgotten.
EveryEmailIndex == index

Legacy == index \ {"unique"}

\* Step 2: list the indexes; Mongo answers NamespaceNotFound while there is
\* no collection, and the job fails ...
ListIndexes(j) ==
    /\ At(j, "list")
    /\ job' = [job EXCEPT ![j] =
            IF ~exists THEN Failed(j)
            ELSE [@ EXCEPT !.seen = Legacy, !.pc = IF Legacy = {} THEN "create" ELSE "drop"]]
    /\ UNCHANGED <<doc, claim, index, exists, recorded, rollback>>

\* ... and drop the legacy one; an error is swallowed.
DropIndex(j) ==
    /\ At(j, "drop")
    /\ \/ index' = index \ job[j].seen
       \/ "die" \in External /\ UNCHANGED index
    /\ job' = [job EXCEPT ![j].seen = {}, ![j].pc = "create"]
    /\ UNCHANGED <<doc, claim, exists, recorded, rollback>>

\* Step 3, at the commit of the index build: every stored document counts.
CreateIndex(j) ==
    /\ At(j, "create")
    /\ IF Shared
       THEN job' = [job EXCEPT ![j] = Failed(j)] /\ UNCHANGED index
       ELSE index' = index \cup {"unique"} /\ Goto(j, "record")
    /\ UNCHANGED <<doc, claim, exists, recorded, rollback>>

Record(j) ==
    /\ At(j, "record")
    /\ recorded' = recorded \cup {job[j].file}
    /\ job' = [job EXCEPT ![j] = StepOf(job[j], job[j].file)]
    /\ UNCHANGED <<doc, claim, index, exists, rollback>>

\* A database error at the await (createIndex beside an index with the same
\* key and other options is one) ...
Fail(j) ==
    /\ "die" \in External /\ ~At(j, "idle")
    /\ job' = [job EXCEPT ![j] = Failed(j)]
    /\ UNCHANGED <<doc, claim, index, exists, recorded, rollback>>

\* ... or the end of the pod.
Die(j) ==
    /\ "die" \in External /\ ~At(j, "idle")
    /\ job' = [job EXCEPT ![j] = NoJob]
    /\ UNCHANGED <<doc, claim, index, exists, recorded, rollback>>

Up(j) == Preflight(j) \/ ListIndexes(j) \/ DropIndex(j) \/ CreateIndex(j)
Runner(j) == Load(j) \/ Up(j) \/ Record(j) \/ Fail(j) \/ Die(j)

----------------------------------------------------------------------------
(* By hand, and in development.                                            *)

\* `down` of 005 leaves the row in _migrations.
RollbackDrop ==
    /\ "rollback" \in External /\ rollback = "no"
    /\ rollback' = "half"
    /\ index' \in {index, index \ {"unique"}}
    /\ UNCHANGED <<doc, claim, exists, recorded, job>>

RollbackCreate ==
    /\ rollback = "half"
    /\ rollback' = "done"
    /\ index' = index \cup {"plain"} /\ exists' = TRUE
    /\ UNCHANGED <<doc, claim, recorded, job>>

\* MikroORM at the start of a service, outside production.
EnsureIndexes ==
    /\ "ensureIndexes" \in External /\ ~Shared
    /\ index' = index \cup {"unique"} /\ exists' = TRUE
    /\ UNCHANGED <<doc, claim, recorded, job, rollback>>

ByHand == RollbackDrop \/ RollbackCreate \/ EnsureIndexes

Next ==
    \/ \E u \in Users : Service(u) \/ Resolve(u)
    \/ \E j \in Jobs : Runner(j)
    \/ ByHand

Spec == Init /\ [][Next]_vars

\* One job is run again until it succeeds, it does not fail for ever at the
\* same await, and the duplicates it complains of are resolved. Another one
\* may hang where it is.
Fairness ==
    LET j == CHOOSE j \in Jobs : TRUE
    IN  /\ WF_vars(Load(j))
        /\ SF_vars(Preflight(j)) /\ SF_vars(ListIndexes(j)) /\ SF_vars(DropIndex(j))
        /\ SF_vars(CreateIndex(j)) /\ SF_vars(Record(j))
        /\ WF_vars(\E u \in Users : Resolve(u))

FairSpec == Spec /\ Fairness

----------------------------------------------------------------------------
(* Properties.                                                             *)

\* DbMigrateTask.run and 005: once 005 is recorded, and unless somebody ran
\* its `down`, the index is in place and no two stored documents share an
\* address, whatever other jobs, crashes and writers did on the way.
RecordedHolds ==
    UserEmailUnique \in recorded /\ rollback = "no" => "unique" \in index /\ ~Shared

\* run, "sorts lexically": no migration is recorded before its predecessors,
\* also when one of them failed.
RecordedInOrder == UserEmailUnique \in recorded => Baseline \in recorded

\* README of the migrations, "a re-run will retry that same file": once the
\* handlers leave the addresses alone, 005 is recorded in the end, if the
\* collection ever comes to be. On a fresh production database it does so
\* with the first account, and until then every run fails at the listing.
EventuallyRecorded ==
    <>[](\A u \in Users : claim[u] = None) /\ <>exists => <>(UserEmailUnique \in recorded)
=============================================================================
