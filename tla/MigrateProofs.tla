---------------------------- MODULE MigrateProofs ----------------------------
(* What a record in _migrations is worth, for any number of documents,     *)
(* addresses and concurrent jobs.                                          *)
EXTENDS Migrate, TLAPS

\* The index does what Mongo promises of a unique index.
Enforced == "unique" \in index => ~Shared

\* A job at the steps of 005 has found 001 recorded; it drops legacy indexes
\* only, and goes to the record only when the index is there.
Underway(j) ==
    /\ job[j].applied \subseteq recorded
    /\ job[j].seen \subseteq {"plain"}
    /\ job[j].pc = "record" => job[j].file \in Files
    /\ job[j].pc \in {"preflight", "list", "drop", "create"} => job[j].file = UserEmailUnique
    /\ job[j].pc # "idle" /\ job[j].file = UserEmailUnique => Baseline \in recorded
    /\ job[j].pc = "record" /\ job[j].file = UserEmailUnique /\ rollback = "no"
         => "unique" \in index

Landed == UserEmailUnique \in recorded /\ rollback = "no" => "unique" \in index

IInv ==
    /\ TypeOK /\ Enforced /\ Landed /\ RecordedInOrder
    /\ \A j \in Jobs : Underway(j)

\* Nothing is recorded at the start.
LEMMA InitInv == Init => IInv
BY NoneAssumption DEF Init, IInv, TypeOK, Doc, Job, NoJob, Files, Enforced, Shared, Stored, Landed,
    RecordedInOrder, Underway, Baseline, UserEmailUnique

\* StepOf: where a job goes next is well formed, and at 005 only when 001 is
\* in the snapshot or behind it.
LEMMA NextStep ==
    ASSUME NEW r \in Job, NEW f \in {0, 1, 5}
    PROVE  /\ StepOf(r, f) \in Job
           /\ \/ StepOf(r, f) = NoJob
              \/ /\ StepOf(r, f) = [r EXCEPT !.pc = "record", !.file = Baseline]
              \/ /\ StepOf(r, f) = [r EXCEPT !.pc = "preflight", !.file = UserEmailUnique]
                 /\ Baseline \in r.applied \/ f = Baseline
<1> USE DEF Baseline, UserEmailUnique
<1>1. \/ StepOf(r, f) = NoJob
      \/ StepOf(r, f) = [r EXCEPT !.pc = "record", !.file = Baseline]
      \/ /\ StepOf(r, f) = [r EXCEPT !.pc = "preflight", !.file = UserEmailUnique]
         /\ Baseline \in r.applied \/ f = Baseline
  <2>1. CASE f = 0
    BY <2>1 DEF StepOf
  <2>2. CASE f = 1
    BY <2>2 DEF StepOf
  <2>3. CASE f = 5
    BY <2>3 DEF StepOf
  <2> QED
    BY <2>1, <2>2, <2>3
<1>2. NoJob \in Job
  BY DEF NoJob, Job, Files
<1>3. /\ [r EXCEPT !.pc = "record", !.file = Baseline] \in Job
      /\ [r EXCEPT !.pc = "preflight", !.file = UserEmailUnique] \in Job
  BY DEF Job, Files
<1> QED
  BY <1>1, <1>2, <1>3

\* The collection changes, the rest does not.
LEMMA ServiceKeeps ==
    ASSUME IInv, NEW u \in Users, Service(u) \/ Resolve(u)
    PROVE  IInv'
<1>1. UNCHANGED <<index, recorded, job, rollback>>
  BY DEF Service, Resolve, Autoreg, Flush, Delete, Purge, UpgradeFind, OAuthFind
<1>2. TypeOK'
  <2>1. TypeOK
    BY DEF IInv
  <2>2. CASE Autoreg(u)
    BY <2>1, <2>2 DEF Autoreg, TypeOK, Doc
  <2>3. CASE Flush(u)
    BY <2>1, <2>3 DEF Flush, Written, TypeOK, Doc
  <2>4. CASE Delete(u)
    BY <2>1, <2>4 DEF Delete, TypeOK, Doc
  <2>5. CASE Purge(u)
    BY <2>1, <2>5 DEF Purge, TypeOK, Doc
  <2>6. CASE \E e \in Emails : UpgradeFind(u, e) \/ OAuthFind(u, e)
    BY <2>1, <2>6 DEF UpgradeFind, OAuthFind, TypeOK
  <2>7. CASE Resolve(u)
    BY <2>1, <2>7 DEF Resolve, TypeOK, Doc
  <2> QED
    BY <2>2, <2>3, <2>4, <2>5, <2>6, <2>7 DEF Service
<1>3. Enforced'
  <2> SUFFICES ASSUME "unique" \in index, ~Shared
               PROVE  ~Shared'
    BY <1>1 DEF Enforced, IInv
  <2>1. TypeOK
    BY DEF IInv
  <2>2. CASE Autoreg(u)
    BY <2>1, <2>2 DEF Autoreg, TypeOK, Doc, Shared, Stored, Held
  <2>3. CASE Flush(u)
    <3>1. CASE doc' = doc
      BY <3>1 DEF Shared, Stored, Held
    <3>2. CASE doc' # doc
      <4>1. /\ doc[u].row # "gone" /\ ~Held(u, claim[u])
            /\ doc' = [doc EXCEPT ![u] = [row |-> IF @.row = "unborn" THEN "active" ELSE @.row,
                                           email |-> claim[u]]]
        BY <2>3, <3>2 DEF Flush, Written
      <4>2. doc'[u].email = claim[u] /\ \A v \in Users \ {u} : doc'[v] = doc[v]
        BY <2>1, <4>1 DEF TypeOK
      <4>3. \A v \in Users \ {u} : Stored(v) => doc[v].email # claim[u]
        BY <4>1 DEF Held
      <4> QED
        BY <4>2, <4>3 DEF Shared, Stored, Held
    <3> QED
      BY <3>1, <3>2
  <2>4. CASE Delete(u)
    BY <2>1, <2>4 DEF Delete, TypeOK, Doc, Shared, Stored, Held
  <2>5. CASE Purge(u)
    BY <2>1, <2>5 DEF Purge, TypeOK, Doc, Shared, Stored, Held
  <2>6. CASE \E e \in Emails : UpgradeFind(u, e) \/ OAuthFind(u, e)
    BY <2>6 DEF UpgradeFind, OAuthFind, Shared, Stored, Held
  <2>7. CASE Resolve(u)
    BY <2>7 DEF Resolve, Shared
  <2> QED
    BY <2>2, <2>3, <2>4, <2>5, <2>6, <2>7 DEF Service
<1> QED
  BY <1>1, <1>2, <1>3 DEF IInv, Landed, RecordedInOrder, Underway

\* One job changes its record, and at most the index or _migrations.
LEMMA RunnerKeeps ==
    ASSUME IInv, NEW j \in Jobs, Runner(j)
    PROVE  IInv'
<1> USE DEF Baseline, UserEmailUnique
<1>1. TypeOK /\ Enforced /\ Landed /\ RecordedInOrder /\ \A k \in Jobs : Underway(k)
  BY DEF IInv
<1>2. job[j] \in Job /\ job \in [Jobs -> Job]
  BY <1>1 DEF TypeOK
<1>3. NoJob \in Job
  BY DEF NoJob, Job, Files
<1>4. CASE Load(j)
  <2>1. PICK r \in Job : /\ r.applied = recorded /\ r.seen = {}
                         /\ job' = [job EXCEPT ![j] = StepOf(r, 0)]
    <3>1. [NoJob EXCEPT !.applied = recorded] \in Job
      BY <1>1 DEF TypeOK, NoJob, Job, Files
    <3> QED
      BY <1>4, <3>1 DEF Load, NoJob
  <2>2. UNCHANGED <<doc, claim, index, exists, recorded, rollback>>
    BY <1>4 DEF Load
  <2>3. /\ StepOf(r, 0) \in Job
        /\ \/ StepOf(r, 0) = NoJob
           \/ StepOf(r, 0) = [r EXCEPT !.pc = "record", !.file = Baseline]
           \/ /\ StepOf(r, 0) = [r EXCEPT !.pc = "preflight", !.file = UserEmailUnique]
              /\ Baseline \in r.applied
    <3>1. 0 \in {0, 1, 5} /\ 0 # Baseline
      OBVIOUS
    <3> QED
      BY <3>1, NextStep
  <2>4. job' \in [Jobs -> Job] /\ Underway(j)'
    <3>1. job' \in [Jobs -> Job] /\ job'[j] = StepOf(r, 0)
      BY <1>2, <2>1, <2>3
    <3>2. CASE StepOf(r, 0) = NoJob
      BY <3>1, <3>2 DEF Underway, NoJob
    <3>3. CASE StepOf(r, 0) = [r EXCEPT !.pc = "record", !.file = Baseline]
      <4>1. /\ job'[j].pc = "record" /\ job'[j].file = 1
            /\ job'[j].applied = recorded /\ job'[j].seen = {}
        BY <2>1, <3>1, <3>3 DEF Job
      <4> QED
        BY <2>2, <3>1, <4>1 DEF Underway, Files
    <3>4. CASE /\ StepOf(r, 0) = [r EXCEPT !.pc = "preflight", !.file = UserEmailUnique]
               /\ Baseline \in r.applied
      <4>1. /\ job'[j].pc = "preflight" /\ job'[j].file = UserEmailUnique
            /\ job'[j].applied = recorded /\ job'[j].seen = {}
        BY <2>1, <3>1, <3>4 DEF Job
      <4>2. Baseline \in recorded /\ recorded' = recorded
        BY <2>1, <2>2, <3>4
      <4> QED
        BY <3>1, <4>1, <4>2 DEF Underway
    <3> QED
      BY <2>3, <3>1, <3>2, <3>3, <3>4
  <2>5. \A k \in Jobs \ {j} : Underway(k)'
    BY <1>1, <1>2, <2>1, <2>2 DEF Underway
  <2> QED
    BY <1>1, <2>2, <2>3, <2>4, <2>5 DEF IInv, TypeOK, Enforced, Shared, Stored, Held, Landed, RecordedInOrder
<1>5. CASE Preflight(j) \/ ListIndexes(j) \/ Fail(j) \/ Die(j)
  <2>1. UNCHANGED <<doc, claim, index, exists, recorded, rollback>>
    BY <1>5 DEF Preflight, ListIndexes, Fail, Die
  <2>2. Legacy \subseteq {"plain"}
    BY <1>1 DEF TypeOK, Legacy
  <2>3. PICK c \in Job : /\ job' = [job EXCEPT ![j] = c]
                         /\ \/ c.pc = "idle" /\ c.applied = {} /\ c.file = 0
                            \/ /\ job[j].pc \in {"preflight", "list"} /\ c.pc \in {"list", "create", "drop"}
                               /\ c.applied = job[j].applied /\ c.file = job[j].file
                         /\ c.seen \subseteq {"plain"}
    <3>1. CASE job' = [job EXCEPT ![j] = NoJob]
      BY <1>3, <3>1 DEF NoJob
    <3>2. CASE At(j, "preflight") /\ Goto(j, "list")
      <4>1. [job[j] EXCEPT !.pc = "list"] \in Job
        BY <1>2 DEF Job
      <4>2. job' = [job EXCEPT ![j] = [job[j] EXCEPT !.pc = "list"]]
        BY <1>2, <3>2 DEF Goto
      <4>3. job[j].seen \subseteq {"plain"}
        BY <1>1 DEF Underway
      <4> QED
        BY <1>2, <3>2, <4>1, <4>2, <4>3 DEF At, Job
    <3>3. CASE At(j, "list") /\ exists /\ ListIndexes(j)
      <4> DEFINE c == [job[j] EXCEPT !.seen = Legacy,
                                     !.pc = IF Legacy = {} THEN "create" ELSE "drop"]
      <4>1. /\ c \in Job /\ c.pc \in {"create", "drop"} /\ c.seen = Legacy
            /\ c.applied = job[j].applied /\ c.file = job[j].file
        BY <1>2, <2>2 DEF Job
      <4>2. job' = [job EXCEPT ![j] = c]
        BY <1>2, <3>3 DEF ListIndexes
      <4> QED
        BY <2>2, <3>3, <4>1, <4>2 DEF At
    <3> QED
      BY <1>5, <3>1, <3>2, <3>3 DEF Preflight, ListIndexes, Fail, Die, Failed
  <2>4. job' \in [Jobs -> Job]
    BY <1>2, <2>3
  <2>5. Underway(j)'
    <3>1. job'[j] = c
      BY <1>2, <2>3
    <3> QED
      BY <1>1, <2>1, <2>3, <3>1 DEF Underway
  <2>6. \A k \in Jobs \ {j} : Underway(k)'
    BY <1>1, <1>2, <2>1, <2>3 DEF Underway
  <2> QED
    BY <1>1, <2>1, <2>4, <2>5, <2>6 DEF IInv, TypeOK, Enforced, Shared, Stored, Held, Landed, RecordedInOrder
<1>6. CASE DropIndex(j)
  <2>1. /\ job[j].pc = "drop" /\ job[j].seen \subseteq {"plain"}
        /\ job' = [job EXCEPT ![j].seen = {}, ![j].pc = "create"]
        /\ UNCHANGED <<doc, claim, exists, recorded, rollback>>
        /\ index' \subseteq index /\ ("unique" \in index => "unique" \in index')
    BY <1>1, <1>6 DEF DropIndex, At, Underway
  <2>2. job' \in [Jobs -> Job]
    BY <1>2, <2>1 DEF Job
  <2>3. \A k \in Jobs : Underway(k)'
    BY <1>1, <1>2, <2>1 DEF Underway, Job
  <2>4. Enforced'
    BY <1>1, <2>1 DEF Enforced, Shared, Stored, Held
  <2> QED
    BY <1>1, <2>1, <2>2, <2>3, <2>4 DEF IInv, TypeOK, Landed, RecordedInOrder
<1>7. CASE CreateIndex(j)
  <2>1. /\ job[j].pc = "create"
        /\ UNCHANGED <<doc, claim, exists, recorded, rollback>>
        /\ \/ Shared /\ job' = [job EXCEPT ![j] = NoJob] /\ UNCHANGED index
           \/ ~Shared /\ index' = index \cup {"unique"} /\ job' = [job EXCEPT ![j].pc = "record"]
    BY <1>7 DEF CreateIndex, At, Goto, Failed
  <2>2. job' \in [Jobs -> Job]
    BY <1>2, <1>3, <2>1 DEF Job
  <2>3. Underway(j)'
    BY <1>1, <1>2, <2>1 DEF Underway, NoJob, Job, Files
  <2>4. \A k \in Jobs \ {j} : Underway(k)'
    BY <1>1, <1>2, <2>1 DEF Underway
  <2>5. Enforced'
    BY <1>1, <2>1 DEF Enforced, Shared, Stored, Held
  <2> QED
    BY <1>1, <2>1, <2>2, <2>3, <2>4, <2>5 DEF IInv, TypeOK, Landed, RecordedInOrder
<1>8. CASE Record(j)
  <2>1. /\ job[j].pc = "record" /\ job[j].file \in {1, 5}
        /\ job' = [job EXCEPT ![j] = StepOf(job[j], job[j].file)]
        /\ recorded' = recorded \cup {job[j].file}
        /\ UNCHANGED <<doc, claim, index, exists, rollback>>
    BY <1>1, <1>8 DEF Record, At, Underway, Files
  <2>2. job' \in [Jobs -> Job]
    BY <1>2, <2>1, NextStep
  <2>3. Underway(j)'
    <3>1. \/ job'[j] = NoJob
          \/ job'[j] = [job[j] EXCEPT !.pc = "record", !.file = Baseline]
          \/ /\ job'[j] = [job[j] EXCEPT !.pc = "preflight", !.file = UserEmailUnique]
             /\ Baseline \in job[j].applied \/ job[j].file = Baseline
      BY <1>2, <2>1, NextStep
    <3>2. Baseline \in job[j].applied \/ job[j].file = Baseline => Baseline \in recorded'
      BY <1>1, <2>1 DEF Underway
    <3>3. CASE job'[j] = NoJob
      BY <2>1, <3>3 DEF Underway, NoJob
    <3>a. job[j].applied \subseteq recorded' /\ job[j].seen \subseteq {"plain"}
      BY <1>1, <2>1 DEF Underway
    <3>4. CASE job'[j] = [job[j] EXCEPT !.pc = "record", !.file = Baseline]
      <4>1. /\ job'[j].pc = "record" /\ job'[j].file = 1
            /\ job'[j].applied = job[j].applied /\ job'[j].seen = job[j].seen
        BY <1>2, <3>4 DEF Job
      <4> QED
        BY <3>a, <4>1 DEF Underway, Files
    <3>5. CASE /\ job'[j] = [job[j] EXCEPT !.pc = "preflight", !.file = UserEmailUnique]
               /\ Baseline \in job[j].applied \/ job[j].file = Baseline
      <4>1. /\ job'[j].pc = "preflight" /\ job'[j].file = 5
            /\ job'[j].applied = job[j].applied /\ job'[j].seen = job[j].seen
        BY <1>2, <3>5 DEF Job
      <4> QED
        BY <3>2, <3>5, <3>a, <4>1 DEF Underway
    <3> QED
      BY <3>1, <3>3, <3>4, <3>5
  <2>4. \A k \in Jobs \ {j} : Underway(k)'
    BY <1>1, <1>2, <2>1 DEF Underway
  <2>5. Landed'
    BY <1>1, <2>1 DEF Landed, Underway
  <2>6. RecordedInOrder'
    BY <1>1, <2>1 DEF RecordedInOrder, Underway
  <2> QED
    BY <1>1, <2>1, <2>2, <2>3, <2>4, <2>5, <2>6 DEF IInv, TypeOK, Enforced, Shared, Stored, Held, Files
<1> QED
  BY <1>4, <1>5, <1>6, <1>7, <1>8 DEF Runner, Up

\* An operator at the database, or a writer.
LEMMA ByHandKeeps ==
    ASSUME IInv, ByHand
    PROVE  IInv'
<1>1. UNCHANGED <<doc, claim, recorded, job>> /\ exists' \in BOOLEAN
  BY DEF IInv, TypeOK, ByHand, RollbackDrop, RollbackCreate, EnsureIndexes
<1>2. \/ rollback' \in {"half", "done"} /\ index' \subseteq index \cup {"plain"}
      \/ rollback' = rollback /\ ~Shared /\ index' = index \cup {"unique"}
  BY DEF ByHand, RollbackDrop, RollbackCreate, EnsureIndexes
<1>3. Shared' = Shared
  BY <1>1 DEF Shared, Stored, Held
<1> QED
  BY <1>1, <1>2, <1>3 DEF IInv, TypeOK, Enforced, Landed, RecordedInOrder, Underway

\* Steps that change nothing.
LEMMA StutterKeeps ==
    ASSUME IInv, UNCHANGED vars
    PROVE  IInv'
BY DEF vars, IInv, TypeOK, Enforced, Shared, Stored, Held, Landed, RecordedInOrder, Underway

\* The invariant holds in every state.
LEMMA Invariance == Spec => []IInv
<1>1. IInv /\ [Next]_vars => IInv'
  BY ServiceKeeps, RunnerKeeps, ByHandKeeps, StutterKeeps DEF Next
<1> QED
  BY InitInv, <1>1, PTL DEF Spec

\* Type correctness.
THEOREM TypeCorrect == Spec => []TypeOK
<1>1. IInv => TypeOK
  BY DEF IInv
<1> QED
  BY Invariance, <1>1, PTL

\* DbMigrateTask.run and 005: a recorded migration that nobody rolled back
\* holds, for any number of jobs, documents and writers.
THEOREM RecordIsTrue == Spec => []RecordedHolds
<1>1. IInv => RecordedHolds
  BY DEF IInv, Landed, Enforced, RecordedHolds
<1> QED
  BY Invariance, <1>1, PTL

\* run: 005 is not recorded before 001, also when jobs fail half-way.
THEOREM RecordsInOrder == Spec => []RecordedInOrder
<1>1. IInv => RecordedInOrder
  BY DEF IInv
<1> QED
  BY Invariance, <1>1, PTL
=============================================================================
