--------------------------- MODULE EvidenceStore ----------------------------
(***************************************************************************)
(* The tamper-evident evidence store (evidence/store.py): append() by many *)
(* threads of one or more processes, each process with a store instance of *)
(* its own on the same file or table, and verify()/verify_tenant() walking *)
(* the rows meanwhile.                                                     *)
(*                                                                         *)
(* SHA-256 is abstracted to an injective function: _chain(prev, payload)   *)
(* is prev with the payload added at its end, so a chain hash is the       *)
(* sequence of the records it commits to and the all-zero hash is <<>>.    *)
(***************************************************************************)
EXTENDS Integers, Sequences, FiniteSets

CONSTANTS Backend,     \* "jsonl", "sqlite" or "postgres"
          Instances,   \* store instances, one per process
          Threads,     \* the threads that call append()
          InstanceOf,  \* the instance a thread's store is
          NoThread,    \* the holder of a free lock
          Tenants,     \* tenant ids
          NoTenant,    \* the None of an unstamped record or an absent scope
          Unscoped,    \* the "_unscoped_" sentinel tenant
          Decisions,   \* what records differ in besides the tenant
          MaxRows,     \* bound: rows in the store
          MaxEdits     \* bound: rows edited out of band

ASSUME BackendAssumption == Backend \in {"jsonl", "sqlite", "postgres"}
ASSUME InstanceAssumption ==
  InstanceOf \in [Threads -> Instances] /\ NoThread \notin Threads
ASSUME TenantAssumption == Unscoped \in Tenants /\ NoTenant \notin Tenants
ASSUME DecisionAssumption == Decisions # {}
ASSUME BoundAssumption == MaxRows \in Nat /\ MaxEdits \in Nat

Records == [tenant : Tenants, decision : Decisions]
Hashes == Seq(Records)
Rows == [record : Records, hash : Hashes]
\* The job of a thread outside append().
NoJob == [tenant |-> Unscoped, decision |-> CHOOSE d \in Decisions : TRUE]

VARIABLES log,        \* the stored rows, in append order
          torn,       \* JSONL: the file ends in a partly written line
          lock,       \* lock[i]: the holder of instance i's threading.Lock
          advisory,   \* advisory[t]: the holder of tenant t's Postgres lock
          pc,         \* pc[th]: where thread th is in append()
          job,        \* job[th]: the stamped record th is appending
          prev,       \* prev[th]: the hash th read as its predecessor's
          acked,      \* the <<tenant, hash>> pairs append() returned
          edited,     \* positions of the rows edited out of band
          walk        \* the verifier: see IdleWalk

appendVars == <<log, torn, lock, advisory, pc, job, prev, acked>>
vars == <<log, torn, lock, advisory, pc, job, prev, acked, edited, walk>>

-----------------------------------------------------------------------------
(* The chain.                                                              *)

ZeroHash == <<>>
\* Fault: the record is hashed on its own, without the previous hash.
ChainUnlinked(prevHash, record) == <<record>>
Chain(prevHash, record) == Append(prevHash, record)

\* The positions below n of the rows of one tenant.
RowsBefore(l, t, n) == {i \in DOMAIN l : i < n /\ l[i].record.tenant = t}

\* The last of them, 0 when there is none.
LastBefore(l, t, n) ==
  LET rows == RowsBefore(l, t, n)
  IN IF rows = {} THEN 0 ELSE CHOOSE i \in rows : \A j \in rows : j <= i

HashAt(l, i) == IF i = 0 THEN ZeroHash ELSE l[i].hash

\* _last_hash_for_tenant: scans every row and keeps the last of the tenant.
LastHash(l, t) == HashAt(l, LastBefore(l, t, Len(l) + 1))

\* A record without a tenant takes the active TenantScope's, else the sentinel.
ResolveTenant(tenantId, scope) ==
  IF tenantId # NoTenant THEN tenantId
  ELSE IF scope # NoTenant THEN scope ELSE Unscoped

-----------------------------------------------------------------------------
(* append().  The critical section is from the lock to its release; every  *)
(* way out of it, an exception included, releases what the thread holds.   *)

Holding == {"advisory", "read", "write", "return"}

ReleaseLocks(th) ==
  /\ lock' = [lock EXCEPT ![InstanceOf[th]] = NoThread]
  /\ advisory' = [t \in Tenants |->
                    IF advisory[t] = th THEN NoThread ELSE advisory[t]]

\* append(record) is called and stamps the record with its tenant.
Begin(th, d, tenantId, scope) ==
  /\ pc[th] = "idle"
  /\ pc' = [pc EXCEPT ![th] = "acquire"]
  /\ job' = [job EXCEPT ![th] = [tenant |-> ResolveTenant(tenantId, scope),
                                 decision |-> d]]
  /\ UNCHANGED <<log, torn, lock, advisory, prev, acked, edited, walk>>

\* Fault: append() without the threading.Lock.
AcquireNoLock(th) ==
  /\ pc[th] = "acquire"
  /\ lock' = [lock EXCEPT ![InstanceOf[th]] = th]
  /\ pc' = [pc EXCEPT ![th] =
              IF Backend = "postgres" THEN "advisory" ELSE "read"]
  /\ UNCHANGED <<log, torn, advisory, job, prev, acked, edited, walk>>

\* with self._append_lock / with self._lock.
AcquireLock(th) ==
  /\ pc[th] = "acquire"
  /\ lock[InstanceOf[th]] = NoThread
  /\ lock' = [lock EXCEPT ![InstanceOf[th]] = th]
  /\ pc' = [pc EXCEPT ![th] =
              IF Backend = "postgres" THEN "advisory" ELSE "read"]
  /\ UNCHANGED <<log, torn, advisory, job, prev, acked, edited, walk>>

\* Fault: the predecessor is read without the tenant's advisory lock.
NoAdvisoryLock(th) ==
  /\ pc[th] = "advisory"
  /\ pc' = [pc EXCEPT ![th] = "read"]
  /\ UNCHANGED <<log, torn, lock, advisory, job, prev, acked, edited, walk>>

\* SELECT pg_advisory_xact_lock(class, hashtext(tenant)).
AdvisoryLock(th) ==
  /\ pc[th] = "advisory"
  /\ advisory[job[th].tenant] = NoThread
  /\ advisory' = [advisory EXCEPT ![job[th].tenant] = th]
  /\ pc' = [pc EXCEPT ![th] = "read"]
  /\ UNCHANGED <<log, torn, lock, job, prev, acked, edited, walk>>

\* The scan for the predecessor; json.loads raises on a torn line.
ReadPrev(th) ==
  /\ pc[th] = "read"
  /\ ~torn
  /\ prev' = [prev EXCEPT ![th] = LastHash(log, job[th].tenant)]
  /\ pc' = [pc EXCEPT ![th] = "write"]
  /\ UNCHANGED <<log, torn, lock, advisory, job, acked, edited, walk>>

\* The thread leaves append(); its locals are gone.
Leave(th) ==
  /\ pc' = [pc EXCEPT ![th] = "idle"]
  /\ job' = [job EXCEPT ![th] = NoJob]
  /\ prev' = [prev EXCEPT ![th] = ZeroHash]

\* Fault: an exception leaves append() with its locks held.
FailHoldingLocks(th) ==
  /\ Leave(th)
  /\ UNCHANGED <<lock, advisory, acked, edited, walk>>

\* An exception leaves append() and both locks.
Fail(th) ==
  /\ Leave(th)
  /\ ReleaseLocks(th)
  /\ UNCHANGED <<acked, edited, walk>>

ReadPrevFails(th) ==
  /\ pc[th] = "read"
  /\ torn
  /\ Fail(th)
  /\ UNCHANGED <<log, torn>>

NewRow(th) == [record |-> job[th], hash |-> Chain(prev[th], job[th])]

\* SQLite alone has a unique index on decision_id.
DuplicateKey(th) ==
  /\ Backend = "sqlite"
  /\ \E i \in DOMAIN log : log[i].record.decision = job[th].decision

\* The line is written and flushed, or the insert committed; the commit also
\* ends the transaction that holds the advisory lock.
WriteRow(th) ==
  /\ pc[th] = "write"
  /\ ~DuplicateKey(th)
  /\ Len(log) < MaxRows
  /\ log' = Append(log, NewRow(th))
  /\ pc' = [pc EXCEPT ![th] = "return"]
  /\ advisory' = [t \in Tenants |->
                    IF advisory[t] = th THEN NoThread ELSE advisory[t]]
  /\ UNCHANGED <<torn, lock, job, prev, acked, edited, walk>>

\* The write fails: SQLite and Postgres roll back, a JSONL line may be cut.
WriteFails(th) ==
  /\ pc[th] = "write"
  /\ Fail(th)
  /\ torn' \in IF Backend = "jsonl" THEN {torn, TRUE} ELSE {torn}
  /\ UNCHANGED log

\* Postgres commits the row and the connection drops before the reply.
CommitReplyLost(th) ==
  /\ pc[th] = "write"
  /\ Backend = "postgres"
  /\ Len(log) < MaxRows
  /\ log' = Append(log, NewRow(th))
  /\ Fail(th)
  /\ UNCHANGED torn

\* The with block ends and append() returns the chain hash.
Return(th) ==
  /\ pc[th] = "return"
  /\ Leave(th)
  /\ ReleaseLocks(th)
  /\ acked' = acked \cup {<<job[th].tenant, Chain(prev[th], job[th])>>}
  /\ UNCHANGED <<log, torn, edited, walk>>

\* A process dies with all its threads; Postgres ends their transactions.  A
\* JSONL line on its way to the file may be cut.
Crash(i) ==
  /\ \E th \in Threads : InstanceOf[th] = i /\ pc[th] # "idle"
  /\ pc' = [th \in Threads |-> IF InstanceOf[th] = i THEN "idle" ELSE pc[th]]
  /\ job' = [th \in Threads |-> IF InstanceOf[th] = i THEN NoJob ELSE job[th]]
  /\ prev' = [th \in Threads |->
                IF InstanceOf[th] = i THEN ZeroHash ELSE prev[th]]
  /\ lock' = [lock EXCEPT ![i] = NoThread]
  /\ advisory' = [t \in Tenants |->
        IF \E th \in Threads : advisory[t] = th /\ InstanceOf[th] = i
        THEN NoThread ELSE advisory[t]]
  /\ torn' \in IF /\ Backend = "jsonl"
                  /\ \E th \in Threads : InstanceOf[th] = i /\ pc[th] = "write"
               THEN {torn, TRUE} ELSE {torn}
  /\ UNCHANGED <<log, acked, edited, walk>>

-----------------------------------------------------------------------------
(* verify() inside no TenantScope (scope NoTenant), or the equivalent walks *)
(* verify() inside a scope and verify_tenant(t).  Rows are read one by one  *)
(* while appends go on: a JSONL reader sees lines added behind it, the SQL  *)
(* stores read a snapshot (limit) first.                                    *)

Intact == -1
Unknown == -2     \* no walk has ended yet
Unreadable == -3  \* the walk raised JSONDecodeError

NewWalk(on, scope, limit, result) ==
  [on |-> on, scope |-> scope, at |-> 1, limit |-> limit, index |-> 0,
   prev |-> [t \in Tenants |-> ZeroHash], result |-> result]

IdleWalk == NewWalk(FALSE, NoTenant, 0, Unknown)

\* The verifier's states over at most n rows.
Walks(n) ==
  [on : BOOLEAN, scope : Tenants \cup {NoTenant}, at : Nat \ {0}, limit : 0..n,
   index : Nat, prev : [Tenants -> Hashes],
   result : Nat \cup {Intact, Unknown, Unreadable}]

Finished(result) == NewWalk(FALSE, walk.scope, 0, result)

WalkEnd == IF Backend = "jsonl" THEN Len(log) ELSE walk.limit

InScope(row, scope) == scope = NoTenant \/ row.record.tenant = scope

VerifyStart(scope) ==
  /\ ~walk.on
  /\ walk' = NewWalk(TRUE, scope, Len(log), Unknown)
  /\ UNCHANGED <<appendVars, edited>>

\* Fault: one running hash for all tenants.
VerifyRowOneChain ==
  /\ walk.on
  /\ walk.at <= WalkEnd
  /\ LET row == log[walk.at]
         t == row.record.tenant
     IN walk' =
          IF ~InScope(row, walk.scope) THEN [walk EXCEPT !.at = @ + 1]
          ELSE IF row.hash # Chain(walk.prev[t], row.record)
          THEN Finished(walk.index)
          ELSE [walk EXCEPT !.at = @ + 1, !.index = @ + 1,
                            !.prev = [u \in Tenants |-> row.hash]]
  /\ UNCHANGED <<appendVars, edited>>

\* One row yielded by __iter__: its hash against the one recomputed from the
\* stored hash of the tenant's previous row.
VerifyRow ==
  /\ walk.on
  /\ walk.at <= WalkEnd
  /\ LET row == log[walk.at]
         t == row.record.tenant
     IN walk' =
          IF ~InScope(row, walk.scope) THEN [walk EXCEPT !.at = @ + 1]
          ELSE IF row.hash # Chain(walk.prev[t], row.record)
          THEN Finished(walk.index)
          ELSE [walk EXCEPT !.at = @ + 1, !.index = @ + 1,
                            !.prev[t] = row.hash]
  /\ UNCHANGED <<appendVars, edited>>

VerifyEnd ==
  /\ walk.on
  /\ walk.at > WalkEnd
  /\ walk' = Finished(IF torn THEN Unreadable ELSE Intact)
  /\ UNCHANGED <<appendVars, edited>>

-----------------------------------------------------------------------------
(* Out-of-band changes of the stored rows, made while no verifier walks.   *)

EditRow(i, r) ==
  /\ Cardinality(edited) < MaxEdits
  /\ ~walk.on
  /\ i \in DOMAIN log \ edited
  /\ r # log[i].record
  /\ r.tenant = log[i].record.tenant
  /\ log' = [log EXCEPT ![i].record = r]
  /\ edited' = edited \cup {i}
  /\ walk' = IdleWalk
  /\ UNCHANGED <<torn, lock, advisory, pc, job, prev, acked>>

-----------------------------------------------------------------------------

Init ==
  /\ log = <<>>
  /\ torn = FALSE
  /\ lock = [i \in Instances |-> NoThread]
  /\ advisory = [t \in Tenants |-> NoThread]
  /\ pc = [th \in Threads |-> "idle"]
  /\ job = [th \in Threads |-> NoJob]
  /\ prev = [th \in Threads |-> ZeroHash]
  /\ acked = {}
  /\ edited = {}
  /\ walk = IdleWalk

AppendStep(th) ==
  \/ AcquireLock(th)
  \/ AdvisoryLock(th)
  \/ ReadPrev(th)
  \/ ReadPrevFails(th)
  \/ WriteRow(th)
  \/ WriteFails(th)
  \/ CommitReplyLost(th)
  \/ Return(th)

Next ==
  \/ \E th \in Threads, d \in Decisions,
        tenantId \in Tenants \cup {NoTenant}, scope \in Tenants \cup {NoTenant} :
        Begin(th, d, tenantId, scope)
  \/ \E th \in Threads : AppendStep(th)
  \/ \E i \in Instances : Crash(i)
  \/ \E scope \in Tenants \cup {NoTenant} : VerifyStart(scope)
  \/ VerifyRow
  \/ VerifyEnd
  \/ \E i \in DOMAIN log, r \in Records : EditRow(i, r)

Spec == Init /\ [][Next]_vars

\* Every thread inside the critical section keeps running; Postgres queues the
\* requests for an advisory lock, so no waiter is passed over for ever.
Fairness ==
  \A th \in Threads :
    /\ SF_vars(AdvisoryLock(th))
    /\ WF_vars(ReadPrev(th) \/ ReadPrevFails(th))
    /\ WF_vars(WriteRow(th) \/ WriteFails(th))
    /\ WF_vars(Return(th))

FairSpec == Spec /\ Fairness

-----------------------------------------------------------------------------
(* Properties.                                                             *)

TypeOK ==
  /\ log \in Seq(Rows)
  /\ torn \in BOOLEAN
  /\ lock \in [Instances -> Threads \cup {NoThread}]
  /\ advisory \in [Tenants -> Threads \cup {NoThread}]
  /\ pc \in [Threads -> {"idle", "acquire"} \cup Holding]
  /\ job \in [Threads -> Records]
  /\ prev \in [Threads -> Hashes]
  /\ acked \subseteq Tenants \X Hashes
  /\ edited \subseteq DOMAIN log
  /\ walk \in Walks(Len(log))

\* Row i of l continues its tenant's chain: its hash is the one made from its
\* record and the hash of the tenant's previous row.
Linked(l, i) ==
  l[i].hash = Chain(HashAt(l, LastBefore(l, l[i].record.tenant, i)),
                    l[i].record)

\* "Without this lock concurrent threads can both read the same
\* _last_hash_for_tenant() and emit two rows whose prev hash is identical":
\* every row continues the chain of its tenant, whatever the threads, crashes
\* and failed writes; edited rows, and only those, do not.
ChainLinear == \A i \in DOMAIN log : Linked(log, i) <=> i \notin edited

\* Appends to one tenant are serialised: one process, or the advisory lock.
Serialised ==
  Backend = "postgres" \/ \A a, b \in Threads : InstanceOf[a] = InstanceOf[b]

\* What ChainLinear rests on.  A thread in the critical section holds the locks
\* it took, the hash a writer read is still the last of its tenant, and the
\* hash about to be returned is one the tenant's chain went through.
LocksHeld ==
  \A th \in Threads :
    /\ pc[th] \in Holding => lock[InstanceOf[th]] = th
    /\ Backend = "postgres" /\ pc[th] \in {"read", "write"} =>
         advisory[job[th].tenant] = th

PrevFresh ==
  \A th \in Threads :
    pc[th] = "write" => prev[th] = LastHash(log, job[th].tenant)

ReturnsPrefix ==
  \A th \in Threads :
    pc[th] = "return" =>
      LET h == Chain(prev[th], job[th])
          chain == LastHash(log, job[th].tenant)
      IN Len(h) <= Len(chain) /\ h = SubSeq(chain, 1, Len(h))

ChainInv == LocksHeld /\ PrevFresh /\ ReturnsPrefix /\ ChainLinear

\* verify() and verify_tenant() tell the truth while appends go on: the index
\* of the first edited row in scope, and never a false alarm.
VerifyExact ==
  ~walk.on /\ walk.result # Unknown =>
    LET scoped == {i \in DOMAIN log : InScope(log[i], walk.scope)}
        hit == scoped \cap edited
        first == CHOOSE i \in hit : \A j \in hit : i <= j
    IN IF hit = {} THEN walk.result \in {Intact, Unreadable}
       ELSE walk.result = Cardinality({i \in scoped : i < first})

\* The reference walk: the position of the first row of l that does not
\* continue its tenant's chain, 0 when there is none.
FirstBroken(l) ==
  LET broken == {i \in DOMAIN l : ~Linked(l, i)}
  IN IF broken = {} THEN 0 ELSE CHOOSE i \in broken : \A j \in broken : i <= j

\* A row lost from the middle of a tenant's chain is noticed at the tenant's
\* next row; losing the last row of a tenant is the one loss the chain hides.
LossNoticed ==
  edited = {} =>
    \A i \in DOMAIN log :
      LET without == [j \in 1..(Len(log) - 1) |-> log[IF j < i THEN j ELSE j + 1]]
          later == {j \in DOMAIN log :
                     j > i /\ log[j].record.tenant = log[i].record.tenant}
      IN IF later = {} THEN FirstBroken(without) = 0
         ELSE FirstBroken(without) =
                (CHOOSE j \in later : \A k \in later : j <= k) - 1

\* A record comes back from every append that returned, as the hash returned
\* is the one stored: the acknowledged chains are initial parts of one chain.
Ledger == INSTANCE EvidenceLedger
            WITH ledger <- [t \in Tenants |-> LastHash(log, t)]

\* The store implements the ledger of its callers: rows only join the end of
\* their tenant's chain, and append() returns only hashes of that chain.
ImplementsLedger == Ledger!LedgerSpec

\* Whoever holds a store's lock lets it go, by returning or by raising.
LockReleased ==
  \A i \in Instances : lock[i] # NoThread ~> lock[i] = NoThread
=============================================================================
