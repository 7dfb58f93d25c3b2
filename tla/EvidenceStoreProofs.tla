------------------------ MODULE EvidenceStoreProofs -------------------------
(* Proofs about EvidenceStore, for any number of threads, processes,       *)
(* tenants, rows and edits.                                                *)
EXTENDS EvidenceStore, TLAPS, SequenceTheorems, FiniteSetTheorems,
        WellFoundedInduction

-----------------------------------------------------------------------------
(* The chain's helpers.                                                    *)

\* A non-empty set of positions up to n has a greatest element.
LEMMA Greatest ==
  ASSUME NEW n \in Nat, NEW S \in SUBSET (1..n), S # {}
  PROVE  \E i \in S : \A j \in S : j <= i
<1> DEFINE T == {n - i : i \in S}
<1>0. \A i \in S : i \in Nat /\ n - i \in Nat
  OBVIOUS
<1>1. T \subseteq Nat /\ T # {}
  BY <1>0, Zenon
<1>2. PICK x \in T : \A y \in T : ~ (<<y, x>> \in OpToRel(<, Nat))
  <2> HIDE DEF T
  <2> QED BY <1>1, WFMin, NatLessThanWellFounded
<1>3. \A y \in T : x <= y
  <2> TAKE y \in T
  <2>1. x \in Nat /\ y \in Nat
    BY <1>1
  <2>2. ~ (y < x)
    <3> HIDE DEF T
    <3> QED BY <2>1, <1>2 DEF OpToRel
  <2> QED BY <2>1, <2>2
<1>4. PICK i \in S : x = n - i
  OBVIOUS
<1>5. \A j \in S : n - i <= n - j
  BY <1>3, <1>4
<1> QED BY <1>0, <1>4, <1>5

\* LastBefore is a position below n, and a row of the tenant unless it is 0.
LEMMA LastBeforeType ==
  ASSUME NEW l \in Seq(Rows), NEW t, NEW n \in 1..(Len(l) + 1)
  PROVE  /\ LastBefore(l, t, n) \in 0..Len(l)
         /\ LastBefore(l, t, n) < n
<1> DEFINE S == RowsBefore(l, t, n)
<1>1. Len(l) \in Nat /\ S \subseteq 1..Len(l) /\ \A i \in S : i < n
  BY LenProperties DEF RowsBefore
<1>2. CASE S = {}
  BY <1>1, <1>2 DEF LastBefore
<1>3. CASE S # {}
  <2>1. \E i \in S : \A j \in S : j <= i
    <3> HIDE DEF S
    <3> QED BY <1>1, <1>3, Greatest
  <2>2. LastBefore(l, t, n) \in S
    BY <2>1, <1>3 DEF LastBefore
  <2> QED BY <2>2, <1>1
<1> QED BY <1>2, <1>3

\* LastBefore depends on the tenant's positions alone.
LEMMA LastBeforeSame ==
  ASSUME NEW l, NEW m, NEW t, NEW a, NEW b,
         RowsBefore(l, t, a) = RowsBefore(m, t, b)
  PROVE  LastBefore(l, t, a) = LastBefore(m, t, b)
BY DEF LastBefore

\* A row added at the end changes nothing of what lies before a position of
\* the old rows.
LEMMA LastBeforeAppend ==
  ASSUME NEW l \in Seq(Rows), NEW r \in Rows, NEW t,
         NEW n \in 1..(Len(l) + 1)
  PROVE  /\ LastBefore(Append(l, r), t, n) = LastBefore(l, t, n)
         /\ HashAt(Append(l, r), LastBefore(l, t, n))
              = HashAt(l, LastBefore(l, t, n))
<1> DEFINE m == Append(l, r)
<1>1. /\ Len(l) \in Nat /\ DOMAIN l = 1..Len(l)
      /\ DOMAIN m = 1..(Len(l) + 1)
      /\ \A i \in 1..Len(l) : m[i] = l[i]
  BY LenProperties, AppendProperties
<1>2. RowsBefore(m, t, n) = RowsBefore(l, t, n)
  BY <1>1 DEF RowsBefore
<1>3. LastBefore(l, t, n) \in 0..Len(l)
  BY LastBeforeType
<1> QED BY <1>1, <1>2, <1>3 DEF LastBefore, HashAt

\* After a row is added, the last hash of its tenant is its own and every
\* other tenant's is what it was.
LEMMA LastHashAppend ==
  ASSUME NEW l \in Seq(Rows), NEW r \in Rows, NEW t
  PROVE  LastHash(Append(l, r), t) =
           IF r.record.tenant = t THEN r.hash ELSE LastHash(l, t)
<1> DEFINE m == Append(l, r)
<1> DEFINE n == Len(l) + 1
<1>1. /\ Len(l) \in Nat /\ DOMAIN l = 1..Len(l)
      /\ Len(m) = n /\ DOMAIN m = 1..n /\ m[n] = r
      /\ \A i \in 1..Len(l) : m[i] = l[i]
  BY LenProperties, AppendProperties
<1>2. CASE r.record.tenant = t
  <2>1. n \in RowsBefore(m, t, n + 1) /\ \A j \in RowsBefore(m, t, n + 1) : j <= n
    BY <1>1, <1>2 DEF RowsBefore
  <2>2. \A i \in RowsBefore(m, t, n + 1) :
           (\A j \in RowsBefore(m, t, n + 1) : j <= i) => i = n
    BY <1>1, <2>1 DEF RowsBefore
  <2>3. LastBefore(m, t, n + 1) = n
    BY <2>1, <2>2 DEF LastBefore
  <2> QED BY <1>1, <1>2, <2>3 DEF LastHash, HashAt
<1>3. CASE r.record.tenant # t
  <2>1. RowsBefore(m, t, n + 1) = RowsBefore(l, t, n)
    BY <1>1, <1>3 DEF RowsBefore
  <2>2. LastBefore(m, t, n + 1) = LastBefore(l, t, n)
    BY <2>1, LastBeforeSame
  <2>3. HashAt(m, LastBefore(l, t, n)) = HashAt(l, LastBefore(l, t, n))
    BY <1>1, LastBeforeAppend
  <2> QED BY <1>1, <1>3, <2>2, <2>3 DEF LastHash
<1> QED BY <1>2, <1>3

\* A chain hash is a hash.
LEMMA ChainType ==
  ASSUME NEW h \in Hashes, NEW r \in Records
  PROVE  Chain(h, r) \in Hashes
BY AppendProperties DEF Chain, Hashes

\* The hash _last_hash_for_tenant returns is a chain hash.
LEMMA LastHashType ==
  ASSUME NEW l \in Seq(Rows), NEW t
  PROVE  LastHash(l, t) \in Hashes
<1>1. Len(l) \in Nat /\ DOMAIN l = 1..Len(l) /\ \A i \in 1..Len(l) : l[i] \in Rows
  BY LenProperties, ElementOfSeq
<1>2. LastBefore(l, t, Len(l) + 1) \in 0..Len(l)
  BY <1>1, LastBeforeType
<1>3. ZeroHash \in Hashes
  BY EmptySeq DEF ZeroHash, Hashes
<1> QED BY <1>1, <1>2, <1>3 DEF LastHash, HashAt, Rows

-----------------------------------------------------------------------------
(* Type correctness.                                                       *)

\* Every variable keeps its type through appends, failures, crashes, walks and
\* edits; a verifier never reads past the rows that exist.
THEOREM TypeCorrect == Spec => []TypeOK
<1> USE BackendAssumption, InstanceAssumption, TenantAssumption,
        DecisionAssumption, BoundAssumption
<1>1. ZeroHash \in Hashes /\ NoJob \in Records
  BY EmptySeq DEF ZeroHash, Hashes, NoJob, Records
<1>2. ASSUME NEW n \in Nat PROVE IdleWalk \in Walks(n)
  BY <1>1 DEF IdleWalk, NewWalk, Walks
<1>3. Init => TypeOK
  <2> SUFFICES ASSUME Init PROVE TypeOK
    OBVIOUS
  <2>1. log \in Seq(Rows) /\ Len(log) = 0
    BY EmptySeq DEF Init
  <2>2. walk \in Walks(Len(log))
    BY <1>2, <2>1 DEF Init
  <2> QED BY <1>1, <2>1, <2>2 DEF Init, TypeOK
<1>4. TypeOK /\ [Next]_vars => TypeOK'
  <2> SUFFICES ASSUME TypeOK, [Next]_vars PROVE TypeOK'
    OBVIOUS
  <2> USE DEF TypeOK
  <2>0. Len(log) \in Nat /\ DOMAIN log = 1..Len(log)
        /\ \A i \in 1..Len(log) : log[i] \in Rows
    BY LenProperties, ElementOfSeq
  <2>1. ASSUME NEW th \in Threads, NEW d \in Decisions,
               NEW tenantId \in Tenants \cup {NoTenant},
               NEW scope \in Tenants \cup {NoTenant},
               Begin(th, d, tenantId, scope)
        PROVE  TypeOK'
    <3>1. ResolveTenant(tenantId, scope) \in Tenants
      BY DEF ResolveTenant
    <3>2. job' \in [Threads -> Records]
      BY <2>1, <3>1 DEF Begin, Records
    <3> QED BY <2>1, <3>2 DEF Begin
  <2>2. ASSUME NEW th \in Threads, AcquireLock(th) PROVE TypeOK'
    BY <2>2 DEF AcquireLock, Holding
  <2>3. ASSUME NEW th \in Threads, AdvisoryLock(th) PROVE TypeOK'
    BY <2>3 DEF AdvisoryLock, Holding, Records
  <2>4. ASSUME NEW th \in Threads, ReadPrev(th) PROVE TypeOK'
    <3>1. LastHash(log, job[th].tenant) \in Hashes
      BY LastHashType
    <3> QED BY <2>4, <3>1 DEF ReadPrev, Holding
  <2>5. ASSUME NEW th \in Threads, Fail(th), log' = log, torn' \in BOOLEAN
        PROVE  TypeOK'
    BY <1>1, <2>5 DEF Fail, Leave, ReleaseLocks
  <2>6. ASSUME NEW th \in Threads, NEW r \in Rows, log' = Append(log, r),
               walk' = walk, edited' = edited
        PROVE  /\ log' \in Seq(Rows) /\ edited' \subseteq DOMAIN log'
               /\ walk' \in Walks(Len(log'))
    <3>1. log' \in Seq(Rows) /\ Len(log') = Len(log) + 1
          /\ DOMAIN log' = 1..(Len(log) + 1)
      BY <2>6, AppendProperties, LenProperties
    <3>2. 0..Len(log) \subseteq 0..Len(log') /\ DOMAIN log \subseteq DOMAIN log'
      BY <2>0, <3>1
    <3>3. Walks(Len(log)) \subseteq Walks(Len(log'))
      BY <3>2 DEF Walks
    <3> QED BY <2>6, <3>1, <3>2, <3>3
  <2>7. ASSUME NEW th \in Threads PROVE NewRow(th) \in Rows
    <3>1. Chain(prev[th], job[th]) \in Hashes
      BY ChainType
    <3> QED BY <3>1 DEF NewRow, Rows
  <2>8. ASSUME NEW th \in Threads, WriteRow(th) PROVE TypeOK'
    <3>1. /\ pc' \in [Threads -> {"idle", "acquire"} \cup Holding]
          /\ advisory' \in [Tenants -> Threads \cup {NoThread}]
      BY <2>8 DEF WriteRow, Holding
    <3> QED BY <2>8, <2>7, <2>6, <3>1 DEF WriteRow
  <2>9. ASSUME NEW th \in Threads, CommitReplyLost(th) PROVE TypeOK'
    <3>1. Fail(th) /\ UNCHANGED torn
      BY <2>9 DEF CommitReplyLost
    <3>2. /\ pc' \in [Threads -> {"idle", "acquire"} \cup Holding]
          /\ job' \in [Threads -> Records] /\ prev' \in [Threads -> Hashes]
          /\ lock' \in [Instances -> Threads \cup {NoThread}]
          /\ advisory' \in [Tenants -> Threads \cup {NoThread}]
          /\ UNCHANGED <<acked, edited, walk>>
      BY <1>1, <3>1 DEF Fail, Leave, ReleaseLocks
    <3> QED BY <2>9, <2>7, <2>6, <3>2 DEF CommitReplyLost
  <2>10. ASSUME NEW th \in Threads, Return(th) PROVE TypeOK'
    <3>1. <<job[th].tenant, Chain(prev[th], job[th])>> \in Tenants \X Hashes
      BY ChainType DEF Records
    <3> QED BY <1>1, <2>10, <3>1 DEF Return, Leave, ReleaseLocks
  <2>11. ASSUME NEW i \in Instances, Crash(i) PROVE TypeOK'
    <3>1. /\ pc' \in [Threads -> {"idle", "acquire"} \cup Holding]
          /\ job' \in [Threads -> Records] /\ prev' \in [Threads -> Hashes]
          /\ UNCHANGED <<log, acked, edited, walk>>
      BY <1>1, <2>11 DEF Crash
    <3>2. /\ lock' \in [Instances -> Threads \cup {NoThread}]
          /\ advisory' \in [Tenants -> Threads \cup {NoThread}]
          /\ torn' \in BOOLEAN
      BY <2>11 DEF Crash
    <3> QED BY <3>1, <3>2
  <2>12. ASSUME UNCHANGED <<appendVars, edited>>,
                walk' \in Walks(Len(log))
         PROVE  TypeOK'
    BY <2>12 DEF appendVars
  <2>13. ASSUME NEW scope \in Tenants \cup {NoTenant}, VerifyStart(scope)
         PROVE  TypeOK'
    <3>1. walk' \in Walks(Len(log))
      BY <1>1, <2>0, <2>13 DEF VerifyStart, Walks, NewWalk
    <3> QED BY <2>12, <2>13, <3>1 DEF VerifyStart
  <2>14. ASSUME NEW res \in Nat \cup {Intact, Unknown, Unreadable}
         PROVE  Finished(res) \in Walks(Len(log))
    <3>1. walk.scope \in Tenants \cup {NoTenant}
      BY DEF Walks
    <3> QED BY <1>1, <2>0, <3>1 DEF Finished, Walks, NewWalk
  <2>15. ASSUME VerifyRow PROVE TypeOK'
    <3> DEFINE row == log[walk.at]
    <3> DEFINE t == row.record.tenant
    <3>1. walk.at \in 1..Len(log)
      BY <2>0, <2>15 DEF VerifyRow, WalkEnd, Walks
    <3>2. row \in Rows /\ t \in Tenants /\ row.hash \in Hashes
      BY <3>1, <2>0 DEF Rows, Records
    <3>3. Finished(walk.index) \in Walks(Len(log))
      BY <2>14 DEF Walks
    <3>4. walk' \in Walks(Len(log))
      <4>1. ASSUME NEW v \in Walks(Len(log)), NEW n \in Nat \ {0}
            PROVE  [v EXCEPT !.at = n] \in Walks(Len(log))
        BY <4>1 DEF Walks
      <4>2. ASSUME NEW v \in Walks(Len(log)), NEW n \in Nat
            PROVE  [v EXCEPT !.index = n] \in Walks(Len(log))
        BY <4>2 DEF Walks
      <4>3. ASSUME NEW v \in Walks(Len(log))
            PROVE  [v EXCEPT !.prev[t] = row.hash] \in Walks(Len(log))
        BY <3>2, <4>3 DEF Walks
      <4>4. /\ walk \in Walks(Len(log))
            /\ walk.at + 1 \in Nat \ {0} /\ walk.index + 1 \in Nat
        BY <3>1, <2>0 DEF Walks
      <4>5. CASE ~InScope(row, walk.scope)
        BY <2>15, <4>1, <4>4, <4>5 DEF VerifyRow
      <4>6. CASE InScope(row, walk.scope) /\ row.hash # Chain(walk.prev[t], row.record)
        BY <2>15, <3>3, <4>6 DEF VerifyRow
      <4>7. CASE InScope(row, walk.scope) /\ row.hash = Chain(walk.prev[t], row.record)
        <5>1. [walk EXCEPT !.at = walk.at + 1] \in Walks(Len(log))
          BY <4>1, <4>4
        <5>2. [walk EXCEPT !.at = walk.at + 1, !.index = walk.index + 1]
                \in Walks(Len(log))
          BY <4>2, <4>4, <5>1
        <5>3. [walk EXCEPT !.at = walk.at + 1, !.index = walk.index + 1,
                           !.prev[t] = row.hash] \in Walks(Len(log))
          BY <4>3, <5>2
        <5> QED BY <2>15, <4>7, <5>3 DEF VerifyRow
      <4> QED BY <4>5, <4>6, <4>7
    <3> QED BY <2>12, <2>15, <3>4 DEF VerifyRow
  <2>16. ASSUME VerifyEnd PROVE TypeOK'
    BY <2>12, <2>14, <2>16 DEF VerifyEnd
  <2>17. ASSUME NEW i \in DOMAIN log, NEW r \in Records, EditRow(i, r)
         PROVE  TypeOK'
    <3>1. [log[i] EXCEPT !.record = r] \in Rows
      BY <2>0 DEF Rows
    <3>2. /\ log' = [log EXCEPT ![i] = [log[i] EXCEPT !.record = r]]
          /\ log' \in Seq(Rows) /\ Len(log') = Len(log)
          /\ DOMAIN log' = DOMAIN log
      BY <2>0, <2>17, <3>1, ExceptSeq, LenProperties DEF EditRow
    <3>3. walk' \in Walks(Len(log'))
      BY <1>2, <2>0, <2>17, <3>2 DEF EditRow
    <3> QED BY <2>17, <3>2, <3>3 DEF EditRow
  <2>18. CASE UNCHANGED vars
    BY <2>18 DEF vars
  <2>19. ASSUME NEW th \in Threads, ReadPrevFails(th) PROVE TypeOK'
    BY <2>5, <2>19 DEF ReadPrevFails
  <2>20. ASSUME NEW th \in Threads, WriteFails(th) PROVE TypeOK'
    <3>1. torn' \in BOOLEAN
      BY <2>20 DEF WriteFails
    <3> QED BY <2>5, <2>20, <3>1 DEF WriteFails
  <2> HIDE DEF TypeOK
  <2> QED
    BY <2>1, <2>2, <2>3, <2>4, <2>8, <2>9, <2>10, <2>11, <2>13, <2>15, <2>16,
       <2>17, <2>18, <2>19, <2>20 DEF Next, AppendStep
<1> QED BY <1>3, <1>4, PTL DEF Spec

-----------------------------------------------------------------------------
(* The chain.                                                              *)

\* The hash tells the last record apart: the abstraction of SHA-256's
\* collision resistance.
LEMMA ChainInjective ==
  ASSUME NEW h \in Hashes, NEW r \in Records, NEW s \in Records, r # s
  PROVE  Chain(h, r) # Chain(h, s)
BY AppendProperties, LenProperties DEF Chain, Hashes

\* The links of the old rows survive an append, and the new row is linked
\* exactly if it was made from its tenant's last hash.
LEMMA LinkedAppend ==
  ASSUME NEW l \in Seq(Rows), NEW r \in Rows
  PROVE  /\ DOMAIN Append(l, r) = DOMAIN l \cup {Len(l) + 1}
         /\ \A i \in DOMAIN l : Linked(Append(l, r), i) <=> Linked(l, i)
         /\ Linked(Append(l, r), Len(l) + 1)
              <=> r.hash = Chain(LastHash(l, r.record.tenant), r.record)
<1> DEFINE m == Append(l, r)
<1>1. /\ Len(l) \in Nat /\ DOMAIN l = 1..Len(l)
      /\ DOMAIN m = 1..(Len(l) + 1) /\ m[Len(l) + 1] = r
      /\ \A i \in 1..Len(l) : m[i] = l[i]
  BY LenProperties, AppendProperties
<1>2. ASSUME NEW i \in 1..(Len(l) + 1), NEW t
      PROVE  HashAt(m, LastBefore(m, t, i)) = HashAt(l, LastBefore(l, t, i))
  BY <1>1, LastBeforeAppend
<1>3. \A i \in DOMAIN l : Linked(m, i) <=> Linked(l, i)
  <2> TAKE i \in DOMAIN l
  <2>1. m[i] = l[i] /\ i \in 1..(Len(l) + 1)
    BY <1>1
  <2>2. HashAt(m, LastBefore(m, l[i].record.tenant, i))
          = HashAt(l, LastBefore(l, l[i].record.tenant, i))
    BY <1>2, <2>1
  <2> HIDE DEF m
  <2> QED BY <2>1, <2>2 DEF Linked
<1>4. Linked(m, Len(l) + 1)
        <=> r.hash = Chain(LastHash(l, r.record.tenant), r.record)
  <2>1. HashAt(m, LastBefore(m, r.record.tenant, Len(l) + 1))
          = LastHash(l, r.record.tenant)
    BY <1>1, <1>2 DEF LastHash
  <2> HIDE DEF m
  <2> QED BY <1>1, <2>1 DEF Linked
<1>5. DOMAIN m = DOMAIN l \cup {Len(l) + 1}
  BY <1>1
<1> QED BY <1>3, <1>4, <1>5

\* Editing the record of a row, tenant and hash kept, unlinks that row if it
\* was linked and leaves every other link and every last hash alone.
LEMMA LinkedEdit ==
  ASSUME NEW l \in Seq(Rows), NEW k \in DOMAIN l, NEW r \in Records,
         r # l[k].record, r.tenant = l[k].record.tenant,
         NEW m, Len(m) = Len(l), DOMAIN m = DOMAIN l,
         \A i \in DOMAIN l : i # k => m[i] = l[i],
         m[k].record = r, m[k].hash = l[k].hash
  PROVE  /\ \A i \in DOMAIN l \ {k} : Linked(m, i) <=> Linked(l, i)
         /\ Linked(l, k) => ~Linked(m, k)
         /\ \A t : LastHash(m, t) = LastHash(l, t)
<1>1. /\ Len(l) \in Nat /\ DOMAIN l = 1..Len(l)
      /\ \A i \in 1..Len(l) : l[i] \in Rows
  BY LenProperties, ElementOfSeq
<1>2. l[k] \in Rows
  BY <1>1
<1>4. /\ Len(m) = Len(l) /\ DOMAIN m = DOMAIN l
      /\ \A i \in DOMAIN l : i # k => m[i] = l[i]
      /\ m[k].record = r /\ m[k].hash = l[k].hash
  OBVIOUS
<1>5. \A i \in DOMAIN l : m[i].record.tenant = l[i].record.tenant
                          /\ m[i].hash = l[i].hash
  BY <1>4
<1>6. ASSUME NEW t, NEW n
      PROVE  LastBefore(m, t, n) = LastBefore(l, t, n)
  <2>1. RowsBefore(m, t, n) = RowsBefore(l, t, n)
    BY <1>4, <1>5 DEF RowsBefore
  <2> QED BY <2>1, LastBeforeSame
<1>7. ASSUME NEW t, NEW n \in 1..(Len(l) + 1)
      PROVE  HashAt(m, LastBefore(m, t, n)) = HashAt(l, LastBefore(l, t, n))
             /\ HashAt(l, LastBefore(l, t, n)) \in Hashes
  <2>1. LastBefore(l, t, n) \in 0..Len(l)
    BY LastBeforeType
  <2>2. ZeroHash \in Hashes
    BY EmptySeq DEF ZeroHash, Hashes
  <2>3. HashAt(l, LastBefore(l, t, n)) \in Hashes
    BY <1>1, <2>1, <2>2 DEF HashAt, Rows
  <2>4. LastBefore(m, t, n) = LastBefore(l, t, n)
    BY <1>6
  <2>5. \A i \in 0..Len(l) : HashAt(m, i) = HashAt(l, i)
    BY <1>1, <1>5 DEF HashAt
  <2> QED BY <2>1, <2>3, <2>4, <2>5
<1>8. \A i \in DOMAIN l \ {k} : Linked(m, i) <=> Linked(l, i)
  <2> TAKE i \in DOMAIN l \ {k}
  <2>1. i \in 1..(Len(l) + 1) /\ m[i] = l[i]
    BY <1>1, <1>4
  <2> QED BY <1>7, <2>1 DEF Linked
<1>9. Linked(l, k) => ~Linked(m, k)
  <2> DEFINE h == HashAt(l, LastBefore(l, r.tenant, k))
  <2>1. k \in 1..(Len(l) + 1)
    BY <1>1
  <2>2. h \in Hashes /\ HashAt(m, LastBefore(m, r.tenant, k)) = h
    BY <1>7, <2>1
  <2>3. l[k].record \in Records
    BY <1>2 DEF Rows
  <2>4. Chain(h, r) # Chain(h, l[k].record)
    <3> HIDE DEF h
    <3> QED BY <2>2, <2>3, ChainInjective
  <2> QED BY <1>4, <2>2, <2>4 DEF Linked
<1>10. \A t : LastHash(m, t) = LastHash(l, t)
  <2> TAKE t
  <2>1. Len(l) + 1 \in 1..(Len(l) + 1)
    BY <1>1
  <2>2. HashAt(m, LastBefore(m, t, Len(l) + 1))
          = HashAt(l, LastBefore(l, t, Len(l) + 1))
    BY <1>7, <2>1
  <2> QED BY <1>4, <2>2 DEF LastHash
<1> QED BY <1>8, <1>9, <1>10

\* What EditRow does to the rows.
LEMMA EditRowFacts ==
  ASSUME TypeOK, NEW i \in DOMAIN log, NEW r \in Records, EditRow(i, r)
  PROVE  /\ Len(log') = Len(log) /\ DOMAIN log' = DOMAIN log
         /\ \A j \in DOMAIN log : j # i => log'[j] = log[j]
         /\ log'[i].record = r /\ log'[i].hash = log[i].hash
<1>1. /\ log \in Seq(Rows) /\ Len(log) \in Nat /\ DOMAIN log = 1..Len(log)
      /\ log[i] \in Rows
  BY LenProperties, ElementOfSeq DEF TypeOK
<1> DEFINE e == [log[i] EXCEPT !.record = r]
<1>2. e \in Rows /\ e.record = r /\ e.hash = log[i].hash
  BY <1>1 DEF Rows
<1>3. log' = [log EXCEPT ![i] = e]
  BY DEF EditRow
<1> HIDE DEF e
<1>4. /\ log' \in Seq(Rows) /\ Len(log') = Len(log)
      /\ \A j \in 1..Len(log) : log'[j] = IF j = i THEN e ELSE log[j]
  BY <1>1, <1>2, <1>3, ExceptSeq
<1>5. DOMAIN log' = 1..Len(log)
  BY <1>4, LenProperties
<1> QED BY <1>1, <1>2, <1>4, <1>5

-----------------------------------------------------------------------------
(* The locks keep the chain linear.                                        *)

\* A prefix of a chain is a prefix of every extension of it.
LEMMA PrefixExtends ==
  ASSUME NEW h \in Hashes, NEW c \in Hashes, NEW r \in Records,
         Len(h) <= Len(c), h = SubSeq(c, 1, Len(h))
  PROVE  Len(h) <= Len(Append(c, r)) /\ h = SubSeq(Append(c, r), 1, Len(h))
<1> DEFINE d == Append(c, r)
<1>1. /\ Len(h) \in Nat /\ Len(c) \in Nat /\ Len(d) = Len(c) + 1
      /\ \A i \in 1..Len(c) : d[i] = c[i]
      /\ \A i \in 1..Len(d) : d[i] \in Records
  BY LenProperties, AppendProperties, ElementOfSeq DEF Hashes
<1>2. /\ SubSeq(d, 1, Len(h)) \in Seq(Records) /\ Len(SubSeq(d, 1, Len(h))) = Len(h)
      /\ \A i \in 1..Len(h) : SubSeq(d, 1, Len(h))[i] = d[i]
  <2>1. \A i \in 1..Len(h) : d[i] \in Records
    BY <1>1
  <2> HIDE DEF d
  <2> QED BY <1>1, <2>1, SubSeqProperties
<1>3. \A i \in 1..Len(h) : h[i] = c[i]
  <2>1. \A i \in 1..Len(h) : c[i] \in Records
    BY <1>1, ElementOfSeq DEF Hashes
  <2> QED BY <1>1, <2>1, SubSeqProperties
<1>4. h = SubSeq(d, 1, Len(h))
  BY <1>1, <1>2, <1>3, SeqEqual DEF Hashes
<1> QED BY <1>1, <1>4

\* A chain hash is a prefix of itself.
LEMMA PrefixOfItself ==
  ASSUME NEW h \in Hashes
  PROVE  Len(h) <= Len(h) /\ h = SubSeq(h, 1, Len(h))
BY LenProperties, SubSeqFull DEF Hashes

\* The inductive invariant holds of an empty store.
LEMMA ChainInvInit == Init => ChainInv
<1> SUFFICES ASSUME Init PROVE ChainInv
  OBVIOUS
<1>1. DOMAIN log = {}
  BY EmptySeq DEF Init
<1> QED
  BY <1>1 DEF Init, ChainInv, LocksHeld, PrevFresh, ReturnsPrefix, ChainLinear,
     Holding

\* A step that neither writes a row nor lets a thread in keeps the invariant:
\* every thread still in the critical section is where it was, with what it
\* held.
LEMMA ChainInvFrame ==
  ASSUME ChainInv, UNCHANGED <<log, edited>>,
         \A th \in Threads :
           \/ pc'[th] \in {"idle", "acquire"}
           \/ /\ pc'[th] = pc[th] /\ job'[th] = job[th] /\ prev'[th] = prev[th]
              /\ lock[InstanceOf[th]] = th => lock'[InstanceOf[th]] = th
              /\ advisory[job[th].tenant] = th =>
                   advisory'[job[th].tenant] = th
  PROVE  ChainInv'
<1>1. ChainLinear'
  BY DEF ChainInv, ChainLinear
<1>2. LocksHeld' /\ PrevFresh' /\ ReturnsPrefix'
  BY DEF ChainInv, LocksHeld, PrevFresh, ReturnsPrefix, Holding
<1> QED BY <1>1, <1>2 DEF ChainInv

\* A row made from its tenant's last hash keeps the chain linear, and no other
\* thread is about to write to that tenant.
LEMMA ChainInvRow ==
  ASSUME TypeOK, ChainInv, Serialised, NEW th \in Threads, pc[th] = "write",
         log' = Append(log, NewRow(th)), UNCHANGED edited
  PROVE  /\ ChainLinear'
         /\ \A b \in Threads \ {th} :
              pc[b] = "write" => prev[b] = LastHash(log', job[b].tenant)
         /\ \A b \in Threads \ {th} :
              pc[b] = "return" =>
                LET h == Chain(prev[b], job[b])
                    chain == LastHash(log', job[b].tenant)
                IN Len(h) <= Len(chain) /\ h = SubSeq(chain, 1, Len(h))
         /\ LastHash(log', job[th].tenant) = Chain(prev[th], job[th])
         /\ prev[th] = LastHash(log, job[th].tenant)
<1> DEFINE row == NewRow(th)
<1>0. /\ log \in Seq(Rows) /\ Len(log) \in Nat /\ DOMAIN log = 1..Len(log)
      /\ edited \subseteq DOMAIN log
  BY LenProperties DEF TypeOK
<1>1. /\ row \in Rows /\ row.record = job[th]
      /\ row.hash = Chain(prev[th], job[th])
      /\ job[th] \in Records /\ prev[th] \in Hashes
  BY ChainType DEF TypeOK, NewRow, Rows
<1>2. prev[th] = LastHash(log, job[th].tenant)
  BY DEF ChainInv, PrevFresh
<1> HIDE DEF row
<1>3. ASSUME NEW t
      PROVE LastHash(log', t) =
              IF job[th].tenant = t THEN Chain(prev[th], job[th])
              ELSE LastHash(log, t)
  BY <1>0, <1>1, LastHashAppend DEF row
<1>4. ChainLinear'
  <2>1. /\ DOMAIN log' = DOMAIN log \cup {Len(log) + 1}
        /\ \A i \in DOMAIN log : Linked(log', i) <=> Linked(log, i)
        /\ Linked(log', Len(log) + 1)
             <=> row.hash = Chain(LastHash(log, row.record.tenant), row.record)
    BY <1>0, <1>1, LinkedAppend DEF row
  <2>2. Linked(log', Len(log) + 1) /\ Len(log) + 1 \notin edited
    BY <1>0, <1>1, <1>2, <2>1
  <2> QED BY <2>1, <2>2 DEF ChainInv, ChainLinear
<1>5. ASSUME NEW b \in Threads \ {th}, pc[b] = "write"
      PROVE  job[b].tenant # job[th].tenant
  <2>1. CASE Backend = "postgres"
    BY <1>5, <2>1 DEF ChainInv, LocksHeld
  <2>2. CASE \A x, y \in Threads : InstanceOf[x] = InstanceOf[y]
    BY <1>5, <2>2 DEF ChainInv, LocksHeld, Holding
  <2> QED BY <2>1, <2>2 DEF Serialised
<1>6. \A b \in Threads \ {th} :
        pc[b] = "write" => prev[b] = LastHash(log', job[b].tenant)
  BY <1>3, <1>5 DEF ChainInv, PrevFresh
<1>7. ASSUME NEW b \in Threads \ {th}, pc[b] = "return"
      PROVE  LET h == Chain(prev[b], job[b])
                 chain == LastHash(log', job[b].tenant)
             IN Len(h) <= Len(chain) /\ h = SubSeq(chain, 1, Len(h))
  <2> DEFINE h == Chain(prev[b], job[b])
  <2> DEFINE c == LastHash(log, job[b].tenant)
  <2>1. Len(h) <= Len(c) /\ h = SubSeq(c, 1, Len(h))
    BY <1>7 DEF ChainInv, ReturnsPrefix
  <2>2. h \in Hashes /\ c \in Hashes
    BY ChainType, LastHashType, <1>0 DEF TypeOK
  <2>3. CASE job[b].tenant # job[th].tenant
    BY <1>3, <2>1, <2>3
  <2>4. CASE job[b].tenant = job[th].tenant
    <3>1. LastHash(log', job[b].tenant) = Append(c, job[th])
      BY <1>2, <1>3, <2>4 DEF Chain
    <3> HIDE DEF h, c
    <3>2. Len(h) <= Len(Append(c, job[th]))
          /\ h = SubSeq(Append(c, job[th]), 1, Len(h))
      BY <1>1, <2>1, <2>2, PrefixExtends
    <3> QED BY <3>1, <3>2 DEF h
  <2> QED BY <2>3, <2>4
<1> QED BY <1>2, <1>3, <1>4, <1>6, <1>7

\* Every step of append(), a crash, a verifier or an edit preserves it when
\* the appends of a tenant are serialised.
LEMMA ChainInvNext ==
  ASSUME TypeOK, TypeOK', ChainInv, Serialised, [Next]_vars
  PROVE  ChainInv'
<1> USE InstanceAssumption
<1>0. \A th \in Threads : job[th].tenant \in Tenants
  BY DEF TypeOK, Records
<1>1. ASSUME NEW th \in Threads, NEW d \in Decisions,
             NEW tenantId \in Tenants \cup {NoTenant},
             NEW scope \in Tenants \cup {NoTenant},
             Begin(th, d, tenantId, scope)
      PROVE  ChainInv'
  <2>1. UNCHANGED <<log, edited, lock, advisory, prev>>
    BY <1>1 DEF Begin
  <2>2. pc' = [pc EXCEPT ![th] = "acquire"]
        /\ \A b \in Threads \ {th} : job'[b] = job[b]
    BY <1>1 DEF Begin, TypeOK
  <2> QED BY <2>1, <2>2, ChainInvFrame DEF TypeOK
<1>2. ASSUME NEW th \in Threads, AcquireLock(th) PROVE ChainInv'
  <2>1. UNCHANGED <<log, edited, advisory, job, prev>>
        /\ pc[th] = "acquire" /\ lock[InstanceOf[th]] = NoThread
        /\ lock' = [lock EXCEPT ![InstanceOf[th]] = th]
        /\ pc' = [pc EXCEPT ![th] =
              IF Backend = "postgres" THEN "advisory" ELSE "read"]
    BY <1>2 DEF AcquireLock
  <2>2. LocksHeld'
    BY <2>1 DEF ChainInv, LocksHeld, TypeOK, Holding
  <2>3. ChainLinear' /\ PrevFresh' /\ ReturnsPrefix'
    BY <2>1 DEF ChainInv, ChainLinear, PrevFresh, ReturnsPrefix, TypeOK
  <2> QED BY <2>2, <2>3 DEF ChainInv
<1>3. ASSUME NEW th \in Threads, AdvisoryLock(th) PROVE ChainInv'
  <2>1. UNCHANGED <<log, edited, lock, job, prev>>
        /\ pc[th] = "advisory" /\ advisory[job[th].tenant] = NoThread
        /\ advisory' = [advisory EXCEPT ![job[th].tenant] = th]
        /\ pc' = [pc EXCEPT ![th] = "read"]
    BY <1>3 DEF AdvisoryLock
  <2>2. LocksHeld'
    BY <1>0, <2>1 DEF ChainInv, LocksHeld, TypeOK, Holding
  <2>3. ChainLinear' /\ PrevFresh' /\ ReturnsPrefix'
    BY <2>1 DEF ChainInv, ChainLinear, PrevFresh, ReturnsPrefix, TypeOK
  <2> QED BY <2>2, <2>3 DEF ChainInv
<1>4. ASSUME NEW th \in Threads, ReadPrev(th) PROVE ChainInv'
  <2>1. UNCHANGED <<log, edited, lock, advisory, job>> /\ pc[th] = "read"
        /\ prev' = [prev EXCEPT ![th] = LastHash(log, job[th].tenant)]
        /\ pc' = [pc EXCEPT ![th] = "write"]
    BY <1>4 DEF ReadPrev
  <2>2. LocksHeld'
    BY <2>1 DEF ChainInv, LocksHeld, TypeOK, Holding
  <2>3. ChainLinear' /\ PrevFresh' /\ ReturnsPrefix'
    BY <2>1 DEF ChainInv, ChainLinear, PrevFresh, ReturnsPrefix, TypeOK
  <2> QED BY <2>2, <2>3 DEF ChainInv
<1>5. ASSUME NEW th \in Threads, pc[th] \in Holding, Leave(th), ReleaseLocks(th)
      PROVE  \A b \in Threads :
               \/ pc'[b] \in {"idle", "acquire"}
               \/ /\ b # th
                  /\ pc'[b] = pc[b] /\ job'[b] = job[b] /\ prev'[b] = prev[b]
                  /\ lock[InstanceOf[b]] = b => lock'[InstanceOf[b]] = b
                  /\ advisory[job[b].tenant] = b =>
                       advisory'[job[b].tenant] = b
  <2> SUFFICES ASSUME NEW b \in Threads, b # th, pc[b] \in Holding
               PROVE  /\ pc'[b] = pc[b] /\ job'[b] = job[b] /\ prev'[b] = prev[b]
                      /\ lock[InstanceOf[b]] = b => lock'[InstanceOf[b]] = b
                      /\ advisory[job[b].tenant] = b =>
                           advisory'[job[b].tenant] = b
    BY <1>5 DEF Leave, TypeOK
  <2>1. pc'[b] = pc[b] /\ job'[b] = job[b] /\ prev'[b] = prev[b]
    BY <1>5 DEF Leave, TypeOK
  <2>2. advisory[job[b].tenant] = b => advisory'[job[b].tenant] = b
    BY <1>0, <1>5 DEF ReleaseLocks
  <2>3. lock[InstanceOf[b]] = b => lock'[InstanceOf[b]] = b
    BY <1>5 DEF ReleaseLocks, TypeOK, ChainInv, LocksHeld
  <2> QED BY <2>1, <2>2, <2>3
<1>6. ASSUME NEW th \in Threads, ReadPrevFails(th) \/ WriteFails(th) \/ Return(th)
      PROVE  ChainInv'
  <2>1. /\ pc[th] \in Holding /\ Leave(th) /\ ReleaseLocks(th)
        /\ UNCHANGED <<log, edited>>
    BY <1>6 DEF ReadPrevFails, WriteFails, Return, Fail, Holding
  <2> QED BY <1>5, <2>1, ChainInvFrame
<1>7. ASSUME NEW th \in Threads, WriteRow(th) PROVE ChainInv'
  <2>1. /\ pc[th] = "write" /\ log' = Append(log, NewRow(th))
        /\ pc' = [pc EXCEPT ![th] = "return"]
        /\ UNCHANGED <<edited, job, prev, lock>>
        /\ advisory' = [t \in Tenants |->
                          IF advisory[t] = th THEN NoThread ELSE advisory[t]]
    BY <1>7 DEF WriteRow
  <2>2. LocksHeld'
    BY <1>0, <2>1 DEF ChainInv, LocksHeld, TypeOK, Holding
  <2>3. /\ ChainLinear'
        /\ \A b \in Threads \ {th} :
              pc[b] = "write" => prev[b] = LastHash(log', job[b].tenant)
        /\ \A b \in Threads \ {th} :
              pc[b] = "return" =>
                LET h == Chain(prev[b], job[b])
                    chain == LastHash(log', job[b].tenant)
                IN Len(h) <= Len(chain) /\ h = SubSeq(chain, 1, Len(h))
        /\ LastHash(log', job[th].tenant) = Chain(prev[th], job[th])
    BY <2>1, ChainInvRow
  <2>4. PrevFresh'
    BY <2>1, <2>3 DEF PrevFresh, TypeOK
  <2>5. ReturnsPrefix'
    <3>1. Chain(prev[th], job[th]) \in Hashes
      BY ChainType DEF TypeOK
    <3>2. LET h == Chain(prev[th], job[th])
              chain == LastHash(log', job[th].tenant)
          IN Len(h) <= Len(chain) /\ h = SubSeq(chain, 1, Len(h))
      BY <2>3, <3>1, PrefixOfItself
    <3> QED BY <2>1, <2>3, <3>2 DEF ReturnsPrefix, TypeOK
  <2> QED BY <2>2, <2>3, <2>4, <2>5 DEF ChainInv
<1>8. ASSUME NEW th \in Threads, CommitReplyLost(th) PROVE ChainInv'
  <2>1. /\ pc[th] = "write" /\ log' = Append(log, NewRow(th))
        /\ Leave(th) /\ ReleaseLocks(th) /\ UNCHANGED edited
    BY <1>8 DEF CommitReplyLost, Fail
  <2>2. /\ ChainLinear'
        /\ \A b \in Threads \ {th} :
              pc[b] = "write" => prev[b] = LastHash(log', job[b].tenant)
        /\ \A b \in Threads \ {th} :
              pc[b] = "return" =>
                LET h == Chain(prev[b], job[b])
                    chain == LastHash(log', job[b].tenant)
                IN Len(h) <= Len(chain) /\ h = SubSeq(chain, 1, Len(h))
    BY <2>1, ChainInvRow
  <2>3. \A b \in Threads :
               \/ pc'[b] \in {"idle", "acquire"}
               \/ /\ b # th
                  /\ pc'[b] = pc[b] /\ job'[b] = job[b] /\ prev'[b] = prev[b]
                  /\ lock[InstanceOf[b]] = b => lock'[InstanceOf[b]] = b
                  /\ advisory[job[b].tenant] = b =>
                       advisory'[job[b].tenant] = b
    BY <1>5, <2>1 DEF Holding
  <2>4. LocksHeld'
    BY <2>3 DEF ChainInv, LocksHeld, Holding
  <2>5. PrevFresh' /\ ReturnsPrefix'
    BY <2>2, <2>3 DEF PrevFresh, ReturnsPrefix
  <2> QED BY <2>2, <2>4, <2>5 DEF ChainInv
<1>9. ASSUME NEW i \in Instances, Crash(i) PROVE ChainInv'
  <2>1. UNCHANGED <<log, edited>>
    BY <1>9 DEF Crash
  <2>2. ASSUME NEW b \in Threads, InstanceOf[b] = i PROVE pc'[b] = "idle"
    BY <1>9, <2>2 DEF Crash
  <2>3. ASSUME NEW b \in Threads, InstanceOf[b] # i
        PROVE  /\ pc'[b] = pc[b] /\ job'[b] = job[b] /\ prev'[b] = prev[b]
               /\ lock'[InstanceOf[b]] = lock[InstanceOf[b]]
    BY <1>9, <2>3 DEF Crash, TypeOK
  <2>4. ASSUME NEW b \in Threads, InstanceOf[b] # i, advisory[job[b].tenant] = b
        PROVE  advisory'[job[b].tenant] = b
    BY <1>0, <1>9, <2>4 DEF Crash
  <2> QED BY <2>1, <2>2, <2>3, <2>4, ChainInvFrame
<1>10. ASSUME UNCHANGED appendVars, UNCHANGED edited PROVE ChainInv'
  BY <1>10, ChainInvFrame DEF appendVars
<1>11. ASSUME NEW i \in DOMAIN log, NEW r \in Records, EditRow(i, r)
       PROVE  ChainInv'
  <2>1. /\ UNCHANGED <<lock, advisory, pc, job, prev>>
        /\ r # log[i].record /\ r.tenant = log[i].record.tenant
        /\ i \notin edited /\ edited' = edited \cup {i}
        /\ log \in Seq(Rows)
    BY <1>11 DEF EditRow, TypeOK
  <2>2. /\ DOMAIN log' = DOMAIN log
        /\ \A j \in DOMAIN log \ {i} : Linked(log', j) <=> Linked(log, j)
        /\ Linked(log, i) => ~Linked(log', i)
        /\ \A t : LastHash(log', t) = LastHash(log, t)
    BY <1>11, <2>1, EditRowFacts, LinkedEdit
  <2>3. ChainLinear'
    BY <2>1, <2>2 DEF ChainInv, ChainLinear
  <2>4. LocksHeld' /\ PrevFresh' /\ ReturnsPrefix'
    BY <2>1, <2>2 DEF ChainInv, LocksHeld, PrevFresh, ReturnsPrefix
  <2> QED BY <2>3, <2>4 DEF ChainInv
<1>12. ASSUME \/ \E scope \in Tenants \cup {NoTenant} : VerifyStart(scope)
              \/ VerifyRow \/ VerifyEnd \/ UNCHANGED vars
       PROVE  ChainInv'
  <2>1. UNCHANGED appendVars /\ UNCHANGED edited
    BY <1>12 DEF VerifyStart, VerifyRow, VerifyEnd, vars, appendVars
  <2> QED BY <1>10, <2>1
<1> QED
  BY <1>1, <1>2, <1>3, <1>4, <1>6, <1>7, <1>8, <1>9, <1>11, <1>12
  DEF Next, AppendStep

\* Whatever the threads, tenants, crashes and failed writes, no tenant's chain
\* is ever forked and exactly the rows edited out of band fail to verify, when
\* appends are serialised by one process's lock or by Postgres.
THEOREM ChainAlwaysLinear == Serialised => (Spec => []ChainLinear)
<1> SUFFICES ASSUME Serialised PROVE Spec => []ChainLinear
  OBVIOUS
<1>1. Spec => []TypeOK
  BY TypeCorrect
<1>2. TypeOK /\ TypeOK' /\ ChainInv /\ [Next]_vars => ChainInv'
  BY ChainInvNext
<1>3. ChainInv => ChainLinear
  BY DEF ChainInv
<1> QED BY <1>1, <1>2, <1>3, ChainInvInit, PTL DEF Spec

\* The store implements its callers' ledger: every write extends the chain of
\* one tenant by the record written, every acknowledgement names an initial
\* part of it, and no other step is visible.
THEOREM StoreImplementsLedger == Serialised => (Spec => ImplementsLedger)
<1> SUFFICES ASSUME Serialised PROVE Spec => ImplementsLedger
  OBVIOUS
<1> DEFINE chains == [t \in Tenants |-> LastHash(log, t)]
<1>1. Spec => []TypeOK
  BY TypeCorrect
<1>2. TypeOK /\ TypeOK' /\ ChainInv /\ [Next]_vars => ChainInv'
  BY ChainInvNext
<1>3. Init => Ledger!LedgerInit
  <2> SUFFICES ASSUME Init PROVE Ledger!LedgerInit
    OBVIOUS
  <2>1. \A t : LastHash(log, t) = <<>>
    <3>1. DOMAIN log = {}
      BY EmptySeq DEF Init
    <3>2. \A t, n : RowsBefore(log, t, n) = {}
      BY <3>1 DEF RowsBefore
    <3> QED BY <3>2 DEF LastHash, LastBefore, HashAt, ZeroHash
  <2> QED BY <2>1 DEF Init, Ledger!LedgerInit
<1>4. TypeOK /\ ChainInv /\ [Next]_vars => [Ledger!LedgerNext]_(Ledger!ledgerVars)
  <2> SUFFICES ASSUME TypeOK, ChainInv, [Next]_vars
               PROVE  Ledger!LedgerNext \/ UNCHANGED <<chains, acked>>
    BY DEF Ledger!ledgerVars
  <2>1. ASSUME NEW th \in Threads, pc[th] = "write",
               log' = Append(log, NewRow(th)), UNCHANGED <<edited, acked>>
        PROVE  Ledger!LedgerNext
    <3>1. /\ job[th] \in Records /\ job[th].tenant \in Tenants
          /\ NewRow(th) \in Rows /\ NewRow(th).record = job[th]
          /\ NewRow(th).hash = Chain(prev[th], job[th])
          /\ log \in Seq(Rows)
      BY ChainType DEF TypeOK, NewRow, Rows, Records
    <3>2. prev[th] = LastHash(log, job[th].tenant)
      BY <2>1 DEF ChainInv, PrevFresh
    <3>3. \A t \in Tenants : LastHash(log', t) =
             IF t = job[th].tenant THEN Append(LastHash(log, t), job[th])
             ELSE LastHash(log, t)
      BY <2>1, <3>1, <3>2, LastHashAppend DEF Chain
    <3>4. [t \in Tenants |-> LastHash(log', t)]
            = [chains EXCEPT ![job[th].tenant] = Append(@, job[th])]
      BY <3>1, <3>3
    <3>5. Ledger!Extend(job[th].tenant, job[th])
      BY <2>1, <3>4 DEF Ledger!Extend
    <3> QED BY <3>1, <3>5 DEF Ledger!LedgerNext
  <2>2. ASSUME NEW th \in Threads, Return(th) PROVE Ledger!LedgerNext
    <3> DEFINE t == job[th].tenant
    <3> DEFINE h == Chain(prev[th], job[th])
    <3>1. t \in Tenants /\ h \in Hashes /\ Len(h) \in Nat
      BY ChainType, LenProperties DEF TypeOK, Records, Hashes
    <3>2. Len(h) <= Len(LastHash(log, t)) /\ h = SubSeq(LastHash(log, t), 1, Len(h))
      BY <2>2 DEF Return, ChainInv, ReturnsPrefix
    <3>3. chains[t] = LastHash(log, t) /\ Len(LastHash(log, t)) \in Nat
      BY <3>1, LastHashType, LenProperties DEF TypeOK, Hashes
    <3>4. UNCHANGED chains /\ acked' = acked \cup {<<t, h>>}
      BY <2>2 DEF Return
    <3> HIDE DEF t, h
    <3>5. Ledger!Acknowledge(t, h)
      BY <3>1, <3>2, <3>3, <3>4 DEF Ledger!Acknowledge, Ledger!CommitsTo
    <3>6. Len(h) \in 0..Len(chains[t]) /\ h = SubSeq(chains[t], 1, Len(h))
      BY <3>1, <3>2, <3>3
    <3> QED BY <3>1, <3>5, <3>6 DEF Ledger!LedgerNext
  <2>3. ASSUME NEW i \in DOMAIN log, NEW r \in Records, EditRow(i, r)
        PROVE  UNCHANGED <<chains, acked>>
    <3>1. /\ r # log[i].record /\ r.tenant = log[i].record.tenant
          /\ log \in Seq(Rows)
      BY <2>3 DEF EditRow, TypeOK
    <3>2. \A t : LastHash(log', t) = LastHash(log, t)
      BY <2>3, <3>1, EditRowFacts, LinkedEdit
    <3> QED BY <2>3, <3>2 DEF EditRow
  <2>4. ASSUME UNCHANGED <<log, acked>> PROVE UNCHANGED <<chains, acked>>
    BY <2>4
  <2>5. ASSUME NEW th \in Threads, AppendStep(th)
        PROVE  Ledger!LedgerNext \/ UNCHANGED <<chains, acked>>
    <3>1. CASE WriteRow(th)
      BY <2>1, <3>1 DEF WriteRow
    <3>2. CASE CommitReplyLost(th)
      BY <2>1, <3>2 DEF CommitReplyLost, Fail
    <3>3. CASE Return(th)
      BY <2>2, <3>3
    <3>4. CASE AcquireLock(th) \/ AdvisoryLock(th) \/ ReadPrev(th)
               \/ ReadPrevFails(th) \/ WriteFails(th)
      BY <2>4, <3>4 DEF AcquireLock, AdvisoryLock, ReadPrev, ReadPrevFails,
         WriteFails, Fail
    <3> QED BY <2>5, <3>1, <3>2, <3>3, <3>4 DEF AppendStep
  <2>6. ASSUME \/ \E th \in Threads, d \in Decisions,
                     tenantId \in Tenants \cup {NoTenant},
                     scope \in Tenants \cup {NoTenant} :
                     Begin(th, d, tenantId, scope)
               \/ \E i \in Instances : Crash(i)
               \/ \E scope \in Tenants \cup {NoTenant} : VerifyStart(scope)
               \/ VerifyRow \/ VerifyEnd \/ UNCHANGED vars
        PROVE  UNCHANGED <<chains, acked>>
    <3>1. UNCHANGED <<log, acked>>
      BY <2>6 DEF Begin, Crash, VerifyStart, VerifyRow, VerifyEnd, vars,
         appendVars
    <3> QED BY <2>4, <3>1
  <2> QED BY <2>3, <2>5, <2>6 DEF Next
<1> QED
  BY <1>1, <1>2, <1>3, <1>4, ChainInvInit, PTL
  DEF Spec, ImplementsLedger, Ledger!LedgerSpec

-----------------------------------------------------------------------------
(* A lost row.                                                             *)

\* A non-empty set of positions has a least element.
LEMMA Least ==
  ASSUME NEW S \in SUBSET Nat, S # {}
  PROVE  \E i \in S : \A j \in S : i <= j
<1>1. PICK i \in S : \A y \in S : ~ (<<y, i>> \in OpToRel(<, Nat))
  BY WFMin, NatLessThanWellFounded
<1>2. ASSUME NEW j \in S PROVE i <= j
  <2>1. ~ (j < i)
    BY <1>1 DEF OpToRel
  <2> QED BY <2>1
<1> QED BY <1>2

\* LastBefore is 0 without rows of the tenant, and else the greatest of them.
LEMMA LastBeforeGreatest ==
  ASSUME NEW l \in Seq(Rows), NEW t, NEW n \in Nat
  PROVE  \/ RowsBefore(l, t, n) = {} /\ LastBefore(l, t, n) = 0
         \/ /\ LastBefore(l, t, n) \in RowsBefore(l, t, n)
            /\ \A j \in RowsBefore(l, t, n) : j <= LastBefore(l, t, n)
<1> DEFINE S == RowsBefore(l, t, n)
<1>1. Len(l) \in Nat /\ S \subseteq 1..Len(l)
  BY LenProperties DEF RowsBefore
<1>2. CASE S = {}
  BY <1>2 DEF LastBefore
<1>3. CASE S # {}
  <2>1. \E i \in S : \A j \in S : j <= i
    <3> HIDE DEF S
    <3> QED BY <1>1, <1>3, Greatest
  <2> QED BY <2>1, <1>3 DEF LastBefore
<1> QED BY <1>2, <1>3

\* A row of the tenant that no other one follows is the one LastBefore names.
LEMMA LastBeforeIs ==
  ASSUME NEW l \in Seq(Rows), NEW t, NEW n \in Nat, NEW k \in RowsBefore(l, t, n),
         \A j \in RowsBefore(l, t, n) : j <= k
  PROVE  LastBefore(l, t, n) = k
<1>1. RowsBefore(l, t, n) \subseteq Nat
  BY LenProperties DEF RowsBefore
<1>2. LastBefore(l, t, n) \in RowsBefore(l, t, n) /\ k <= LastBefore(l, t, n)
  BY LastBeforeGreatest
<1> DEFINE b == LastBefore(l, t, n)
<1>3. b \in Nat /\ k \in Nat /\ b <= k /\ k <= b
  BY <1>1, <1>2
<1> HIDE DEF b
<1>4. b = k
  BY <1>3
<1> QED BY <1>4 DEF b

\* A chain hash is longer than the one it is made from, so no record makes it
\* from its own successor's predecessor.
LEMMA ChainSkips ==
  ASSUME NEW h \in Hashes, NEW r \in Records, NEW s \in Records
  PROVE  Chain(Chain(h, r), s) # Chain(h, s)
<1>1. Len(Chain(h, r)) = Len(h) + 1 /\ Chain(h, r) \in Hashes /\ Len(h) \in Nat
  BY AppendProperties, LenProperties DEF Chain, Hashes
<1>2. Len(Chain(Chain(h, r), s)) = Len(Chain(h, r)) + 1 /\ Len(Chain(h, s)) = Len(h) + 1
  BY <1>1, AppendProperties DEF Chain, Hashes
<1> QED BY <1>1, <1>2

\* The rows without row i: row j of them is row Moved(i, j) of all.
Moved(i, j) == IF j < i THEN j ELSE j + 1
Without(l, i) == [j \in 1..(Len(l) - 1) |-> l[Moved(i, j)]]

\* They are rows, in the same order.
LEMMA WithoutRows ==
  ASSUME NEW l \in Seq(Rows), NEW i \in DOMAIN l
  PROVE  /\ Len(l) \in Nat \ {0} /\ DOMAIN l = 1..Len(l) /\ i \in 1..Len(l)
         /\ Without(l, i) \in Seq(Rows) /\ Len(Without(l, i)) = Len(l) - 1
         /\ DOMAIN Without(l, i) = 1..(Len(l) - 1)
         /\ \A j \in 1..(Len(l) - 1) :
              /\ Without(l, i)[j] = l[Moved(i, j)]
              /\ Moved(i, j) \in 1..Len(l)
         /\ \A j \in 1..Len(l) : l[j] \in Rows
<1>1. Len(l) \in Nat /\ DOMAIN l = 1..Len(l) /\ \A j \in 1..Len(l) : l[j] \in Rows
  BY LenProperties, ElementOfSeq
<1>2. i \in 1..Len(l) /\ Len(l) \in Nat \ {0} /\ Len(l) - 1 \in Nat
  BY <1>1
<1>3. \A j \in 1..(Len(l) - 1) : Moved(i, j) \in 1..Len(l) /\ l[Moved(i, j)] \in Rows
  BY <1>1, <1>2 DEF Moved
<1>4. /\ Without(l, i) \in [1..(Len(l) - 1) -> Rows]
      /\ \A j \in 1..(Len(l) - 1) : Without(l, i)[j] = l[Moved(i, j)]
  BY <1>3 DEF Without
<1>5. /\ Without(l, i) \in Seq(Rows) /\ Len(Without(l, i)) = Len(l) - 1
      /\ DOMAIN Without(l, i) = 1..(Len(l) - 1)
  BY <1>2, <1>4
<1> QED BY <1>1, <1>2, <1>3, <1>4, <1>5

\* A row that did not follow the lost one is linked as it was.
LEMMA WithoutKeeps ==
  ASSUME NEW l \in Seq(Rows), NEW i \in DOMAIN l, NEW j \in 1..(Len(l) - 1),
         LastBefore(l, l[Moved(i, j)].record.tenant, Moved(i, j)) # i
  PROVE  Linked(Without(l, i), j) <=> Linked(l, Moved(i, j))
<1> DEFINE w == Without(l, i)
<1> DEFINE n == Moved(i, j)
<1> DEFINE t == l[n].record.tenant
<1> DEFINE b == LastBefore(l, t, n)
<1> DEFINE N == Len(l)
<1>0. b # i
  OBVIOUS
<1>1. /\ N \in Nat \ {0} /\ DOMAIN l = 1..N /\ i \in 1..N /\ j \in 1..(N - 1)
      /\ w \in Seq(Rows) /\ DOMAIN w = 1..(N - 1)
      /\ \A k \in 1..(N - 1) : w[k] = l[Moved(i, k)]
      /\ n \in 1..N
  BY WithoutRows
<1>2. n = IF j < i THEN j ELSE j + 1
  BY DEF Moved
<1>3. HashAt(w, LastBefore(w, t, j)) = HashAt(l, b)
  <2>1. CASE RowsBefore(l, t, n) = {} /\ b = 0
    <3>1. RowsBefore(w, t, j) = {}
      <4> SUFFICES ASSUME NEW k \in RowsBefore(w, t, j) PROVE FALSE
        OBVIOUS
      <4>1. k \in 1..(N - 1) /\ k < j /\ w[k].record.tenant = t
        BY <1>1 DEF RowsBefore
      <4>2. Moved(i, k) \in 1..N /\ Moved(i, k) < n /\ l[Moved(i, k)].record.tenant = t
        BY <1>1, <1>2, <4>1 DEF Moved
      <4> QED BY <1>1, <2>1, <4>2 DEF RowsBefore
    <3>2. LastBefore(w, t, j) = 0
      BY <3>1 DEF LastBefore
    <3> QED BY <2>1, <3>2 DEF HashAt
  <2>2. CASE b \in RowsBefore(l, t, n) /\ \A k \in RowsBefore(l, t, n) : k <= b
    <3> DEFINE k == IF b < i THEN b ELSE b - 1
    <3>1. b \in 1..N /\ b < n /\ l[b].record.tenant = t
      BY <1>1, <2>2 DEF RowsBefore
    <3> HIDE DEF b, n, t, w, N
    <3>2. k \in 1..(N - 1) /\ k < j /\ Moved(i, k) = b
      BY <1>0, <1>1, <1>2, <3>1 DEF Moved
    <3>3. k \in RowsBefore(w, t, j)
      BY <1>1, <3>1, <3>2 DEF RowsBefore
    <3>4. ASSUME NEW m \in RowsBefore(w, t, j) PROVE m <= k
      <4>1. m \in 1..(N - 1) /\ m < j /\ w[m].record.tenant = t
        BY <1>1 DEF RowsBefore
      <4>2. Moved(i, m) \in 1..N /\ Moved(i, m) < n /\ l[Moved(i, m)].record.tenant = t
        BY <1>1, <1>2, <4>1 DEF Moved
      <4>3. Moved(i, m) <= b
        BY <1>1, <2>2, <4>2 DEF RowsBefore
      <4> QED BY <1>0, <1>1, <3>1, <4>1, <4>3 DEF Moved
    <3>5. LastBefore(w, t, j) = k
      <4> HIDE DEF k
      <4> QED BY <1>1, <3>3, <3>4, LastBeforeIs
    <3>6. w[k] = l[b] /\ k # 0 /\ b # 0
      BY <1>1, <3>1, <3>2
    <3> QED BY <3>5, <3>6 DEF HashAt
  <2> QED BY <1>1, <2>1, <2>2, LastBeforeGreatest
<1>4. w[j] = l[n]
  BY <1>1
<1> QED BY <1>3, <1>4 DEF Linked

\* The row that followed the lost one no longer continues its chain.
LEMMA WithoutBreaks ==
  ASSUME NEW l \in Seq(Rows), NEW i \in DOMAIN l, NEW j \in 1..(Len(l) - 1),
         LastBefore(l, l[Moved(i, j)].record.tenant, Moved(i, j)) = i,
         Linked(l, i), Linked(l, Moved(i, j))
  PROVE  ~Linked(Without(l, i), j)
<1> DEFINE w == Without(l, i)
<1> DEFINE n == Moved(i, j)
<1> DEFINE t == l[n].record.tenant
<1> DEFINE N == Len(l)
<1> DEFINE b == LastBefore(l, t, i)
<1> DEFINE h == HashAt(l, b)
<1>1. /\ N \in Nat \ {0} /\ DOMAIN l = 1..N /\ i \in 1..N /\ j \in 1..(N - 1)
      /\ w \in Seq(Rows) /\ DOMAIN w = 1..(N - 1)
      /\ \A k \in 1..(N - 1) : w[k] = l[Moved(i, k)]
      /\ n \in 1..N /\ l[i] \in Rows /\ l[n] \in Rows
      /\ \A k \in 1..N : l[k] \in Rows
  BY WithoutRows
<1>2. n = IF j < i THEN j ELSE j + 1
  BY DEF Moved
<1>3. /\ i \in RowsBefore(l, t, n) /\ \A k \in RowsBefore(l, t, n) : k <= i
  BY <1>1, LastBeforeGreatest
<1>4. i < n /\ l[i].record.tenant = t /\ n = j + 1
  BY <1>1, <1>2, <1>3 DEF RowsBefore
<1>5. b \in 0..N /\ b < i
  BY <1>1, LastBeforeType
<1>6. RowsBefore(w, t, j) = RowsBefore(l, t, i)
  <2>1. ASSUME NEW k \in RowsBefore(w, t, j) PROVE k \in RowsBefore(l, t, i)
    <3>1. k \in 1..(N - 1) /\ k < j /\ w[k].record.tenant = t
      BY <1>1 DEF RowsBefore
    <3>2. Moved(i, k) \in RowsBefore(l, t, n)
      BY <1>1, <1>4, <3>1 DEF Moved, RowsBefore
    <3>3. Moved(i, k) <= i
      BY <1>3, <3>2
    <3>4. k < i /\ Moved(i, k) = k
      BY <1>1, <3>1, <3>3 DEF Moved
    <3> QED BY <1>1, <3>1, <3>4 DEF RowsBefore
  <2>2. ASSUME NEW k \in RowsBefore(l, t, i) PROVE k \in RowsBefore(w, t, j)
    <3>1. k \in 1..N /\ k < i /\ l[k].record.tenant = t
      BY <1>1 DEF RowsBefore
    <3>2. k \in 1..(N - 1) /\ k < j /\ Moved(i, k) = k
      BY <1>1, <1>4, <3>1 DEF Moved
    <3> QED BY <1>1, <3>1, <3>2 DEF RowsBefore
  <2> QED BY <2>1, <2>2
<1>7. LastBefore(w, t, j) = b
  BY <1>6, LastBeforeSame
<1>8. HashAt(w, b) = h
  <2> HIDE DEF b, w, N
  <2>1. CASE b = 0
    BY <2>1 DEF HashAt
  <2>2. CASE b # 0
    <3>1. b \in 1..(N - 1) /\ Moved(i, b) = b
      BY <1>1, <1>5, <2>2 DEF Moved
    <3> QED BY <1>1, <2>2, <3>1 DEF HashAt
  <2> QED BY <2>1, <2>2
<1>9. h \in Hashes
  <2>1. ZeroHash \in Hashes
    BY EmptySeq DEF ZeroHash, Hashes
  <2> HIDE DEF b
  <2> QED BY <1>1, <1>5, <2>1 DEF HashAt, Rows
<1>10. l[i].hash = Chain(h, l[i].record)
  BY <1>4 DEF Linked
<1>11. l[n].hash = Chain(l[i].hash, l[n].record)
  BY <1>1 DEF Linked, HashAt
<1>12. l[i].record \in Records /\ l[n].record \in Records
  BY <1>1 DEF Rows
<1>13. l[n].hash # Chain(h, l[n].record)
  <2> HIDE DEF h, n
  <2> QED BY <1>9, <1>10, <1>11, <1>12, ChainSkips
<1>14. w[j] = l[n]
  BY <1>1
<1> QED BY <1>7, <1>8, <1>13, <1>14 DEF Linked

\* On a linear chain nobody edited, the first row to fail after a loss is the
\* tenant's next, and none fails when there is no next.
LEMMA LossShows == TypeOK /\ ChainLinear => LossNoticed
<1> SUFFICES ASSUME TypeOK, ChainLinear, edited = {}, NEW i \in DOMAIN log
             PROVE
      LET without == [j \in 1..(Len(log) - 1) |-> log[IF j < i THEN j ELSE j + 1]]
          later == {j \in DOMAIN log :
                     j > i /\ log[j].record.tenant = log[i].record.tenant}
      IN IF later = {} THEN FirstBroken(without) = 0
         ELSE FirstBroken(without) =
                (CHOOSE j \in later : \A k \in later : j <= k) - 1
  BY DEF LossNoticed
<1> DEFINE w == Without(log, i)
<1> DEFINE N == Len(log)
<1> DEFINE t == log[i].record.tenant
<1> DEFINE later == {j \in DOMAIN log : j > i /\ log[j].record.tenant = t}
<1> DEFINE f == CHOOSE j \in later : \A k \in later : j <= k
<1> DEFINE broken == {j \in DOMAIN w : ~Linked(w, j)}
<1>0. w = [j \in 1..(Len(log) - 1) |-> log[IF j < i THEN j ELSE j + 1]]
  BY DEF Without, Moved
<1>1. /\ N \in Nat \ {0} /\ DOMAIN log = 1..N /\ i \in 1..N
      /\ DOMAIN w = 1..(N - 1) /\ log \in Seq(Rows)
      /\ \A j \in 1..(N - 1) : Moved(i, j) \in 1..N
  BY WithoutRows DEF TypeOK
<1>2. \A j \in 1..N : Linked(log, j)
  BY <1>1 DEF ChainLinear
<1>3. ASSUME NEW j \in 1..(N - 1)
      PROVE  j \in broken <=> LastBefore(log, log[Moved(i, j)].record.tenant, Moved(i, j)) = i
  BY <1>1, <1>2, WithoutKeeps, WithoutBreaks
<1>4. ASSUME NEW j \in broken PROVE j \in 1..(N - 1) /\ j + 1 \in later
  <2> DEFINE n == Moved(i, j)
  <2>1. j \in 1..(N - 1) /\ n \in 1..N
    BY <1>1
  <2>2. LastBefore(log, log[n].record.tenant, n) = i
    BY <1>3, <2>1
  <2>3. i \in RowsBefore(log, log[n].record.tenant, n)
    BY <1>1, <2>1, <2>2, LastBeforeGreatest
  <2>4. i < n /\ t = log[n].record.tenant
    BY <2>3 DEF RowsBefore
  <2>5. n = j + 1
    BY <1>1, <2>1, <2>4 DEF Moved
  <2> QED BY <1>1, <2>1, <2>4, <2>5
<1> HIDE DEF w
<1>5. CASE later = {}
  <2>1. broken = {}
    BY <1>4, <1>5
  <2>2. FirstBroken(w) = 0
    BY <2>1 DEF FirstBroken
  <2> QED BY <1>0, <1>5, <2>2
<1>6. CASE later # {}
  <2>1. f \in later /\ \A k \in later : f <= k
    <3>1. later \in SUBSET Nat
      BY <1>1
    <3>2. \E j \in later : \A k \in later : j <= k
      <4> HIDE DEF later
      <4> QED BY <1>6, <3>1, Least
    <3> QED BY <3>2
  <2> HIDE DEF f
  <2>2. f \in 1..N /\ f > i /\ log[f].record.tenant = t
    BY <1>1, <2>1
  <2>3. f - 1 \in 1..(N - 1) /\ Moved(i, f - 1) = f
    BY <1>1, <2>2 DEF Moved
  <2>4. LastBefore(log, t, f) = i
    <3>1. i \in RowsBefore(log, t, f)
      BY <1>1, <2>2 DEF RowsBefore
    <3>2. ASSUME NEW k \in RowsBefore(log, t, f) PROVE k <= i
      <4>1. k \in 1..N /\ k < f /\ log[k].record.tenant = t
        BY <1>1 DEF RowsBefore
      <4>2. ~(k > i)
        BY <1>1, <2>1, <2>2, <4>1
      <4> QED BY <1>1, <4>1, <4>2
    <3> QED BY <1>1, <2>2, <3>1, <3>2, LastBeforeIs
  <2>5. f - 1 \in broken
    BY <1>3, <2>2, <2>3, <2>4
  <2>6. \A j \in broken : j \in Nat /\ f - 1 <= j
    BY <1>1, <1>4, <2>1, <2>2
  <2>7. FirstBroken(w) = f - 1
    <3> DEFINE c == CHOOSE k \in broken : \A j \in broken : k <= j
    <3>1. c \in broken /\ \A j \in broken : c <= j
      BY <2>5, <2>6
    <3>2. FirstBroken(w) = c
      BY <2>5 DEF FirstBroken
    <3> HIDE DEF c, broken
    <3>3. c \in Nat /\ c <= f - 1 /\ f - 1 <= c
      BY <2>5, <2>6, <3>1
    <3> QED BY <2>2, <3>2, <3>3
  <2> QED BY <1>0, <1>6, <2>7 DEF f
<1> QED BY <1>5, <1>6

\* However threads, crashes and tenants interleave: a row lost from a tenant's chain
\* is noticed at that tenant's next row and nowhere before, and only the loss of a
\* tenant's last row goes unseen.
THEOREM LossAlwaysNoticed == Serialised => (Spec => []LossNoticed)
BY TypeCorrect, ChainAlwaysLinear, LossShows, PTL

-----------------------------------------------------------------------------
(* The verifier.                                                           *)

\* The rows below n that a walk of this scope looks at.
Scoped(l, scope, n) == {i \in DOMAIN l : InScope(l[i], scope) /\ i < n}

\* A walk under way has passed no edited row of its scope, carries the last hash
\* of each tenant in scope, and has counted what it passed; no row was edited
\* since it began.
WalkSound ==
  walk.on =>
    /\ edited \subseteq 1..walk.limit
    /\ walk.at <= WalkEnd + 1
    /\ Scoped(log, walk.scope, walk.at) \cap edited = {}
    /\ \A t \in Tenants : walk.scope \in {NoTenant, t} =>
         walk.prev[t] = HashAt(log, LastBefore(log, t, walk.at))
    /\ walk.index = Cardinality(Scoped(log, walk.scope, walk.at))

\* What the walk has read does not change when rows are added.
LEMMA ScopedAppend ==
  ASSUME NEW l \in Seq(Rows), NEW r \in Rows, NEW scope, NEW n \in 1..(Len(l) + 1)
  PROVE  Scoped(Append(l, r), scope, n) = Scoped(l, scope, n)
<1>1. /\ Len(l) \in Nat /\ DOMAIN l = 1..Len(l)
      /\ DOMAIN Append(l, r) = 1..(Len(l) + 1)
      /\ \A i \in 1..Len(l) : Append(l, r)[i] = l[i]
  BY LenProperties, AppendProperties
<1> QED BY <1>1 DEF Scoped

\* The next row is counted if it is in scope, and only then.
LEMMA ScopedNext ==
  ASSUME NEW l \in Seq(Rows), NEW scope, NEW n \in DOMAIN l
  PROVE  /\ IsFiniteSet(Scoped(l, scope, n))
         /\ ~InScope(l[n], scope) => Scoped(l, scope, n + 1) = Scoped(l, scope, n)
         /\ InScope(l[n], scope) =>
              /\ Scoped(l, scope, n + 1) = Scoped(l, scope, n) \cup {n}
              /\ Cardinality(Scoped(l, scope, n + 1)) = Cardinality(Scoped(l, scope, n)) + 1
<1>1. Len(l) \in Nat /\ DOMAIN l = 1..Len(l) /\ n \in 1..Len(l)
  BY LenProperties
<1>2. IsFiniteSet(Scoped(l, scope, n))
  <2>1. IsFiniteSet(1..Len(l)) /\ Scoped(l, scope, n) \in SUBSET (1..Len(l))
    BY <1>1, FS_Interval DEF Scoped
  <2> QED BY <2>1, FS_Subset
<1>3. ~InScope(l[n], scope) => Scoped(l, scope, n + 1) = Scoped(l, scope, n)
  BY <1>1 DEF Scoped
<1>4. InScope(l[n], scope) => Scoped(l, scope, n + 1) = Scoped(l, scope, n) \cup {n}
  BY <1>1 DEF Scoped
<1>5. n \notin Scoped(l, scope, n)
  BY <1>1 DEF Scoped
<1> QED BY <1>2, <1>3, <1>4, <1>5, FS_AddElement

\* Past row n the last row of its tenant is n, and every other tenant's is what
\* it was.
LEMMA LastBeforeNext ==
  ASSUME NEW l \in Seq(Rows), NEW t, NEW n \in DOMAIN l
  PROVE  LastBefore(l, t, n + 1) = IF l[n].record.tenant = t THEN n ELSE LastBefore(l, t, n)
<1>1. Len(l) \in Nat /\ DOMAIN l = 1..Len(l) /\ n \in 1..Len(l)
  BY LenProperties
<1>2. CASE l[n].record.tenant = t
  <2>1. n \in RowsBefore(l, t, n + 1) /\ \A j \in RowsBefore(l, t, n + 1) : j <= n
    BY <1>1, <1>2 DEF RowsBefore
  <2> QED BY <1>1, <1>2, <2>1, LastBeforeIs
<1>3. CASE l[n].record.tenant # t
  <2>1. RowsBefore(l, t, n + 1) = RowsBefore(l, t, n)
    BY <1>1, <1>3 DEF RowsBefore
  <2> QED BY <1>3, <2>1, LastBeforeSame
<1> QED BY <1>2, <1>3

\* Rows added while a walk goes on, or after it ended, leave it sound.
LEMMA WalkFrame ==
  ASSUME TypeOK, WalkSound, VerifyExact, UNCHANGED <<edited, walk>>,
         log' = log \/ \E r \in Rows : log' = Append(log, r)
  PROVE  WalkSound' /\ VerifyExact'
<1>0. /\ log \in Seq(Rows) /\ Len(log) \in Nat /\ DOMAIN log = 1..Len(log)
      /\ edited \subseteq 1..Len(log) /\ walk \in Walks(Len(log))
  BY LenProperties DEF TypeOK
<1>1. CASE log' = log
  BY <1>1 DEF WalkSound, VerifyExact, WalkEnd
<1>2. ASSUME NEW r \in Rows, log' = Append(log, r) PROVE WalkSound' /\ VerifyExact'
  <2>1. /\ Len(log') = Len(log) + 1 /\ DOMAIN log' = 1..(Len(log) + 1)
        /\ \A i \in 1..Len(log) : log'[i] = log[i]
    <3>1. /\ Append(log, r) \in Seq(Rows) /\ Len(Append(log, r)) = Len(log) + 1
          /\ \A i \in 1..Len(log) : Append(log, r)[i] = log[i]
      BY <1>0, AppendProperties
    <3>2. DOMAIN Append(log, r) = 1..(Len(log) + 1)
      BY <3>1, LenProperties
    <3> QED BY <1>2, <3>1, <3>2
  <2>2. WalkSound'
    <3> SUFFICES ASSUME walk.on PROVE WalkSound'
      BY DEF WalkSound
    <3>1. /\ walk.at \in 1..(Len(log) + 1) /\ walk.at <= WalkEnd + 1 /\ WalkEnd <= WalkEnd'
          /\ WalkEnd \in Nat /\ WalkEnd' \in Nat
      BY <1>0, <2>1 DEF WalkSound, WalkEnd, Walks
    <3>2. Scoped(log', walk.scope, walk.at) = Scoped(log, walk.scope, walk.at)
      BY <1>0, <1>2, <3>1, ScopedAppend
    <3>3. ASSUME NEW t \in Tenants
          PROVE  HashAt(log', LastBefore(log', t, walk.at)) = HashAt(log, LastBefore(log, t, walk.at))
      BY <1>0, <1>2, <3>1, LastBeforeAppend
    <3>4. walk.at <= WalkEnd' + 1
      BY <3>1
    <3> QED BY <3>2, <3>3, <3>4 DEF WalkSound
  <2>3. VerifyExact'
    <3> SUFFICES ASSUME ~walk.on, walk.result # Unknown PROVE VerifyExact'
      BY DEF VerifyExact
    <3> DEFINE scoped == {i \in DOMAIN log : InScope(log[i], walk.scope)}
    <3> DEFINE scoped1 == {i \in DOMAIN log' : InScope(log'[i], walk.scope)}
    <3> DEFINE hit == scoped \cap edited
    <3> DEFINE first == CHOOSE i \in hit : \A j \in hit : i <= j
    <3>1. scoped1 \cap edited = hit
      BY <1>0, <2>1
    <3>2. CASE hit = {}
      BY <3>1, <3>2 DEF VerifyExact
    <3>3. CASE hit # {}
      <4>1. hit \in SUBSET Nat
        BY <1>0
      <4>2. \E i \in hit : \A j \in hit : i <= j
        <5> HIDE DEF hit
        <5> QED BY <3>3, <4>1, Least
      <4>3. first \in hit
        BY <4>2
      <4>4. first \in 1..Len(log)
        BY <1>0, <4>3
      <4>5. {i \in scoped1 : i < first} = {i \in scoped : i < first}
        <5> HIDE DEF first
        <5> QED BY <1>0, <2>1, <4>4
      <4>6. walk.result = Cardinality({i \in scoped : i < first})
        BY <3>3 DEF VerifyExact
      <4> QED BY <3>1, <3>3, <4>5, <4>6 DEF VerifyExact
    <3> QED BY <3>2, <3>3
  <2> QED BY <2>2, <2>3
<1> QED BY <1>1, <1>2

\* One row of the walk: passed over, counted, or reported as the first edited one.
LEMMA WalkRow ==
  ASSUME TypeOK, ChainLinear, WalkSound, VerifyRow
  PROVE  WalkSound' /\ VerifyExact'
<1> DEFINE n == walk.at
<1> DEFINE row == log[n]
<1> DEFINE t == row.record.tenant
<1> DEFINE scope == walk.scope
<1>0. /\ log \in Seq(Rows) /\ Len(log) \in Nat /\ DOMAIN log = 1..Len(log)
      /\ edited \subseteq 1..Len(log) /\ walk \in Walks(Len(log))
      /\ \A i \in 1..Len(log) : log[i] \in Rows
  BY LenProperties, ElementOfSeq DEF TypeOK
<1>1. /\ walk.on /\ n \in 1..Len(log) /\ n <= WalkEnd /\ WalkEnd \in Nat
      /\ UNCHANGED <<log, edited>> /\ row \in Rows /\ t \in Tenants
      /\ walk.limit \in Nat /\ walk.index \in Nat
  BY <1>0 DEF VerifyRow, WalkEnd, Walks, appendVars, Rows, Records
<1>2. /\ edited \subseteq 1..walk.limit
      /\ Scoped(log, scope, n) \cap edited = {}
      /\ \A u \in Tenants : scope \in {NoTenant, u} =>
           walk.prev[u] = HashAt(log, LastBefore(log, u, n))
      /\ walk.index = Cardinality(Scoped(log, scope, n))
  BY <1>1 DEF WalkSound
<1>3. InScope(row, scope) => (row.hash = Chain(walk.prev[t], row.record) <=> n \notin edited)
  <2> SUFFICES ASSUME InScope(row, scope)
               PROVE  row.hash = Chain(walk.prev[t], row.record) <=> n \notin edited
    OBVIOUS
  <2>1. walk.prev[t] = HashAt(log, LastBefore(log, t, n))
    BY <1>1, <1>2 DEF InScope
  <2>2. Linked(log, n) <=> n \notin edited
    BY <1>0, <1>1 DEF ChainLinear
  <2> QED BY <2>1, <2>2 DEF Linked
<1>4. CASE ~InScope(row, scope)
  <2>1. walk' = [walk EXCEPT !.at = n + 1]
    BY <1>4 DEF VerifyRow
  <2>2. /\ walk'.on /\ walk'.at = n + 1 /\ walk'.scope = scope /\ walk'.limit = walk.limit
        /\ walk'.prev = walk.prev /\ walk'.index = walk.index
    BY <1>0, <1>1, <2>1 DEF Walks
  <2>3. Scoped(log, scope, n + 1) = Scoped(log, scope, n)
    BY <1>0, <1>1, <1>4, ScopedNext
  <2>4. ASSUME NEW u \in Tenants, scope \in {NoTenant, u}
        PROVE  LastBefore(log, u, n + 1) = LastBefore(log, u, n)
    BY <1>0, <1>1, <1>4, <2>4, LastBeforeNext DEF InScope
  <2>5. WalkEnd' = WalkEnd
    BY <1>1, <2>2 DEF WalkEnd
  <2>6. n + 1 <= WalkEnd + 1
    BY <1>1
  <2>7. WalkSound'
    BY <1>1, <1>2, <2>2, <2>3, <2>4, <2>5, <2>6 DEF WalkSound
  <2> QED BY <2>2, <2>7 DEF VerifyExact
<1>5. CASE InScope(row, scope) /\ row.hash = Chain(walk.prev[t], row.record)
  <2>1. walk' = [walk EXCEPT !.at = n + 1, !.index = walk.index + 1, !.prev[t] = row.hash]
    BY <1>5 DEF VerifyRow
  <2>2. /\ walk'.on /\ walk'.at = n + 1 /\ walk'.scope = scope /\ walk'.limit = walk.limit
        /\ walk'.prev = [walk.prev EXCEPT ![t] = row.hash] /\ walk'.index = walk.index + 1
        /\ walk.prev \in [Tenants -> Hashes]
    BY <1>0, <1>1, <2>1 DEF Walks
  <2>3. /\ Scoped(log, scope, n + 1) = Scoped(log, scope, n) \cup {n}
        /\ Cardinality(Scoped(log, scope, n + 1)) = Cardinality(Scoped(log, scope, n)) + 1
    BY <1>0, <1>1, <1>5, ScopedNext
  <2>4. ASSUME NEW u \in Tenants, scope \in {NoTenant, u}
        PROVE  walk'.prev[u] = HashAt(log, LastBefore(log, u, n + 1))
    <3>1. CASE u = t
      <4>1. LastBefore(log, u, n + 1) = n
        BY <1>0, <1>1, <3>1, LastBeforeNext
      <4> QED BY <1>1, <2>2, <3>1, <4>1 DEF HashAt
    <3>2. CASE u # t
      <4>1. LastBefore(log, u, n + 1) = LastBefore(log, u, n)
        BY <1>0, <1>1, <3>2, LastBeforeNext
      <4> QED BY <1>1, <1>2, <2>2, <2>4, <3>2, <4>1
    <3> QED BY <3>1, <3>2
  <2>5. WalkEnd' = WalkEnd
    BY <1>1, <2>2 DEF WalkEnd
  <2>6. n + 1 <= WalkEnd + 1
    BY <1>1
  <2>7. (Scoped(log, scope, n) \cup {n}) \cap edited = {}
    BY <1>2, <1>3, <1>5
  <2>8. WalkSound'
    BY <1>1, <1>2, <2>2, <2>3, <2>4, <2>5, <2>6, <2>7 DEF WalkSound
  <2> QED BY <2>2, <2>8 DEF VerifyExact
<1>6. CASE InScope(row, scope) /\ row.hash # Chain(walk.prev[t], row.record)
  <2>1. walk' = Finished(walk.index)
    BY <1>6 DEF VerifyRow
  <2>2. ~walk'.on /\ walk'.scope = scope /\ walk'.result = walk.index
    BY <2>1 DEF Finished, NewWalk
  <2> DEFINE scoped == {i \in DOMAIN log : InScope(log[i], scope)}
  <2> DEFINE hit == scoped \cap edited
  <2> DEFINE first == CHOOSE i \in hit : \A j \in hit : i <= j
  <2>3. n \in hit
    BY <1>0, <1>1, <1>3, <1>6
  <2>4. ASSUME NEW j \in hit PROVE j \in Nat /\ n <= j
    <3>1. j \in 1..Len(log) /\ j \notin Scoped(log, scope, n)
      BY <1>0, <1>2
    <3>2. ~(j < n)
      BY <1>0, <3>1 DEF Scoped
    <3> QED BY <1>0, <1>1, <3>1, <3>2
  <2>5. first = n
    <3>1. first \in hit /\ \A j \in hit : first <= j
      BY <2>3, <2>4
    <3> HIDE DEF first, hit
    <3>2. first \in Nat /\ n <= first /\ first <= n
      BY <2>3, <2>4, <3>1
    <3> QED BY <1>1, <3>2
  <2>6. {i \in scoped : i < n} = Scoped(log, scope, n)
    BY DEF Scoped
  <2>7. VerifyExact'
    <3>1. walk'.result = Cardinality({i \in scoped : i < first})
      BY <1>2, <2>2, <2>5, <2>6
    <3> QED BY <1>1, <2>2, <2>3, <3>1 DEF VerifyExact
  <2> QED BY <2>2, <2>7 DEF WalkSound
<1> QED BY <1>4, <1>5, <1>6

\* A walk begins, goes on and ends soundly, whatever is appended and edited.
LEMMA WalkNext ==
  TypeOK /\ ChainLinear /\ WalkSound /\ VerifyExact /\ [Next]_vars =>
    WalkSound' /\ VerifyExact'
<1> SUFFICES ASSUME TypeOK, ChainLinear, WalkSound, VerifyExact, [Next]_vars
             PROVE  WalkSound' /\ VerifyExact'
  OBVIOUS
<1>0. /\ log \in Seq(Rows) /\ Len(log) \in Nat /\ DOMAIN log = 1..Len(log)
      /\ edited \subseteq 1..Len(log) /\ walk \in Walks(Len(log))
  BY LenProperties DEF TypeOK
<1>1. ASSUME NEW th \in Threads PROVE NewRow(th) \in Rows
  <2>1. Chain(prev[th], job[th]) \in Hashes
    BY ChainType DEF TypeOK
  <2> QED BY <2>1 DEF NewRow, Rows, TypeOK
<1>2. ASSUME NEW th \in Threads, AppendStep(th) PROVE WalkSound' /\ VerifyExact'
  <2>1. UNCHANGED <<edited, walk>> /\ (log' = log \/ log' = Append(log, NewRow(th)))
    BY <1>2 DEF AppendStep, AcquireLock, AdvisoryLock, ReadPrev, ReadPrevFails, WriteRow,
                WriteFails, CommitReplyLost, Return, Fail
  <2> QED BY <1>1, <2>1, WalkFrame
<1>3. ASSUME \/ \E th \in Threads, d \in Decisions, tenantId \in Tenants \cup {NoTenant},
                   scope \in Tenants \cup {NoTenant} : Begin(th, d, tenantId, scope)
             \/ \E i \in Instances : Crash(i)
             \/ UNCHANGED vars
      PROVE  WalkSound' /\ VerifyExact'
  <2>1. UNCHANGED <<edited, walk>> /\ log' = log
    BY <1>3 DEF Begin, Crash, vars
  <2> QED BY <2>1, WalkFrame
<1>4. ASSUME NEW scope \in Tenants \cup {NoTenant}, VerifyStart(scope)
      PROVE  WalkSound' /\ VerifyExact'
  <2>1. walk' = NewWalk(TRUE, scope, Len(log), Unknown) /\ UNCHANGED <<log, edited>>
    BY <1>4 DEF VerifyStart, appendVars
  <2>2. /\ walk'.on /\ walk'.at = 1 /\ walk'.scope = scope /\ walk'.limit = Len(log)
        /\ walk'.index = 0 /\ \A t \in Tenants : walk'.prev[t] = ZeroHash
    BY <2>1 DEF NewWalk
  <2>3. Scoped(log, scope, 1) = {} /\ Cardinality({}) = 0
    BY <1>0, FS_EmptySet DEF Scoped
  <2>4. \A t : HashAt(log, LastBefore(log, t, 1)) = ZeroHash
    <3>1. \A t : RowsBefore(log, t, 1) = {}
      BY <1>0 DEF RowsBefore
    <3> QED BY <3>1 DEF LastBefore, HashAt
  <2>5. WalkEnd' \in Nat /\ 1 <= WalkEnd' + 1
    <3>1. WalkEnd' = IF Backend = "jsonl" THEN Len(log') ELSE walk'.limit
      BY DEF WalkEnd
    <3>2. WalkEnd' = Len(log)
      BY <2>1, <2>2, <3>1
    <3> QED BY <1>0, <3>2
  <2>6. WalkSound'
    BY <1>0, <2>1, <2>2, <2>3, <2>4, <2>5 DEF WalkSound
  <2> QED BY <2>2, <2>6 DEF VerifyExact
<1>5. CASE VerifyRow
  BY <1>5, WalkRow
<1>6. CASE VerifyEnd
  <2> DEFINE res == IF torn THEN Unreadable ELSE Intact
  <2>1. /\ walk' = Finished(res) /\ UNCHANGED <<log, edited>>
        /\ walk.on /\ walk.at > WalkEnd
    BY <1>6 DEF VerifyEnd, appendVars
  <2>2. ~walk'.on /\ walk'.scope = walk.scope /\ walk'.result \in {Intact, Unreadable}
    BY <2>1 DEF Finished, NewWalk
  <2>3. walk.at \in Nat /\ walk.limit \in 0..Len(log) /\ walk.limit <= WalkEnd /\ WalkEnd \in Nat
    BY <1>0 DEF WalkEnd, Walks
  <2>4. {i \in DOMAIN log : InScope(log[i], walk.scope)} \cap edited = {}
    <3> SUFFICES ASSUME NEW i \in edited, i \in DOMAIN log, InScope(log[i], walk.scope)
                 PROVE  FALSE
      OBVIOUS
    <3>1. i \in 1..walk.limit
      BY <2>1 DEF WalkSound
    <3>2. i < walk.at
      BY <2>1, <2>3, <3>1
    <3> QED BY <2>1, <3>2 DEF WalkSound, Scoped
  <2>5. VerifyExact'
    BY <2>1, <2>2, <2>4 DEF VerifyExact
  <2> QED BY <2>2, <2>5 DEF WalkSound
<1>7. ASSUME NEW i \in DOMAIN log, NEW r \in Records, EditRow(i, r)
      PROVE  WalkSound' /\ VerifyExact'
  <2>1. ~walk'.on /\ walk'.result = Unknown
    BY <1>7 DEF EditRow, IdleWalk, NewWalk
  <2> QED BY <2>1 DEF WalkSound, VerifyExact
<1> QED BY <1>2, <1>3, <1>4, <1>5, <1>6, <1>7 DEF Next

\* While appends go on, whichever tenant is walked: verify() and verify_tenant()
\* give the index of the first edited row in scope, and raise no false alarm.
THEOREM VerifyAlwaysExact == Serialised => (Spec => []VerifyExact)
<1> SUFFICES ASSUME Serialised PROVE Spec => []VerifyExact
  OBVIOUS
<1>1. Spec => []TypeOK
  BY TypeCorrect
<1>2. Spec => []ChainLinear
  BY ChainAlwaysLinear
<1>3. Init => WalkSound /\ VerifyExact
  BY DEF Init, IdleWalk, NewWalk, WalkSound, VerifyExact
<1> QED BY <1>1, <1>2, <1>3, WalkNext, PTL DEF Spec
=============================================================================
