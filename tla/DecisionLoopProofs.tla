------------------------- MODULE DecisionLoopProofs --------------------------
(* Proofs about DecisionLoop, for any source file and any number of        *)
(* decisions and restarts.                                                 *)
EXTENDS DecisionLoop, TLAPS, SequenceTheorems, FiniteSetTheorems,
        WellFoundedInduction

Steps == {"stopped", "next", "emit", "await", "record", "retry", "append",
          "append_raise", "account", "stopping"}
DecisionRecords ==
  [event : DOMAIN Source, fate : {"running", "done", "error", "cut"}]
RowRecords == [decision : Nat, verdict : Verdicts]

-----------------------------------------------------------------------------
(* Helpers.                                                                *)

\* A non-empty set of naturals has a least element.
LEMMA Least ==
  ASSUME NEW S \in SUBSET Nat, S # {}
  PROVE  \E i \in S : \A j \in S : i <= j
<1>1. PICK i \in S : \A j \in S : ~ (<<j, i>> \in OpToRel(<, Nat))
  BY WFMin, NatLessThanWellFounded
<1>2. \A j \in S : i <= j
  <2> TAKE j \in S
  <2>1. ~ (j < i)
    BY <1>1 DEF OpToRel
  <2> QED BY <2>1
<1> QED BY <1>2

\* The resume point is 0, or the first of the positions with the id.
LEMMA ResumePointFacts ==
  ASSUME NEW last, NEW n \in Nat
  PROVE  /\ ResumePoint(last, n) \in 0..n
         /\ ResumePoint(last, n) # 0 => Source[ResumePoint(last, n)] = last
         /\ \A j \in 1..n : Source[j] = last => ResumePoint(last, n) <= j
<1> DEFINE hits == {i \in 1..n : Source[i] = last}
<1>1. CASE hits = {}
  BY <1>1 DEF ResumePoint
<1>2. CASE hits # {}
  <2>1. hits \in SUBSET Nat
    OBVIOUS
  <2>2. \E i \in hits : \A j \in hits : i <= j
    <3> HIDE DEF hits
    <3> QED BY <1>2, <2>1, Least
  <2>3. ResumePoint(last, n) \in hits
        /\ \A j \in hits : ResumePoint(last, n) <= j
    BY <1>2, <2>2 DEF ResumePoint
  <2> QED BY <2>3
<1> QED BY <1>1, <1>2

\* Ending a decision changes its fate and nothing else.
LEMMA FateFacts ==
  ASSUME decisions \in Seq(DecisionRecords), NEW n \in 1..Len(decisions),
         NEW f \in {"running", "done", "error", "cut"}, Fate(n, f)
  PROVE  /\ decisions' \in Seq(DecisionRecords)
         /\ Len(decisions') = Len(decisions)
         /\ \A m \in 1..Len(decisions) :
              /\ decisions'[m].event = decisions[m].event
              /\ decisions'[m].fate = IF m = n THEN f ELSE decisions[m].fate
<1> DEFINE d == [decisions[n] EXCEPT !.fate = f]
<1>1. decisions[n] \in DecisionRecords
  BY ElementOfSeq
<1>2. d \in DecisionRecords /\ d.event = decisions[n].event /\ d.fate = f
  BY <1>1 DEF DecisionRecords
<1>3. decisions' = [decisions EXCEPT ![n] = d]
  BY DEF Fate
<1> HIDE DEF d
<1>4. /\ decisions' \in Seq(DecisionRecords) /\ Len(decisions') = Len(decisions)
      /\ \A m \in 1..Len(decisions) :
           decisions'[m] = IF m = n THEN d ELSE decisions[m]
  BY <1>2, <1>3, ExceptSeq
<1> QED BY <1>2, <1>4

\* Appending a row adds it at the end and leaves the others alone.
LEMMA PersistFacts ==
  ASSUME audit \in Seq(RowRecords), cur \in Nat, NEW v \in Verdicts, Persist(v)
  PROVE  /\ audit' \in Seq(RowRecords)
         /\ DOMAIN audit' = DOMAIN audit \cup {Len(audit) + 1}
         /\ Len(audit) + 1 \notin DOMAIN audit
         /\ audit'[Len(audit) + 1].decision = cur
         /\ audit'[Len(audit) + 1].verdict = v
         /\ \A i \in DOMAIN audit : audit'[i] = audit[i]
<1>1. Row(v) \in RowRecords /\ Row(v).decision = cur /\ Row(v).verdict = v
  BY DEF Row, RowRecords
<1>2. audit' = Append(audit, Row(v))
  BY DEF Persist
<1> HIDE DEF Row
<1>3. /\ audit' \in Seq(RowRecords) /\ Len(audit') = Len(audit) + 1
      /\ \A i \in 1..Len(audit) : audit'[i] = audit[i]
      /\ audit'[Len(audit) + 1] = Row(v)
  BY <1>1, <1>2, AppendProperties
<1>4. /\ DOMAIN audit = 1..Len(audit) /\ DOMAIN audit' = 1..Len(audit')
      /\ Len(audit) \in Nat
  BY <1>3, LenProperties
<1> QED BY <1>1, <1>3, <1>4

\* A new decision joins the end and leaves the others alone.
LEMMA DecideFacts ==
  ASSUME TypeOK, NEW refused \in BOOLEAN, Decide(refused)
  PROVE  /\ decisions' \in Seq(DecisionRecords)
         /\ Len(decisions') = Len(decisions) + 1
         /\ decisions'[Len(decisions) + 1] = [event |-> pos, fate |-> "running"]
         /\ \A m \in 1..Len(decisions) : decisions'[m] = decisions[m]
<1> DEFINE d == [event |-> pos, fate |-> "running"]
<1>1. Len(Source) \in Nat /\ DOMAIN Source = 1..Len(Source)
  BY SourceAssumption, LenProperties
<1>2. d \in DecisionRecords /\ decisions' = Append(decisions, d)
  BY <1>1 DEF Decide, TypeOK, DecisionRecords
<1>3. decisions \in Seq(DecisionRecords)
  BY DEF TypeOK, DecisionRecords
<1> HIDE DEF d
<1>4. /\ decisions' \in Seq(DecisionRecords)
      /\ Len(decisions') = Len(decisions) + 1
      /\ decisions'[Len(decisions) + 1] = d
      /\ \A m \in 1..Len(decisions) : decisions'[m] = decisions[m]
  BY <1>2, <1>3, AppendProperties
<1> QED BY <1>4 DEF d

-----------------------------------------------------------------------------
(* Types.                                                                  *)

\* Every step keeps the types.  The pipeline's own invariant is needed: a row
\* has a verdict because a decision that reaches an append has one.
LEMMA TypeNext == TypeOK /\ PipelineInv /\ [Next]_vars => TypeOK'
<1> SUFFICES ASSUME TypeOK, PipelineInv, [Next]_vars PROVE TypeOK'
  OBVIOUS
<1> USE DEF loopVars, pipeVars, auditVars, ricVars, history
<1>0. /\ Len(Source) \in Nat /\ DOMAIN Source = 1..Len(Source)
      /\ \A i \in DOMAIN Source : Source[i] \in EventIds
      /\ Len(decisions) \in Nat /\ decisions \in Seq(DecisionRecords)
      /\ Len(audit) \in Nat /\ audit \in Seq(RowRecords)
      /\ Fresh \in Checkpoints
      /\ \A m \in Decisions : decisions[m] \in DecisionRecords
  <2>1. decisions \in Seq(DecisionRecords) /\ audit \in Seq(RowRecords)
    BY DEF TypeOK, DecisionRecords, RowRecords
  <2>2. Fresh \in Checkpoints
    BY DEF Fresh, Checkpoints
  <2> QED BY <2>1, <2>2, SourceAssumption, LenProperties, ElementOfSeq DEF Decisions
<1>1. ASSUME NEW n \in size..Len(Source), NEW dry \in BOOLEAN, Start(n, dry)
      PROVE  TypeOK'
  <2>1. n \in Nat /\ n \in 0..Len(Source)
    BY <1>0, <1>1 DEF TypeOK
  <2>2. ResumePoint(disk.last, n) \in 0..n
    BY <2>1, ResumePointFacts
  <2>3. pos' \in 1..(size' + 1) /\ gauge' \in Nat /\ runs' \in Nat
    BY <1>0, <1>1, <2>1, <2>2 DEF Start, TypeOK
  <2> QED BY <1>1, <2>1, <2>3 DEF Start, TypeOK, Decisions
<1>2. CASE Signal
  BY <1>2 DEF Signal, TypeOK, Decisions
<1> DEFINE Halted == /\ pc' = "stopped" /\ size' = size
                     /\ pos' \in 1..(size' + 1)
                     /\ stop' \in BOOLEAN /\ dryRun' = dryRun
                     /\ mem' \in Checkpoints /\ gauge' \in Nat
                     /\ cur' = 0 /\ verdict' = "none" /\ reply' = "none"
<1>H. Halt => Halted
  <2>1. size \in Nat /\ 1 \in 1..(size + 1)
    BY <1>0 DEF TypeOK
  <2> SUFFICES ASSUME Halt PROVE Halted
    OBVIOUS
  <2>2. pos' \in 1..(size' + 1) /\ gauge' \in Nat
    BY <2>1 DEF Halt
  <2>3. mem' \in Checkpoints
    BY <1>0 DEF Halt
  <2>4. stop' \in BOOLEAN
    BY DEF Halt
  <2> QED BY <2>2, <2>3, <2>4, Zenon DEF Halt
<1> HIDE DEF Halted
<1>3. CASE Crash
  <2>1. /\ decisions' \in Seq(DecisionRecords)
        /\ Len(decisions') = Len(decisions)
    <3>1. CASE cur = 0
      BY <1>0, <1>3, <3>1 DEF Crash
    <3>2. CASE cur # 0
      BY <1>0, <1>3, <3>2, FateFacts DEF Crash, TypeOK
    <3> QED BY <3>1, <3>2
  <2>2. torn' \in BOOLEAN
    BY <1>3 DEF Crash, TypeOK
  <2>3. Decisions' = Decisions
    BY <2>1 DEF Decisions
  <2>4. Halted
    BY <1>3, <1>H DEF Crash
  <2> QED BY <1>3, <2>1, <2>2, <2>3, <2>4
          DEF Crash, TypeOK, DecisionRecords, Halted
<1>4. CASE LeaveLoop
  BY <1>4 DEF LeaveLoop, TypeOK, Decisions
<1>5. ASSUME NEW saved \in BOOLEAN, Shutdown(saved) PROVE TypeOK'
  <2>1. Halted
    BY <1>5, <1>H DEF Shutdown
  <2>2. disk' \in Checkpoints /\ lossy' \in BOOLEAN
    BY <1>5 DEF Shutdown, TypeOK
  <2>3. cur' \in 0..Len(decisions')
    BY <1>0, <1>5, <2>1 DEF Shutdown, Halted
  <2> QED BY <1>5, <2>1, <2>2, <2>3 DEF Shutdown, TypeOK, Decisions, Halted
<1>6. ASSUME NEW refused \in BOOLEAN, Decide(refused) PROVE TypeOK'
  <2>1. /\ decisions' \in Seq(DecisionRecords)
        /\ Len(decisions') = Len(decisions) + 1
    BY <1>6, DecideFacts
  <2>2. Decisions \subseteq Decisions' /\ cur' \in Decisions'
    BY <1>0, <1>6, <2>1 DEF Decisions, Decide
  <2> QED BY <1>0, <1>6, <2>1, <2>2 DEF Decide, TypeOK, DecisionRecords, Verdicts, Decisions
<1>P. CASE PlanRaises
  <2>1. pos' \in 1..(size' + 1) /\ ingested' \subseteq DOMAIN Source
    BY <1>0, <1>P DEF PlanRaises, TypeOK
  <2> QED BY <1>P, <2>1 DEF PlanRaises, TypeOK, Decisions
<1>7. CASE Put
  BY <1>7 DEF Put, TypeOK, Decisions
<1>8. ASSUME NEW where \in {"append", "append_raise", "record"}, NEW v \in Verdicts,
             pc \in {"emit", "await"}, Conclude(where, v)
      PROVE  TypeOK'
  BY <1>8 DEF Conclude, TypeOK, Decisions
<1>9. CASE BreakerRejects \/ PutFails \/ PutAnswered \/ EmitRaises
  BY <1>8, <1>9 DEF BreakerRejects, PutFails, PutAnswered, EmitRaises, Verdicts
\* The steps that append or fail to append a row.
<1>10. ASSUME NEW v \in Verdicts, Persist(v), cur # 0
       PROVE  /\ audit' \in Seq(RowRecords)
              /\ \A i \in DOMAIN audit' : audit'[i].decision \in Decisions
              /\ torn' \in BOOLEAN /\ unaudited' \subseteq Decisions
  <2>1. cur \in Nat /\ cur \in Decisions
    BY <1>0, <1>10 DEF TypeOK, Decisions
  <2>2. /\ audit' \in Seq(RowRecords)
        /\ DOMAIN audit' = DOMAIN audit \cup {Len(audit) + 1}
        /\ audit'[Len(audit) + 1].decision = cur
        /\ \A i \in DOMAIN audit : audit'[i] = audit[i]
    BY <1>0, <1>10, <2>1, PersistFacts
  <2>3. \A i \in DOMAIN audit : audit[i].decision \in Decisions
    BY DEF TypeOK
  <2>4. \A i \in DOMAIN audit' : audit'[i].decision \in Decisions
    BY <2>1, <2>2, <2>3
  <2> QED BY <1>10, <2>2, <2>4 DEF TypeOK, Persist
<1>11. ASSUME NEW given \in BOOLEAN, PersistFails(given), cur # 0
       PROVE  /\ audit' \in Seq(RowRecords)
              /\ \A i \in DOMAIN audit' : audit'[i].decision \in Decisions
              /\ torn' \in BOOLEAN /\ unaudited' \subseteq Decisions
  <2>1. audit' = audit /\ torn' \in BOOLEAN
    BY <1>11 DEF TypeOK, PersistFails
  <2>2. cur \in Decisions
    BY <1>0, <1>11 DEF TypeOK, Decisions
  <2>3. unaudited' \subseteq Decisions
    BY <1>11, <2>2 DEF TypeOK, PersistFails
  <2> QED BY <1>0, <2>1, <2>3 DEF TypeOK
<1> DEFINE Kept == /\ audit' \in Seq(RowRecords)
                   /\ \A i \in DOMAIN audit' : audit'[i].decision \in Decisions
                   /\ torn' \in BOOLEAN /\ unaudited' \subseteq Decisions
<1>12. ASSUME NEW v \in Verdicts, Kept, cur # 0, Return(v) PROVE TypeOK'
  BY <1>12 DEF Return, TypeOK, Decisions, RowRecords
<1>13. ASSUME Kept, cur # 0, Raise PROVE TypeOK'
  <2>1. /\ decisions' \in Seq(DecisionRecords)
        /\ Len(decisions') = Len(decisions)
    BY <1>0, <1>13, FateFacts DEF Raise, TypeOK
  <2> QED BY <1>0, <1>13, <2>1 DEF Raise, TypeOK, Decisions, RowRecords, DecisionRecords
<1>14. CASE Record \/ Retry \/ RetryFails \/ AppendVerdict
  <2>1. cur # 0
    BY <1>14 DEF TypeOK, Record, Retry, RetryFails, AppendVerdict
  <2>2. pc = "append" => verdict \in Verdicts
    BY DEF PipelineInv, Verdicts
  <2> QED BY <1>10, <1>11, <1>12, <1>14, <2>1, <2>2
          DEF Record, Retry, RetryFails, AppendVerdict, Verdicts
<1>15. CASE AppendVerdictFails \/ AppendBeforeRaise \/ AppendBeforeRaiseFails
  <2>1. cur # 0
    BY <1>15 DEF TypeOK, AppendVerdictFails, AppendBeforeRaise, AppendBeforeRaiseFails
  <2>2. pc = "append_raise" => verdict \in Verdicts
    BY DEF PipelineInv, Verdicts
  <2> QED BY <1>10, <1>11, <1>13, <1>15, <2>1, <2>2
          DEF AppendVerdictFails, AppendBeforeRaise, AppendBeforeRaiseFails
<1>16. CASE RecordFails
  <2>1. cur # 0
    BY <1>16 DEF TypeOK, RecordFails
  <2>2. Kept
    BY <1>11, <1>16, <2>1 DEF RecordFails
  <2> QED BY <1>16, <2>1, <2>2 DEF RecordFails, TypeOK, Decisions, RowRecords
<1>17. ASSUME NEW due \in BOOLEAN, NEW saved \in BOOLEAN, Account(due, saved)
       PROVE  TypeOK'
  <2>1. cur \in Decisions
    BY <1>0, <1>17 DEF Account, TypeOK, Decisions
  <2>2. /\ decisions' \in Seq(DecisionRecords)
        /\ Len(decisions') = Len(decisions)
    BY <1>0, <1>17, <2>1, FateFacts DEF Account, Decisions
  <2>3. Source[decisions[cur].event] \in EventIds
    BY <1>0, <2>1 DEF DecisionRecords
  <2>4. mem' \in Checkpoints /\ disk' \in Checkpoints
    <3>1. mem.processed + 1 \in Nat
          /\ mem.emitted + (IF verdict \in Shipped THEN 1 ELSE 0) \in Nat
      BY DEF TypeOK, Checkpoints
    <3>2. mem' \in Checkpoints
      BY <1>17, <2>3, <3>1 DEF Account, Checkpoints
    <3> QED BY <1>17, <3>2 DEF Account, TypeOK
  <2> QED BY <1>0, <1>17, <2>2, <2>4 DEF Account, TypeOK, Decisions, DecisionRecords
<1>18. ASSUME NEW n \in net, RicAccepts(n) \/ RicRefuses(n) PROVE TypeOK'
  BY <1>18 DEF RicAccepts, RicRefuses, Answer, TypeOK, Decisions
<1>19. CASE UNCHANGED vars
  BY <1>19 DEF vars, TypeOK, Decisions
<1> QED
  BY <1>1, <1>2, <1>3, <1>4, <1>5, <1>6, <1>P, <1>7, <1>9, <1>14, <1>15, <1>16, <1>17,
     <1>18, <1>19 DEF Next, Restart, Process, Pipeline

-----------------------------------------------------------------------------
(* The audit chain.                                                        *)

\* The rows of a decision after an append, and after a step that appends none.
LEMMA RowsAfter ==
  ASSUME TypeOK
  PROVE  /\ \A v \in Verdicts : Persist(v) =>
              \A n \in Nat :
                RowsOf(n)' = IF n = cur THEN RowsOf(n) \cup {Len(audit) + 1}
                             ELSE RowsOf(n)
         /\ audit' = audit => \A n \in Nat : RowsOf(n)' = RowsOf(n)
         /\ \A n \in Nat \ Decisions : RowsOf(n) = {}
<1>1. audit \in Seq(RowRecords) /\ cur \in Nat /\ Len(decisions) \in Nat
  BY LenProperties DEF TypeOK, RowRecords
<1>2. ASSUME NEW v \in Verdicts, Persist(v), NEW n \in Nat
      PROVE  RowsOf(n)' = IF n = cur THEN RowsOf(n) \cup {Len(audit) + 1}
                          ELSE RowsOf(n)
  <2>1. /\ DOMAIN audit' = DOMAIN audit \cup {Len(audit) + 1}
        /\ audit'[Len(audit) + 1].decision = cur
        /\ \A i \in DOMAIN audit : audit'[i] = audit[i]
    BY <1>1, <1>2, PersistFacts
  <2> QED BY <2>1 DEF RowsOf
<1>3. ASSUME audit' = audit, NEW n \in Nat PROVE RowsOf(n)' = RowsOf(n)
  BY <1>3 DEF RowsOf
<1>4. ASSUME NEW n \in Nat \ Decisions PROVE RowsOf(n) = {}
  BY DEF RowsOf, TypeOK
<1> QED BY <1>2, <1>3, <1>4

AuditInv == PipelineInv /\ VerdictsTrue /\ OneRowPerDecision

\* A step that appends no row and ends no decision keeps what is said of the
\* rows, as long as no refused policy is sent and the RIC drops none.
LEMMA QuietStep ==
  ASSUME TypeOK, VerdictsTrue, OneRowPerDecision,
         UNCHANGED <<audit, decisions, unaudited>>, live \subseteq live',
         live' \cup net' \subseteq live \cup net
  PROVE  VerdictsTrue' /\ OneRowPerDecision'
<1>1. \A n \in Nat : RowsOf(n)' = RowsOf(n)
  BY RowsAfter
<1>2. Decisions \subseteq Nat /\ Decisions' = Decisions
  BY LenProperties DEF TypeOK, Decisions
<1>3. VerdictsTrue'
  BY DEF VerdictsTrue
<1>4. OneRowPerDecision'
  BY <1>1, <1>2 DEF OneRowPerDecision
<1> QED BY <1>3, <1>4

\* What Persist and PersistFails leave behind for the decision that is being
\* recorded: it has one row, or none and it is known to be unaudited.
Settled ==
  /\ \A m \in Decisions :
       IF m = cur
       THEN /\ \A i, j \in RowsOf(m)' : i = j
            /\ (RowsOf(m)' = {}) <=> (m \in unaudited')
       ELSE RowsOf(m)' = RowsOf(m) /\ (m \in unaudited' <=> m \in unaudited)
  /\ VerdictsTrue'

\* An append that returns settles it.
LEMMA PersistSettles ==
  ASSUME TypeOK, AuditInv, cur # 0, pc # "account", UNCHANGED <<net, live>>,
         NEW v \in Verdicts, Persist(v),
         v \in Shipped => cur \in live,
         v \in {"blocked", "dry_run"} => cur \notin live \cup net
  PROVE  Settled
<1>1. audit \in Seq(RowRecords) /\ cur \in Nat /\ Decisions \subseteq Nat
  BY LenProperties DEF TypeOK, RowRecords, Decisions
<1>2. /\ DOMAIN audit' = DOMAIN audit \cup {Len(audit) + 1}
      /\ audit'[Len(audit) + 1].decision = cur
      /\ audit'[Len(audit) + 1].verdict = v
      /\ \A i \in DOMAIN audit : audit'[i] = audit[i]
  BY <1>1, PersistFacts
<1>3. RowsOf(cur) = {} /\ cur \notin unaudited
  BY DEF AuditInv, PipelineInv
<1>4. \A n \in Nat : RowsOf(n)' = IF n = cur THEN RowsOf(n) \cup {Len(audit) + 1}
                                  ELSE RowsOf(n)
  BY RowsAfter
<1>5. \A m \in Decisions : m = cur => RowsOf(m)' = {Len(audit) + 1}
  BY <1>1, <1>3, <1>4
<1>6. VerdictsTrue'
  BY <1>2 DEF AuditInv, VerdictsTrue
<1>7. unaudited' = unaudited
  BY DEF Persist
<1> QED BY <1>1, <1>3, <1>4, <1>5, <1>6, <1>7 DEF Settled

\* An append that raises settles it too.
LEMMA PersistFailsSettles ==
  ASSUME TypeOK, AuditInv, cur # 0, pc # "account", UNCHANGED <<net, live>>,
         PersistFails(TRUE)
  PROVE  Settled
<1>1. audit' = audit /\ unaudited' = unaudited \cup {cur}
  BY DEF PersistFails
<1>2. cur \in Nat /\ Decisions \subseteq Nat
  BY LenProperties DEF TypeOK, Decisions
<1>3. RowsOf(cur) = {}
  BY DEF AuditInv, PipelineInv
<1>4. \A m \in Decisions : m = cur => RowsOf(m)' = {}
  BY <1>1, <1>2, <1>3, RowsAfter
<1>5. VerdictsTrue'
  BY <1>1 DEF AuditInv, VerdictsTrue
<1> QED BY <1>1, <1>2, <1>4, <1>5, RowsAfter DEF Settled

\* Every step keeps what is known of the pipeline and of the rows.
LEMMA AuditNext == TypeOK /\ TypeOK' /\ AuditInv /\ [Next]_vars => AuditInv'
<1> SUFFICES ASSUME TypeOK, TypeOK', AuditInv, [Next]_vars PROVE AuditInv'
  OBVIOUS
<1> USE DEF loopVars, pipeVars, auditVars, ricVars, history
<1>0. /\ Len(decisions) \in Nat /\ Decisions \subseteq Nat /\ cur \in Nat
      /\ decisions \in Seq(DecisionRecords)
      /\ PipelineInv /\ VerdictsTrue /\ OneRowPerDecision
  BY LenProperties DEF TypeOK, Decisions, AuditInv, DecisionRecords
\* Between events nothing is known of a current decision.
<1>1. ASSUME cur' = 0, pc' \in {"stopped", "next", "stopping"}, reply' # "accepted"
      PROVE  PipelineInv'
  BY <1>1 DEF PipelineInv
<1>2. ASSUME NEW n \in size..Len(Source), NEW dry \in BOOLEAN, Start(n, dry)
      PROVE  AuditInv'
  <2>1. cur' = 0 /\ pc' = "next" /\ reply' # "accepted"
    BY <1>0, <1>2 DEF Start, TypeOK, PipelineInv
  <2>2. UNCHANGED <<audit, decisions, unaudited, live, net>>
    BY <1>2 DEF Start
  <2> QED BY <1>0, <1>1, <2>1, <2>2, QuietStep DEF AuditInv
<1>3. CASE Signal
  <2>1. UNCHANGED <<audit, decisions, unaudited, live, net, pc, cur, verdict, reply>>
    BY <1>3 DEF Signal
  <2>2. PipelineInv'
    BY <1>0, <2>1 DEF PipelineInv, RowsOf
  <2> QED BY <1>0, <2>1, <2>2, QuietStep DEF AuditInv
<1>4. CASE Crash
  <2>1. PipelineInv' /\ UNCHANGED <<audit, unaudited, live, net>>
    BY <1>1, <1>4 DEF Crash, Halt
  <2>2. VerdictsTrue'
    BY <1>0, <2>1 DEF VerdictsTrue
  <2>3. \A m \in Nat : RowsOf(m)' = RowsOf(m)
    BY <2>1, RowsAfter
  <2>4. CASE cur = 0
    <3>1. decisions' = decisions
      BY <1>4, <2>4 DEF Crash
    <3> QED BY <1>0, <2>1, <3>1, QuietStep DEF AuditInv
  <2>5. CASE cur # 0
    <3>1. cur \in 1..Len(decisions) /\ Fate(cur, "cut")
      BY <1>0, <1>4, <2>5 DEF Crash, TypeOK
    <3>2. /\ Len(decisions') = Len(decisions)
          /\ \A m \in Decisions :
               decisions'[m].fate = IF m = cur THEN "cut" ELSE decisions[m].fate
      BY <1>0, <3>1, FateFacts DEF Decisions
    <3>3. OneRowPerDecision'
      BY <1>0, <2>1, <2>3, <3>2 DEF OneRowPerDecision, Decisions
    <3> QED BY <2>1, <2>2, <3>3 DEF AuditInv
  <2> QED BY <2>4, <2>5
<1>5. CASE LeaveLoop
  <2>1. cur' = 0 /\ pc' = "stopping" /\ reply' # "accepted"
    BY <1>0, <1>5 DEF LeaveLoop, TypeOK, PipelineInv
  <2>2. UNCHANGED <<audit, decisions, unaudited, live, net>>
    BY <1>5 DEF LeaveLoop
  <2> QED BY <1>0, <1>1, <2>1, <2>2, QuietStep DEF AuditInv
<1>6. ASSUME NEW saved \in BOOLEAN, Shutdown(saved) PROVE AuditInv'
  <2>1. cur' = 0 /\ pc' = "stopped" /\ reply' # "accepted"
    BY <1>6 DEF Shutdown, Halt
  <2>2. UNCHANGED <<audit, decisions, unaudited, live, net>>
    BY <1>6 DEF Shutdown
  <2> QED BY <1>0, <1>1, <2>1, <2>2, QuietStep DEF AuditInv
<1>7. ASSUME NEW refused \in BOOLEAN, Decide(refused) PROVE AuditInv'
  <2>1. /\ Len(decisions') = Len(decisions) + 1
        /\ decisions'[Len(decisions) + 1].fate = "running"
        /\ \A m \in 1..Len(decisions) : decisions'[m] = decisions[m]
    BY <1>7, DecideFacts
  <2>2. /\ UNCHANGED <<audit, unaudited, live, net>>
        /\ cur' = Len(decisions) + 1 /\ cur' \in Nat \ Decisions
    BY <1>0, <1>7 DEF Decide, Decisions
  <2>3. \A m \in Nat : RowsOf(m)' = RowsOf(m)
    BY <2>2, RowsAfter
  <2>4. \A m \in Nat \ Decisions : RowsOf(m)' = {}
    BY <2>3, RowsAfter
  <2>5. cur' \notin unaudited' /\ cur' \notin net' \cup live'
    BY <2>2 DEF TypeOK
  <2>6. RowsOf(cur)' = {}
    BY <2>2 DEF RowsOf, TypeOK
  <2>7. PipelineInv'
    BY <1>0, <1>7, <2>1, <2>2, <2>5, <2>6 DEF Decide, PipelineInv
  <2>8. VerdictsTrue'
    BY <1>0, <2>2 DEF VerdictsTrue
  <2>9. OneRowPerDecision'
    <3> SUFFICES ASSUME NEW m \in Decisions'
                 PROVE  /\ \A i, j \in RowsOf(m)' : i = j
                        /\ decisions'[m].fate \in {"done", "error"} =>
                             (RowsOf(m)' = {}) <=> (m \in unaudited')
      BY DEF OneRowPerDecision
    <3>1. CASE m \in Decisions
      <4>1. RowsOf(m)' = RowsOf(m) /\ decisions'[m] = decisions[m]
        BY <1>0, <2>1, <2>3, <3>1 DEF Decisions
      <4> QED BY <1>0, <2>2, <3>1, <4>1 DEF OneRowPerDecision
    <3>2. CASE m \notin Decisions
      <4>1. m = Len(decisions) + 1 /\ m \in Nat
        BY <1>0, <2>1, <3>2 DEF Decisions
      <4> QED BY <2>1, <2>4, <3>2, <4>1
    <3> QED BY <3>1, <3>2
  <2> QED BY <2>7, <2>8, <2>9 DEF AuditInv
<1>P. CASE PlanRaises
  <2>1. cur' = 0 /\ pc' = "next" /\ reply' # "accepted"
    BY <1>0, <1>P DEF PlanRaises, TypeOK, PipelineInv
  <2>2. UNCHANGED <<audit, decisions, unaudited, live, net>>
    BY <1>P DEF PlanRaises
  <2> QED BY <1>0, <1>1, <2>1, <2>2, QuietStep DEF AuditInv
<1>8. CASE Put
  <2>1. /\ UNCHANGED <<audit, unaudited, decisions, live, cur, reply>>
        /\ net' = net \cup {cur} /\ pc' = "await" /\ cur \in Nat /\ cur # 0
        /\ RowsOf(cur) = {} /\ cur \notin unaudited /\ reply # "accepted"
    <3>1. cur # 0 /\ pc = "emit"
      BY <1>8 DEF Put, TypeOK
    <3>2. RowsOf(cur) = {} /\ cur \notin unaudited /\ reply # "accepted"
      BY <1>0, <3>1 DEF PipelineInv
    <3> QED BY <1>0, <1>8, <3>1, <3>2 DEF Put
  <2>2. RowsOf(cur)' = {}
    BY <2>1 DEF RowsOf
  <2>3. PipelineInv'
    BY <1>0, <2>1, <2>2 DEF PipelineInv
  <2>4. VerdictsTrue'
    BY <1>0, <2>1 DEF VerdictsTrue, RowsOf
  <2>5. OneRowPerDecision'
    BY <1>0, <2>1, RowsAfter DEF OneRowPerDecision, Decisions
  <2> QED BY <2>3, <2>4, <2>5 DEF AuditInv
<1>9. ASSUME NEW where \in {"append", "append_raise", "record"}, NEW v \in Verdicts,
             pc \in {"emit", "await"}, Conclude(where, v),
             IF where = "record" THEN cur \in live ELSE v = "emit_failed"
      PROVE  AuditInv'
  <2>1. /\ UNCHANGED <<audit, unaudited, decisions, live, net, cur>>
        /\ pc' = where /\ reply' = "none" /\ verdict' = v
    BY <1>9 DEF Conclude
  <2>2. RowsOf(cur)' = RowsOf(cur)
    BY <2>1 DEF RowsOf
  <2>3. PipelineInv'
    BY <1>0, <1>9, <2>1, <2>2 DEF PipelineInv
  <2> QED BY <1>0, <2>1, <2>3, QuietStep DEF AuditInv
<1>10. CASE BreakerRejects \/ PutFails \/ PutAnswered \/ EmitRaises
  <2>1. reply = "accepted" => cur \in live
    BY <1>0 DEF PipelineInv
  <2> QED BY <1>9, <1>10, <2>1
          DEF BreakerRejects, PutFails, PutAnswered, EmitRaises, Verdicts
\* The ways on from a decision that is settled.
<1>11. ASSUME NEW v \in Verdicts, Settled, cur # 0, reply # "accepted", Return(v)
       PROVE  AuditInv'
  <2>1. /\ UNCHANGED <<decisions, live, net, cur, reply>> /\ pc' = "account"
        /\ cur \in Decisions
    BY <1>0, <1>11 DEF Return, TypeOK, Decisions
  <2>2. RowsOf(cur)' = {} <=> cur' \in unaudited'
    BY <1>11, <2>1 DEF Settled, RowsOf
  <2>3. PipelineInv'
    BY <1>0, <1>11, <2>1, <2>2 DEF PipelineInv
  <2>4. OneRowPerDecision'
    BY <1>0, <1>11, <2>1 DEF OneRowPerDecision, Decisions, Settled, PipelineInv
  <2> QED BY <1>11, <2>3, <2>4 DEF AuditInv, Settled
<1>12. ASSUME Settled, cur # 0, reply # "accepted", Raise PROVE AuditInv'
  <2>1. cur \in 1..Len(decisions) /\ Fate(cur, "error")
    BY <1>0, <1>12 DEF Raise, TypeOK
  <2>2. /\ Len(decisions') = Len(decisions)
        /\ \A m \in Decisions :
             decisions'[m].fate = IF m = cur THEN "error" ELSE decisions[m].fate
    BY <1>0, <2>1, FateFacts DEF Decisions
  <2>3. PipelineInv'
    BY <1>1, <1>12 DEF Raise
  <2>4. OneRowPerDecision'
    BY <1>0, <1>12, <2>2 DEF OneRowPerDecision, Decisions, Settled
  <2> QED BY <1>12, <2>3, <2>4 DEF AuditInv, Settled
<1>13. CASE Record \/ Retry \/ RetryFails \/ AppendVerdict
  <2>1. /\ cur # 0 /\ pc # "account" /\ reply # "accepted"
        /\ UNCHANGED <<net, live>>
        /\ pc \in {"record", "retry"} => cur \in live
        /\ pc = "append" =>
             /\ verdict \in Verdicts \ Shipped
             /\ verdict \in {"blocked", "dry_run"} => cur \notin live \cup net
    BY <1>0, <1>13 DEF PipelineInv, TypeOK, Record, Retry, RetryFails, AppendVerdict,
                       Return, Verdicts, Shipped
  <2>2. CASE Record
    <3>1. Settled
      BY <2>1, <2>2, PersistSettles DEF Record, Verdicts, Shipped
    <3> QED BY <1>11, <2>1, <2>2, <3>1 DEF Record, Verdicts
  <2>3. CASE Retry
    <3>1. Settled
      BY <2>1, <2>3, PersistSettles DEF Retry, Verdicts, Shipped
    <3> QED BY <1>11, <2>1, <2>3, <3>1 DEF Retry, Verdicts
  <2>4. CASE RetryFails
    <3>1. Settled
      BY <2>1, <2>4, PersistFailsSettles DEF RetryFails
    <3> QED BY <1>11, <2>1, <2>4, <3>1 DEF RetryFails, Verdicts
  <2>5. CASE AppendVerdict
    <3>1. Settled
      BY <2>1, <2>5, PersistSettles DEF AppendVerdict
    <3> QED BY <1>11, <2>1, <2>5, <3>1 DEF AppendVerdict
  <2> QED BY <1>13, <2>2, <2>3, <2>4, <2>5
<1>14. CASE AppendVerdictFails \/ AppendBeforeRaise \/ AppendBeforeRaiseFails
  <2>1. /\ cur # 0 /\ pc # "account" /\ reply # "accepted"
        /\ UNCHANGED <<net, live>>
        /\ pc = "append_raise" => verdict = "emit_failed"
    BY <1>0, <1>14 DEF PipelineInv, TypeOK, AppendVerdictFails, AppendBeforeRaise,
                       AppendBeforeRaiseFails, Raise
  <2>2. CASE AppendBeforeRaise
    <3>1. Settled
      BY <2>1, <2>2, PersistSettles DEF AppendBeforeRaise, Verdicts, Shipped
    <3> QED BY <1>12, <2>1, <2>2, <3>1 DEF AppendBeforeRaise
  <2>3. CASE AppendVerdictFails \/ AppendBeforeRaiseFails
    <3>1. Settled
      BY <2>1, <2>3, PersistFailsSettles DEF AppendVerdictFails, AppendBeforeRaiseFails
    <3> QED BY <1>12, <2>1, <2>3, <3>1 DEF AppendVerdictFails, AppendBeforeRaiseFails
  <2> QED BY <1>14, <2>2, <2>3
<1>15. CASE RecordFails
  <2>1. /\ UNCHANGED <<audit, unaudited, decisions, live, net, cur, reply, verdict>>
        /\ pc = "record" /\ pc' = "retry"
    BY <1>15 DEF RecordFails, PersistFails
  <2>2. RowsOf(cur)' = RowsOf(cur)
    BY <2>1 DEF RowsOf
  <2>3. PipelineInv'
    BY <1>0, <2>1, <2>2 DEF PipelineInv
  <2> QED BY <1>0, <2>1, <2>3, QuietStep DEF AuditInv
<1>16. ASSUME NEW due \in BOOLEAN, NEW saved \in BOOLEAN, Account(due, saved)
       PROVE  AuditInv'
  <2>1. /\ UNCHANGED <<audit, unaudited, live, net, reply>> /\ cur' = 0
        /\ pc' \in {"stopping", "next"} /\ pc = "account"
        /\ cur \in 1..Len(decisions) /\ Fate(cur, "done")
    BY <1>0, <1>16 DEF Account, TypeOK
  <2>2. /\ Len(decisions') = Len(decisions)
        /\ \A m \in Decisions :
             decisions'[m].fate = IF m = cur THEN "done" ELSE decisions[m].fate
    BY <1>0, <2>1, FateFacts DEF Decisions
  <2>3. reply' # "accepted"
    BY <1>0, <2>1 DEF PipelineInv
  <2>4. PipelineInv'
    BY <1>1, <2>1, <2>3
  <2>5. VerdictsTrue'
    BY <1>0, <2>1 DEF VerdictsTrue
  <2>6. \A m \in Nat : RowsOf(m)' = RowsOf(m)
    BY <2>1, RowsAfter
  <2>7. RowsOf(cur) = {} <=> cur \in unaudited
    BY <1>0, <2>1 DEF PipelineInv
  <2>8. OneRowPerDecision'
    BY <1>0, <2>1, <2>2, <2>6, <2>7 DEF OneRowPerDecision, Decisions
  <2> QED BY <2>4, <2>5, <2>8 DEF AuditInv
<1>17. ASSUME NEW n \in net, RicAccepts(n) \/ RicRefuses(n) PROVE AuditInv'
  <2>1. /\ UNCHANGED <<audit, unaudited, decisions, cur, pc, verdict>>
        /\ live \subseteq live' /\ live' \cup net' \subseteq live \cup net
    BY <1>17 DEF RicAccepts, RicRefuses
  <2>2. reply' = "accepted" => pc = "await" /\ cur \in live'
    BY <1>0, <1>17 DEF RicAccepts, RicRefuses, Answer, PipelineInv
  <2>3. RowsOf(cur)' = RowsOf(cur)
    BY <2>1 DEF RowsOf
  <2>4. PipelineInv'
    BY <1>0, <2>1, <2>2, <2>3 DEF PipelineInv
  <2> QED BY <1>0, <2>1, <2>4, QuietStep DEF AuditInv
<1>18. CASE UNCHANGED vars
  <2>1. UNCHANGED <<audit, decisions, unaudited, live, net, pc, cur, verdict, reply>>
    BY <1>18 DEF vars
  <2>2. PipelineInv'
    BY <1>0, <2>1 DEF PipelineInv, RowsOf
  <2> QED BY <1>0, <2>1, <2>2, QuietStep DEF AuditInv
<1> QED
  BY <1>2, <1>3, <1>4, <1>5, <1>6, <1>7, <1>P, <1>8, <1>10, <1>13, <1>14, <1>15, <1>16,
     <1>17, <1>18 DEF Next, Restart, Process, Pipeline

-----------------------------------------------------------------------------
(* The reader and the checkpoint.                                          *)

\* A restart resumes behind events that were all handed to the pipeline.
LEMMA ResumeReached ==
  ASSUME TypeOK, ReaderInv, NEW n \in size..Len(Source)
  PROVE  1..ResumePoint(disk.last, n) \subseteq ingested
<1>1. n \in Nat /\ size \in Nat /\ size <= n /\ n <= Len(Source)
  BY SourceAssumption, LenProperties DEF TypeOK
<1> DEFINE r == ResumePoint(disk.last, n)
<1>2. /\ r \in 0..n /\ (r # 0 => Source[r] = disk.last)
      /\ \A j \in 1..n : Source[j] = disk.last => r <= j
  BY <1>1, ResumePointFacts
<1> HIDE DEF r
<1>3. CASE disk.last = NoEvent
  <2>1. r # 0 => Source[r] \in EventIds
    BY <1>1, <1>2, SourceAssumption, ElementOfSeq
  <2>2. r = 0
    BY <1>2, <1>3, <2>1, SourceAssumption
  <2> QED BY <2>2 DEF r
<1>4. CASE disk.last # NoEvent
  <2>1. PICK j \in ingested : Source[j] = disk.last /\ 1..j \subseteq ingested
    BY <1>4 DEF ReaderInv, Reached
  <2>2. j \in 1..n
    BY <1>1, <2>1 DEF ReaderInv
  <2>3. r <= j
    BY <1>2, <2>1, <2>2
  <2>4. 1..r \subseteq 1..j
    BY <1>2, <2>2, <2>3
  <2> QED BY <2>1, <2>4 DEF r
<1> QED BY <1>3, <1>4

\* What has been reached stays reached.
LEMMA ReachedGrows ==
  ASSUME NEW last, Reached(last), ingested \subseteq ingested'
  PROVE  last = NoEvent \/ \E j \in ingested' : Source[j] = last /\ 1..j \subseteq ingested'
BY DEF Reached

\* Every step keeps the reader behind what was handed to the pipeline, and the
\* checkpoints behind the reader.
LEMMA ReaderNext == TypeOK /\ TypeOK' /\ ReaderInv /\ [Next]_vars => ReaderInv'
<1> SUFFICES ASSUME TypeOK, TypeOK', ReaderInv, [Next]_vars PROVE ReaderInv'
  OBVIOUS
<1> USE DEF loopVars, pipeVars, auditVars, ricVars, history
<1>0. /\ Len(Source) \in Nat /\ size \in Nat /\ pos \in Nat /\ cur \in Nat
      /\ Len(decisions) \in Nat /\ decisions \in Seq(DecisionRecords)
      /\ ingested \subseteq 1..size
      /\ Reached(mem.last) /\ Reached(disk.last)
  BY SourceAssumption, LenProperties DEF TypeOK, ReaderInv, DecisionRecords
<1>1. Reached(Fresh.last)
  BY DEF Reached, Fresh
<1>2. ASSUME NEW n \in size..Len(Source), NEW dry \in BOOLEAN, Start(n, dry)
      PROVE  ReaderInv'
  <2>1. 1..ResumePoint(disk.last, n) \subseteq ingested
    BY ResumeReached
  <2>2. /\ pos' = ResumePoint(disk.last, n) + 1 /\ size' = n /\ pc' = "next"
        /\ UNCHANGED <<ingested, disk, cur>> /\ mem' = disk /\ cur = 0
    BY <1>2 DEF Start, TypeOK
  <2>3. ResumePoint(disk.last, n) \in Nat
    BY <1>0, ResumePointFacts
  <2>4. 1..(pos' - 1) \subseteq ingested'
    BY <2>1, <2>2, <2>3
  <2>5. ingested' \subseteq 1..size'
    BY <1>0, <2>2
  <2>6. Reached(mem.last)' /\ Reached(disk.last)'
    BY <1>0, <2>2 DEF Reached
  <2> QED BY <2>2, <2>4, <2>5, <2>6 DEF ReaderInv
\* The steps that stop the process.
<1>3. ASSUME Halt, ingested' = ingested, disk' \in {mem, disk} PROVE ReaderInv'
  <2>1. Reached(mem.last)' /\ Reached(disk.last)'
    BY <1>0, <1>1, <1>3 DEF Halt, Reached
  <2> QED BY <1>0, <1>3, <2>1 DEF ReaderInv, Halt
<1>4. CASE Crash
  BY <1>3, <1>4 DEF Crash
<1>5. ASSUME NEW saved \in BOOLEAN, Shutdown(saved) PROVE ReaderInv'
  BY <1>3, <1>5 DEF Shutdown
<1>6. ASSUME NEW refused \in BOOLEAN, Decide(refused) PROVE ReaderInv'
  <2>1. /\ ingested' = ingested \cup {pos} /\ pos' = pos + 1 /\ pos \in 1..size
        /\ UNCHANGED <<size, mem, disk>> /\ pc # "stopped"
        /\ cur' = Len(decisions) + 1
    BY <1>0, <1>6 DEF Decide, TypeOK
  <2>2. decisions'[cur'].event = pos
    BY <1>6, <2>1, DecideFacts
  <2>3. 1..(pos - 1) \subseteq ingested
    BY <2>1 DEF ReaderInv
  <2>4. 1..(pos' - 1) \subseteq ingested'
    BY <1>0, <2>1, <2>3
  <2>5. Reached(mem.last)' /\ Reached(disk.last)'
    <3>1. ingested \subseteq ingested'
      BY <2>1
    <3> QED BY <1>0, <2>1, <3>1, ReachedGrows DEF Reached
  <2>6. ingested' \subseteq 1..size'
    BY <1>0, <2>1
  <2>7. decisions'[cur'].event < pos'
    BY <1>0, <2>1, <2>2
  <2> QED BY <2>4, <2>5, <2>6, <2>7 DEF ReaderInv
<1>P. CASE PlanRaises
  <2>1. /\ ingested' = ingested \cup {pos} /\ pos' = pos + 1 /\ pos \in 1..size
        /\ UNCHANGED <<size, mem, disk>> /\ pc # "stopped"
        /\ cur' = 0
    BY <1>0, <1>P DEF PlanRaises, TypeOK
  <2>2. 1..(pos - 1) \subseteq ingested
    BY <2>1 DEF ReaderInv
  <2>3. 1..(pos' - 1) \subseteq ingested'
    BY <1>0, <2>1, <2>2
  <2>4. Reached(mem.last)' /\ Reached(disk.last)'
    <3>1. ingested \subseteq ingested'
      BY <2>1
    <3> QED BY <1>0, <2>1, <3>1, ReachedGrows DEF Reached
  <2>5. ingested' \subseteq 1..size'
    BY <1>0, <2>1
  <2> QED BY <2>1, <2>3, <2>4, <2>5 DEF ReaderInv
<1>7. ASSUME NEW due \in BOOLEAN, NEW saved \in BOOLEAN, Account(due, saved)
      PROVE  ReaderInv'
  <2> DEFINE e == decisions[cur].event
  <2>1. /\ UNCHANGED <<ingested, size, pos>> /\ cur' = 0 /\ pc # "stopped"
        /\ mem'.last = Source[e] /\ disk' \in {mem', disk}
    BY <1>7 DEF Account
  <2>2. cur \in 1..Len(decisions) /\ cur # 0
    BY <1>0, <1>7 DEF Account, TypeOK
  <2>3. e \in 1..Len(Source) /\ e < pos
    <3>1. decisions[cur] \in DecisionRecords
      BY <1>0, <2>2, ElementOfSeq
    <3>2. DOMAIN Source = 1..Len(Source)
      BY SourceAssumption, LenProperties
    <3> QED BY <2>2, <3>1, <3>2 DEF DecisionRecords, ReaderInv
  <2>4. 1..(pos - 1) \subseteq ingested
    BY <2>1 DEF ReaderInv
  <2> HIDE DEF e
  <2>5. e \in ingested /\ 1..e \subseteq ingested
    BY <1>0, <2>3, <2>4
  <2>6. Reached(mem.last)'
    BY <2>1, <2>5 DEF Reached
  <2>7. Reached(disk.last)'
    BY <1>0, <2>1, <2>6 DEF Reached
  <2> QED BY <1>0, <2>1, <2>4, <2>6, <2>7 DEF ReaderInv
<1>8. ASSUME cur # 0, Raise PROVE ReaderInv'
  <2>1. UNCHANGED <<ingested, size, pos, mem, disk>> /\ cur' = 0 /\ pc # "stopped"
    BY <1>8 DEF Raise, TypeOK
  <2>2. Reached(mem.last)' /\ Reached(disk.last)'
    BY <1>0, <2>1 DEF Reached
  <2> QED BY <1>0, <2>1, <2>2 DEF ReaderInv
<1>9. CASE AppendVerdictFails \/ AppendBeforeRaise \/ AppendBeforeRaiseFails
  <2>1. cur # 0
    BY <1>9 DEF TypeOK, AppendVerdictFails, AppendBeforeRaise, AppendBeforeRaiseFails
  <2> QED BY <1>8, <1>9, <2>1
          DEF AppendVerdictFails, AppendBeforeRaise, AppendBeforeRaiseFails
\* The steps that move neither the reader nor the checkpoints.
<1>10. ASSUME UNCHANGED <<ingested, size, pos, mem, disk, cur, decisions>>,
              pc = "stopped" => pc' = "stopped"
       PROVE  ReaderInv'
  <2>1. Reached(mem.last)' /\ Reached(disk.last)'
    BY <1>0, <1>10 DEF Reached
  <2> QED BY <1>0, <1>10, <2>1 DEF ReaderInv
<1>11. CASE Signal \/ LeaveLoop \/ Put \/ BreakerRejects \/ PutFails \/ PutAnswered
            \/ EmitRaises
  BY <1>10, <1>11 DEF Signal, LeaveLoop, Put, BreakerRejects, PutFails, PutAnswered,
                      EmitRaises, Conclude
<1>12. CASE Record \/ RecordFails \/ Retry \/ RetryFails \/ AppendVerdict
  BY <1>10, <1>12 DEF Record, RecordFails, Retry, RetryFails, AppendVerdict, Return
<1>13. ASSUME NEW n \in net, RicAccepts(n) \/ RicRefuses(n) PROVE ReaderInv'
  BY <1>10, <1>13 DEF RicAccepts, RicRefuses
<1>14. CASE UNCHANGED vars
  BY <1>10, <1>14 DEF vars
<1> QED
  BY <1>2, <1>4, <1>5, <1>6, <1>P, <1>7, <1>9, <1>11, <1>12, <1>13, <1>14
     DEF Next, Restart, Process, Pipeline

-----------------------------------------------------------------------------
(* The theorems.                                                           *)

LoopInv == TypeOK /\ AuditInv /\ ReaderInv

\* The initial states satisfy the inductive invariant.
LEMMA LoopInit == Init => LoopInv
<1> SUFFICES ASSUME Init PROVE LoopInv
  OBVIOUS
<1>1. /\ Len(Source) \in Nat /\ Len(decisions) = 0 /\ DOMAIN audit = {}
      /\ Fresh \in Checkpoints
  BY SourceAssumption, LenProperties DEF Init, Fresh, Checkpoints
<1>2. size \in 0..Len(Source) /\ pos \in 1..(size + 1) /\ cur \in 0..Len(decisions)
  BY <1>1 DEF Init
<1>3. TypeOK
  <2>1. decisions \in Seq(DecisionRecords) /\ audit \in Seq(RowRecords)
    BY EmptySeq DEF Init
  <2>2. mem \in Checkpoints /\ disk \in Checkpoints /\ gauge \in Nat /\ runs \in Nat
    BY <1>1 DEF Init
  <2>3. /\ (cur = 0) <=> (pc \in {"stopped", "next", "stopping"})
        /\ stop \in BOOLEAN /\ dryRun \in BOOLEAN /\ torn \in BOOLEAN
        /\ lossy \in BOOLEAN
    BY DEF Init
  <2> QED BY <1>1, <1>2, <2>1, <2>2, <2>3
          DEF Init, TypeOK, DecisionRecords, RowRecords
<1>4. AuditInv
  BY <1>1 DEF Init, AuditInv, PipelineInv, VerdictsTrue, OneRowPerDecision, Decisions
<1>5. ReaderInv
  BY DEF Init, ReaderInv, Reached, Fresh
<1> QED BY <1>3, <1>4, <1>5 DEF LoopInv

\* The inductive invariant holds of every reachable state.
LEMMA LoopInvariant == Spec => []LoopInv
<1>1. LoopInv /\ [Next]_vars => LoopInv'
  BY TypeNext, AuditNext, ReaderNext DEF LoopInv, AuditInv
<1> QED BY LoopInit, <1>1, PTL DEF Spec

\* The daemon, the pipeline, the RIC and the audit file keep to their types,
\* whatever fails and however often the process is started.
THEOREM LoopTypeCorrect == Spec => []TypeOK
<1>1. LoopInv => TypeOK
  BY DEF LoopInv
<1> QED BY LoopInvariant, <1>1, PTL

\* The audit chain never claims too much: a record of an accepted policy is of
\* one that the RIC took, a refused or held back one was never sent.
THEOREM VerdictsAlwaysTrue == Spec => []VerdictsTrue
<1>1. LoopInv => VerdictsTrue
  BY DEF LoopInv, AuditInv
<1> QED BY LoopInvariant, <1>1, PTL

\* No decision has two rows, and one that process_event has ended has none only
\* if its last append raised.
THEOREM OneRowAlways == Spec => []OneRowPerDecision
<1>1. LoopInv => OneRowPerDecision
  BY DEF LoopInv, AuditInv
<1> QED BY LoopInvariant, <1>1, PTL

\* No restart skips an event that was never handed to the pipeline, for any
\* source file, one with repeated event ids included.
THEOREM NoEventEverSkipped == Spec => []NoEventSkipped
<1>1. LoopInv => NoEventSkipped
  <2> SUFFICES ASSUME LoopInv, NEW n \in size..Len(Source),
                      NEW i \in 1..ResumePoint(disk.last, n)
               PROVE  i \in ingested
    BY DEF NoEventSkipped
  <2> QED BY ResumeReached DEF LoopInv
<1> QED BY LoopInvariant, <1>1, PTL

-----------------------------------------------------------------------------
(* What a restart finds.                                                   *)

\* A decision keeps its event for good, and its fate once it has ended; no
\* policy is taken back and no failed append forgotten.
LEMMA DecisionsKept ==
  ASSUME LoopInv, [Next]_vars
  PROVE  /\ Decisions \subseteq Decisions'
         /\ live \subseteq live' /\ unaudited \subseteq unaudited'
         /\ \A m \in Decisions :
              /\ decisions'[m].event = decisions[m].event
              /\ decisions[m].fate # "running" =>
                   decisions'[m].fate = decisions[m].fate
<1> USE DEF loopVars, pipeVars, auditVars, ricVars, history
<1> DEFINE Kept == /\ Decisions \subseteq Decisions'
                   /\ \A m \in Decisions :
                        /\ decisions'[m].event = decisions[m].event
                        /\ decisions[m].fate # "running" =>
                             decisions'[m].fate = decisions[m].fate
<1>0. /\ decisions \in Seq(DecisionRecords) /\ Len(decisions) \in Nat
      /\ cur \in 0..Len(decisions) /\ Decisions = 1..Len(decisions)
      /\ cur # 0 => decisions[cur].fate = "running"
  BY LenProperties DEF LoopInv, TypeOK, DecisionRecords, Decisions, AuditInv, PipelineInv
<1>1. decisions' = decisions => Kept
  BY DEF Decisions
<1>2. ASSUME NEW f \in {"done", "error", "cut"}, cur # 0, Fate(cur, f) PROVE Kept
  <2>1. cur \in 1..Len(decisions)
    BY <1>0, <1>2
  <2>2. /\ Len(decisions') = Len(decisions)
        /\ \A m \in 1..Len(decisions) :
              /\ decisions'[m].event = decisions[m].event
              /\ decisions'[m].fate = IF m = cur THEN f ELSE decisions[m].fate
    BY <1>0, <1>2, <2>1, FateFacts
  <2> QED BY <1>0, <1>2, <2>2 DEF Decisions
<1>3. ASSUME NEW refused \in BOOLEAN, Decide(refused) PROVE Kept
  <2>1. /\ Len(decisions') = Len(decisions) + 1
        /\ \A m \in 1..Len(decisions) : decisions'[m] = decisions[m]
    BY <1>3, DecideFacts DEF LoopInv
  <2> QED BY <1>0, <2>1 DEF Decisions
<1>4. CASE Crash
  <2>1. Kept
    BY <1>1, <1>2, <1>4 DEF Crash
  <2> QED BY <1>4, <2>1 DEF Crash
<1>5. ASSUME cur # 0, Raise PROVE Kept /\ live' = live
  BY <1>2, <1>5 DEF Raise
<1>6. CASE AppendVerdictFails \/ AppendBeforeRaise \/ AppendBeforeRaiseFails
  <2>1. cur # 0
    BY <1>6 DEF LoopInv, TypeOK, AppendVerdictFails, AppendBeforeRaise,
                AppendBeforeRaiseFails
  <2>2. unaudited \subseteq unaudited'
    BY <1>6 DEF AppendVerdictFails, AppendBeforeRaise, AppendBeforeRaiseFails,
                Persist, PersistFails
  <2> QED BY <1>5, <1>6, <2>1, <2>2
          DEF AppendVerdictFails, AppendBeforeRaise, AppendBeforeRaiseFails
<1>7. ASSUME NEW due \in BOOLEAN, NEW saved \in BOOLEAN, Account(due, saved)
      PROVE  Kept /\ live' = live /\ unaudited' = unaudited
  BY <1>2, <1>7 DEF Account, LoopInv, TypeOK
<1>8. CASE Record \/ RecordFails \/ Retry \/ RetryFails \/ AppendVerdict
  <2>1. decisions' = decisions /\ live' = live
    BY <1>8 DEF Record, RecordFails, Retry, RetryFails, AppendVerdict, Return
  <2>2. unaudited \subseteq unaudited'
    BY <1>8 DEF Record, RecordFails, Retry, RetryFails, AppendVerdict, Persist,
                PersistFails
  <2> QED BY <1>1, <2>1, <2>2
<1>9. CASE Signal \/ LeaveLoop \/ Put \/ BreakerRejects \/ PutFails \/ PutAnswered
           \/ EmitRaises \/ PlanRaises
  BY <1>1, <1>9 DEF Signal, LeaveLoop, Put, BreakerRejects, PutFails, PutAnswered,
                    EmitRaises, PlanRaises, Conclude
<1>10. CASE Restart \/ \E saved \in BOOLEAN : Shutdown(saved)
  BY <1>1, <1>10 DEF Restart, Start, Shutdown
<1>11. ASSUME NEW n \in net, RicAccepts(n) \/ RicRefuses(n)
       PROVE  Kept /\ live \subseteq live' /\ unaudited' = unaudited
  BY <1>1, <1>11 DEF RicAccepts, RicRefuses
<1>12. CASE UNCHANGED vars
  BY <1>1, <1>12 DEF vars
<1>13. ASSUME NEW refused \in BOOLEAN, Decide(refused)
       PROVE  Kept /\ live' = live /\ unaudited' = unaudited
  BY <1>3, <1>13 DEF Decide
<1> HIDE DEF Kept
<1>14. Kept /\ live \subseteq live' /\ unaudited \subseteq unaudited'
  BY <1>4, <1>6, <1>7, <1>8, <1>9, <1>10, <1>11, <1>12, <1>13
     DEF Next, Process, Pipeline, Kept
<1> QED BY <1>14 DEF Kept

\* Every append so far succeeded and every event was processed to its end.
AllAudited == unaudited = {} /\ \A n \in Decisions : decisions[n].fate # "error"

\* The gauge is one behind between the append and the daemon's accounts.
GaugeInv ==
  pc # "stopped" /\ AllAudited =>
    Len(audit) = IF pc = "account" THEN gauge + 1 ELSE gauge

\* Every step keeps the gauge with the audit chain.
LEMMA GaugeNext == LoopInv /\ GaugeInv /\ [Next]_vars => GaugeInv'
<1> SUFFICES ASSUME LoopInv, GaugeInv, [Next]_vars, pc' # "stopped", AllAudited'
             PROVE  Len(audit') = IF pc' = "account" THEN gauge' + 1 ELSE gauge'
  BY DEF GaugeInv
<1> USE DEF loopVars, pipeVars, auditVars, ricVars, history
<1>0. /\ audit \in Seq(RowRecords) /\ Len(audit) \in Nat /\ gauge \in Nat
      /\ cur # 0 => cur \in Decisions
      /\ Decisions \subseteq Decisions'
      /\ cur = 0 <=> pc \in {"stopped", "next", "stopping"}
  <2>1. /\ audit \in Seq(RowRecords) /\ Len(audit) \in Nat /\ gauge \in Nat
        /\ Len(decisions) \in Nat
        /\ cur = 0 <=> pc \in {"stopped", "next", "stopping"}
    BY LenProperties DEF LoopInv, TypeOK, RowRecords
  <2>2. cur # 0 => cur \in Decisions
    BY <2>1 DEF LoopInv, TypeOK, Decisions
  <2> QED BY <2>1, <2>2, DecisionsKept
<1>1. AllAudited
  <2>1. unaudited = {}
    BY DecisionsKept DEF AllAudited
  <2>2. ASSUME NEW n \in Decisions PROVE decisions[n].fate # "error"
    BY DecisionsKept DEF AllAudited
  <2> QED BY <2>1, <2>2 DEF AllAudited
<1>2. pc # "stopped" => Len(audit) = IF pc = "account" THEN gauge + 1 ELSE gauge
  BY <1>1 DEF GaugeInv
<1>3. ASSUME NEW v, Persist(v) PROVE Len(audit') = Len(audit) + 1
  BY <1>0, <1>3 DEF Persist
<1>4. ASSUME PersistFails(TRUE), cur # 0 PROVE FALSE
  BY <1>4 DEF PersistFails, AllAudited
<1>5. ASSUME Raise, cur # 0 PROVE FALSE
  <2>1. /\ cur \in 1..Len(decisions) /\ decisions \in Seq(DecisionRecords)
        /\ Fate(cur, "error")
    BY <1>0, <1>5 DEF Raise, LoopInv, TypeOK, Decisions, DecisionRecords
  <2>2. decisions'[cur].fate = "error"
    BY <2>1, FateFacts
  <2> QED BY <1>0, <1>5, <2>2 DEF AllAudited
<1>6. CASE Record \/ Retry \/ RetryFails \/ AppendVerdict
  <2>1. pc # "stopped" /\ pc # "account" /\ cur # 0
    BY <1>0, <1>6 DEF Record, Retry, RetryFails, AppendVerdict
  <2>2. pc' = "account" /\ gauge' = gauge
    BY <1>6 DEF Record, Retry, RetryFails, AppendVerdict, Return
  <2>3. Len(audit') = Len(audit) + 1
    BY <1>3, <1>4, <1>6, <2>1 DEF Record, Retry, RetryFails, AppendVerdict
  <2> QED BY <1>0, <1>2, <2>1, <2>2, <2>3
<1>7. CASE AppendVerdictFails \/ AppendBeforeRaise \/ AppendBeforeRaiseFails
  <2>1. cur # 0
    BY <1>0, <1>7 DEF AppendVerdictFails, AppendBeforeRaise, AppendBeforeRaiseFails
  <2> QED BY <1>5, <1>7, <2>1
          DEF AppendVerdictFails, AppendBeforeRaise, AppendBeforeRaiseFails
<1>8. ASSUME NEW due \in BOOLEAN, NEW saved \in BOOLEAN, Account(due, saved)
      PROVE  Len(audit') = IF pc' = "account" THEN gauge' + 1 ELSE gauge'
  <2>1. /\ pc = "account" /\ pc' # "account" /\ gauge' = gauge + 1 /\ audit' = audit
    BY <1>8 DEF Account
  <2> QED BY <1>2, <2>1
<1>9. ASSUME NEW n, NEW dry, Start(n, dry)
      PROVE  Len(audit') = IF pc' = "account" THEN gauge' + 1 ELSE gauge'
  BY <1>9 DEF Start
<1>10. CASE Crash \/ \E saved \in BOOLEAN : Shutdown(saved)
  BY <1>10 DEF Crash, Shutdown, Halt
\* The other steps leave the chain, the gauge and the accounts alone.
<1>11. ASSUME UNCHANGED <<audit, gauge>>,
              pc' = pc \/ (pc' # "account" /\ pc # "account"),
              pc # "stopped"
       PROVE  Len(audit') = IF pc' = "account" THEN gauge' + 1 ELSE gauge'
  BY <1>2, <1>11
<1>12. CASE Signal \/ LeaveLoop \/ Put \/ BreakerRejects \/ PutFails \/ PutAnswered
            \/ EmitRaises \/ PlanRaises \/ RecordFails
  <2>1. /\ UNCHANGED <<audit, gauge>> /\ pc # "stopped"
        /\ pc' = pc \/ (pc' # "account" /\ pc # "account")
    BY <1>12 DEF Signal, LeaveLoop, Put, BreakerRejects, PutFails, PutAnswered,
                 EmitRaises, PlanRaises, Conclude, RecordFails, PersistFails
  <2> QED BY <1>11, <2>1
<1>13. ASSUME NEW refused \in BOOLEAN, Decide(refused)
       PROVE  Len(audit') = IF pc' = "account" THEN gauge' + 1 ELSE gauge'
  BY <1>11, <1>13 DEF Decide
<1>14. ASSUME NEW n \in net, RicAccepts(n) \/ RicRefuses(n)
       PROVE  Len(audit') = IF pc' = "account" THEN gauge' + 1 ELSE gauge'
  BY <1>11, <1>14 DEF RicAccepts, RicRefuses
<1>15. CASE UNCHANGED vars
  BY <1>11, <1>15 DEF vars
<1> QED
  BY <1>6, <1>7, <1>8, <1>9, <1>10, <1>12, <1>13, <1>14, <1>15
     DEF Next, Restart, Process, Pipeline

\* The policies the RIC has taken of decisions the daemon has accounted for.
DoneLive == {n \in live : decisions[n].fate = "done"}

\* A result that is counted as emitted is of a policy the RIC has taken, and
\* neither checkpoint counts more than there are.
EmittedInv ==
  /\ pc = "account" /\ verdict \in Shipped => cur \in live
  /\ mem.emitted <= Cardinality(DoneLive)
  /\ disk.emitted <= Cardinality(DoneLive)

\* The accounted live decisions are finitely many, and only become more.
LEMMA DoneLiveGrows ==
  ASSUME LoopInv, [Next]_vars, LoopInv'
  PROVE  /\ IsFiniteSet(DoneLive) /\ Cardinality(DoneLive) \in Nat
         /\ Cardinality(DoneLive)' \in Nat
         /\ Cardinality(DoneLive) <= Cardinality(DoneLive)'
         /\ \A n \in live' :
              n \notin DoneLive /\ decisions'[n].fate = "done" =>
                Cardinality(DoneLive) + 1 <= Cardinality(DoneLive)'
<1>1. DoneLive \subseteq DoneLive'
  <2> SUFFICES ASSUME NEW n \in DoneLive PROVE n \in DoneLive'
    OBVIOUS
  <2>1. n \in Decisions /\ n \in live /\ decisions[n].fate = "done"
    BY DEF DoneLive, LoopInv, TypeOK
  <2>2. n \in live' /\ decisions'[n].fate = "done"
    BY <2>1, DecisionsKept
  <2> QED BY <2>2 DEF DoneLive
<1>2. /\ DoneLive \subseteq 1..Len(decisions) /\ DoneLive' \subseteq 1..Len(decisions')
      /\ Len(decisions) \in Nat /\ Len(decisions') \in Nat
  BY LenProperties DEF DoneLive, LoopInv, TypeOK, Decisions
<1>3. IsFiniteSet(DoneLive) /\ IsFiniteSet(DoneLive')
  <2>1. IsFiniteSet(1..Len(decisions)) /\ IsFiniteSet(1..Len(decisions'))
    BY <1>2, FS_Interval
  <2> QED BY <1>2, <2>1, FS_Subset
<1>4. ASSUME NEW n \in live', n \notin DoneLive, decisions'[n].fate = "done"
      PROVE  Cardinality(DoneLive) + 1 <= Cardinality(DoneLive)'
  <2>1. DoneLive \cup {n} \subseteq DoneLive'
    BY <1>1, <1>4 DEF DoneLive
  <2>2. Cardinality(DoneLive \cup {n}) = Cardinality(DoneLive) + 1
    BY <1>3, <1>4, FS_AddElement
  <2>3. Cardinality(DoneLive \cup {n}) <= Cardinality(DoneLive')
    BY <1>3, <2>1, FS_Subset
  <2> QED BY <2>2, <2>3
<1>5. Cardinality(DoneLive) <= Cardinality(DoneLive')
  BY <1>1, <1>3, FS_Subset
<1>6. Cardinality(DoneLive) \in Nat /\ Cardinality(DoneLive') \in Nat
  BY <1>3, FS_CardinalityType
<1> QED BY <1>3, <1>4, <1>5, <1>6

\* Every step keeps the counters of the checkpoints behind the live policies.
LEMMA EmittedNext ==
  LoopInv /\ LoopInv' /\ EmittedInv /\ [Next]_vars => EmittedInv'
<1> SUFFICES ASSUME LoopInv, LoopInv', EmittedInv, [Next]_vars PROVE EmittedInv'
  OBVIOUS
<1> USE DEF loopVars, pipeVars, auditVars, ricVars, history
<1>0. /\ mem \in Checkpoints /\ disk \in Checkpoints
      /\ mem.emitted \in Nat /\ disk.emitted \in Nat
      /\ cur = 0 <=> pc \in {"stopped", "next", "stopping"}
      /\ PipelineInv
  BY DEF LoopInv, TypeOK, Checkpoints, AuditInv
<1> DEFINE C == Cardinality(DoneLive)
           D == Cardinality(DoneLive)'
<1>1. /\ C \in Nat /\ D \in Nat /\ C <= D /\ live \subseteq live'
      /\ \A n \in live' : n \notin DoneLive /\ decisions'[n].fate = "done" => C + 1 <= D
  BY DoneLiveGrows, DecisionsKept
<1>2. mem.emitted <= C /\ disk.emitted <= C
  BY DEF EmittedInv
<1>3. EmittedInv' <=> /\ pc' = "account" /\ verdict' \in Shipped => cur' \in live'
                      /\ mem'.emitted <= D /\ disk'.emitted <= D
  BY DEF EmittedInv
<1> HIDE DEF C, D
\* The counters stay, move from one checkpoint to the other or start anew.
<1>4. ASSUME mem' \in {mem, disk, Fresh}, disk' \in {mem, disk}
      PROVE  mem'.emitted <= D /\ disk'.emitted <= D
  <2>1. Fresh.emitted = 0
    BY DEF Fresh
  <2> QED BY <1>0, <1>1, <1>2, <1>4, <2>1
<1>5. ASSUME NEW n, NEW dry, Start(n, dry) PROVE EmittedInv'
  BY <1>3, <1>4, <1>5 DEF Start
<1>6. CASE Crash
  BY <1>3, <1>4, <1>6 DEF Crash, Halt
<1>7. ASSUME NEW saved \in BOOLEAN, Shutdown(saved) PROVE EmittedInv'
  BY <1>3, <1>4, <1>7 DEF Shutdown, Halt
<1>8. CASE Record \/ Retry \/ RetryFails \/ AppendVerdict
  <2>1. UNCHANGED <<mem, disk, cur, live>>
    BY <1>8 DEF Record, Retry, RetryFails, AppendVerdict, Return
  <2>2. verdict' \in Shipped => cur' \in live'
    BY <1>0, <1>8, <2>1 DEF PipelineInv, Record, Retry, RetryFails, AppendVerdict,
                            Return, Shipped
  <2> QED BY <1>3, <1>4, <2>1, <2>2
<1>9. ASSUME Raise PROVE EmittedInv'
  BY <1>3, <1>4, <1>9 DEF Raise
<1>10. CASE AppendVerdictFails \/ AppendBeforeRaise \/ AppendBeforeRaiseFails
  BY <1>9, <1>10 DEF AppendVerdictFails, AppendBeforeRaise, AppendBeforeRaiseFails
<1>11. ASSUME NEW due \in BOOLEAN, NEW saved \in BOOLEAN, Account(due, saved)
       PROVE  EmittedInv'
  <2> DEFINE k == IF verdict \in Shipped THEN 1 ELSE 0
  <2>1. /\ pc = "account" /\ pc' # "account" /\ mem'.emitted = mem.emitted + k
        /\ disk' \in {mem', disk} /\ live' = live /\ Fate(cur, "done")
    BY <1>11 DEF Account
  <2>2. /\ cur \in 1..Len(decisions) /\ decisions \in Seq(DecisionRecords)
        /\ decisions[cur].fate = "running"
    <3>1. cur # 0 /\ Len(decisions) \in Nat /\ decisions \in Seq(DecisionRecords)
      BY <1>0, <2>1, LenProperties DEF LoopInv, TypeOK, DecisionRecords
    <3> QED BY <1>0, <3>1 DEF LoopInv, TypeOK, PipelineInv
  <2>3. decisions'[cur].fate = "done" /\ cur \notin DoneLive
    BY <2>1, <2>2, FateFacts DEF DoneLive
  <2>4. verdict \in Shipped => cur \in live'
    BY <2>1 DEF EmittedInv
  <2>5. mem.emitted + k <= D
    <3>1. CASE verdict \in Shipped
      BY <1>0, <1>1, <1>2, <2>3, <2>4, <3>1
    <3>2. CASE verdict \notin Shipped
      BY <1>0, <1>1, <1>2, <3>2
    <3> QED BY <3>1, <3>2
  <2> HIDE DEF k
  <2>6. disk'.emitted <= D
    BY <1>0, <1>1, <1>2, <2>1, <2>5
  <2> QED BY <1>3, <2>1, <2>5, <2>6
<1>12. CASE Signal \/ LeaveLoop \/ Put \/ BreakerRejects \/ PutFails \/ PutAnswered
            \/ EmitRaises \/ PlanRaises \/ RecordFails
  <2>1. UNCHANGED <<mem, disk>> /\ (pc' # "account" \/ UNCHANGED <<pc, verdict, cur>>)
    BY <1>12 DEF Signal, LeaveLoop, Put, BreakerRejects, PutFails, PutAnswered,
                 EmitRaises, PlanRaises, Conclude, RecordFails, PersistFails
  <2>2. pc' = "account" /\ verdict' \in Shipped => cur' \in live'
    BY <1>1, <2>1 DEF EmittedInv
  <2> QED BY <1>3, <1>4, <2>1, <2>2
<1>13. ASSUME NEW refused \in BOOLEAN, Decide(refused) PROVE EmittedInv'
  BY <1>3, <1>4, <1>13 DEF Decide
<1>14. ASSUME NEW n \in net, RicAccepts(n) \/ RicRefuses(n) PROVE EmittedInv'
  <2>1. UNCHANGED <<mem, disk, pc, verdict, cur>>
    BY <1>14 DEF RicAccepts, RicRefuses
  <2> QED BY <1>1, <1>3, <1>4, <2>1 DEF EmittedInv
<1>15. CASE UNCHANGED vars
  <2>1. UNCHANGED <<mem, disk, pc, verdict, cur>>
    BY <1>15 DEF vars
  <2> QED BY <1>1, <1>3, <1>4, <2>1 DEF EmittedInv
<1> QED
  BY <1>5, <1>6, <1>7, <1>8, <1>10, <1>11, <1>12, <1>13, <1>14, <1>15
     DEF Next, Restart, Process, Pipeline

\* The checkpoint names an event of the file that is not before decision n's.
Behind(last, n) == \E j \in 1..size : Source[j] = last /\ decisions[n].event <= j

\* Of the decisions for one event all but one ended in an error, because what
\* was processed to its end lies behind the reader and behind the checkpoint a
\* restart begins with: the one in memory, or on disk when the process is gone.
OnceInv ==
  /\ cur # 0 => decisions[cur].event = pos - 1
  /\ \A n \in Decisions :
       /\ decisions[n].fate \in {"done", "error"} \/ n = cur
       /\ decisions[n].fate = "done" =>
            IF pc = "stopped" THEN Behind(disk.last, n)
            ELSE Behind(mem.last, n) /\ decisions[n].event < pos
  /\ \A m, n \in Decisions :
       m # n /\ decisions[m].event = decisions[n].event =>
         "error" \in {decisions[m].fate, decisions[n].fate}

\* With distinct ids the process resumes behind every event a checkpoint covers.
LEMMA ResumeBehind ==
  ASSUME DistinctIds, TypeOK, NEW n \in size..Len(Source), NEW m \in Decisions,
         Behind(disk.last, m)
  PROVE  decisions[m].event <= ResumePoint(disk.last, n)
<1>1. /\ n \in Nat /\ size \in Nat /\ size <= n /\ n <= Len(Source)
      /\ DOMAIN Source = 1..Len(Source) /\ Len(Source) \in Nat
  BY SourceAssumption, LenProperties DEF TypeOK
<1>2. PICK j \in 1..size : Source[j] = disk.last /\ decisions[m].event <= j
  BY DEF Behind
<1> DEFINE hits == {i \in 1..n : Source[i] = disk.last}
<1>3. j \in hits /\ \A i \in hits : i = j
  BY <1>1, <1>2 DEF DistinctIds
<1>4. hits # {} /\ ResumePoint(disk.last, n) =
         CHOOSE i \in hits : \A k \in hits : i <= k
  BY <1>3 DEF ResumePoint
<1>5. (CHOOSE i \in hits : \A k \in hits : i <= k) = j
  <2>1. j <= j
    BY <1>1
  <2> HIDE DEF hits
  <2>2. \E i \in hits : \A k \in hits : i <= k
    BY <1>3, <2>1
  <2> QED BY <1>3, <2>2
<1> QED BY <1>2, <1>4, <1>5

\* Every step that loses no checkpoint keeps it.
LEMMA OnceNext ==
  ASSUME DistinctIds, LoopInv, LoopInv', OnceInv, ~lossy, ~lossy', [Next]_vars
  PROVE  OnceInv'
<1> USE DEF loopVars, pipeVars, auditVars, ricVars, history
<1>0. /\ TypeOK /\ PipelineInv /\ ReaderInv
      /\ decisions \in Seq(DecisionRecords) /\ Len(decisions) \in Nat
      /\ Decisions = 1..Len(decisions) /\ cur \in 0..Len(decisions)
      /\ \A m \in Decisions : decisions[m].event \in Nat
      /\ pos \in Nat /\ size \in Nat /\ pos <= size + 1
      /\ cur = 0 <=> pc \in {"stopped", "next", "stopping"}
  <2>1. TypeOK /\ PipelineInv /\ ReaderInv /\ decisions \in Seq(DecisionRecords)
    BY DEF LoopInv, AuditInv, TypeOK, DecisionRecords
  <2>2. DOMAIN Source = 1..Len(Source) /\ Len(Source) \in Nat /\ Len(decisions) \in Nat
    BY <2>1, SourceAssumption, LenProperties
  <2>3. \A m \in Decisions : decisions[m].event \in Nat
    <3> SUFFICES ASSUME NEW m \in 1..Len(decisions) PROVE decisions[m].event \in Nat
      BY DEF Decisions
    <3>1. decisions[m] \in DecisionRecords
      BY <2>1, ElementOfSeq
    <3>2. decisions[m].event \in 1..Len(Source)
      BY <2>2, <3>1 DEF DecisionRecords
    <3> QED BY <2>2, <3>2
  <2> QED BY <2>1, <2>2, <2>3 DEF Decisions, TypeOK
\* The steps that leave the decisions, the reader and the checkpoints alone.
<1>1. ASSUME UNCHANGED <<decisions, cur, pos, size, mem, disk>>,
             pc = "stopped" <=> pc' = "stopped"
      PROVE  OnceInv'
  <2>1. /\ Decisions' = Decisions
        /\ \A n : (Behind(mem.last, n)' <=> Behind(mem.last, n))
                  /\ (Behind(disk.last, n)' <=> Behind(disk.last, n))
    BY <1>1 DEF Decisions, Behind
  <2> QED BY <1>1, <2>1 DEF OnceInv
<1>2. CASE Signal \/ LeaveLoop \/ Put \/ BreakerRejects \/ PutFails \/ PutAnswered
           \/ EmitRaises \/ RecordFails
  BY <1>1, <1>2 DEF Signal, LeaveLoop, Put, BreakerRejects, PutFails, PutAnswered,
                    EmitRaises, Conclude, RecordFails
<1>3. CASE Record \/ Retry \/ RetryFails \/ AppendVerdict
  BY <1>1, <1>3 DEF Record, Retry, RetryFails, AppendVerdict, Return
<1>4. ASSUME NEW n \in net, RicAccepts(n) \/ RicRefuses(n) PROVE OnceInv'
  BY <1>1, <1>4 DEF RicAccepts, RicRefuses
<1>5. CASE UNCHANGED vars
  BY <1>1, <1>5 DEF vars
<1>6. CASE Crash
  BY <1>6 DEF Crash
<1>7. ASSUME NEW saved \in BOOLEAN, Shutdown(saved) PROVE OnceInv'
  <2>1. /\ disk' = mem /\ pc = "stopping" /\ pc' = "stopped" /\ cur' = 0 /\ cur = 0
        /\ decisions' = decisions /\ size' = size
    BY <1>0, <1>7 DEF Shutdown, Halt
  <2>2. Decisions' = Decisions /\ \A n : Behind(disk.last, n)' <=> Behind(mem.last, n)
    BY <2>1 DEF Decisions, Behind
  <2> QED BY <2>1, <2>2 DEF OnceInv
<1>8. ASSUME NEW n \in size..Len(Source), NEW dry \in BOOLEAN, Start(n, dry)
      PROVE  OnceInv'
  <2>1. /\ mem' = disk /\ pc = "stopped" /\ pc' = "next" /\ cur' = cur /\ cur = 0
        /\ decisions' = decisions /\ size' = n /\ disk' = disk
        /\ pos' = ResumePoint(disk.last, n) + 1
    BY <1>0, <1>8 DEF Start
  <2>2. n \in Nat /\ size <= n
    BY <1>0, SourceAssumption, LenProperties
  <2>3. Decisions' = Decisions /\ \A m : Behind(disk.last, m) => Behind(mem.last, m)'
    BY <1>0, <2>1, <2>2 DEF Decisions, Behind
  <2>4. ResumePoint(disk.last, n) \in Nat
    BY <2>2, ResumePointFacts
  <2>5. ASSUME NEW m \in Decisions, Behind(disk.last, m) PROVE decisions[m].event < pos'
    <3>1. decisions[m].event <= ResumePoint(disk.last, n)
      BY <1>0, <2>5, ResumeBehind
    <3> QED BY <1>0, <2>1, <2>4, <3>1
  <2> QED BY <2>1, <2>3, <2>5 DEF OnceInv
<1>9. CASE PlanRaises
  <2>1. /\ UNCHANGED <<decisions, cur, size, mem, disk, pc>> /\ pos' = pos + 1
        /\ cur = 0 /\ pc # "stopped"
    BY <1>0, <1>9 DEF PlanRaises
  <2>2. Decisions' = Decisions /\ \A n : Behind(mem.last, n)' <=> Behind(mem.last, n)
    BY <2>1 DEF Decisions, Behind
  <2>3. \A n \in Decisions : decisions[n].event < pos => decisions[n].event < pos'
    BY <1>0, <2>1
  <2> QED BY <2>1, <2>2, <2>3 DEF OnceInv
<1>10. ASSUME NEW refused \in BOOLEAN, Decide(refused) PROVE OnceInv'
  <2>1. /\ UNCHANGED <<size, mem, disk>> /\ pos' = pos + 1 /\ cur = 0
        /\ cur' = Len(decisions) + 1 /\ pc # "stopped" /\ pc' # "stopped"
    BY <1>0, <1>10 DEF Decide
  <2>2. /\ Len(decisions') = Len(decisions) + 1
        /\ decisions'[cur'].event = pos /\ decisions'[cur'].fate = "running"
        /\ \A m \in Decisions : decisions'[m] = decisions[m]
    BY <1>0, <1>10, <2>1, DecideFacts
  <2>3. Decisions' = Decisions \cup {cur'} /\ cur' \notin Decisions
    BY <1>0, <2>1, <2>2 DEF Decisions
  <2>4. \A n \in Decisions : Behind(mem.last, n) => Behind(mem.last, n)'
    BY <2>1, <2>2 DEF Behind
  <2>5. \A n \in Decisions :
          /\ decisions[n].fate \in {"done", "error"}
          /\ decisions[n].fate = "done" =>
               /\ Behind(mem.last, n) /\ decisions[n].event < pos
               /\ decisions[n].event < pos' /\ decisions[n].event # pos
    <3>1. ASSUME NEW n \in Decisions
          PROVE  /\ decisions[n].fate \in {"done", "error"}
                 /\ decisions[n].fate = "done" =>
                      Behind(mem.last, n) /\ decisions[n].event < pos
      <4>1. n # cur
        BY <1>0, <2>1
      <4> QED BY <2>1, <4>1 DEF OnceInv
    <3>2. \A n \in Decisions : decisions[n].event < pos =>
            decisions[n].event < pos' /\ decisions[n].event # pos
      BY <1>0, <2>1
    <3> QED BY <3>1, <3>2
  <2>6. ASSUME NEW n \in Decisions'
        PROVE  /\ decisions'[n].fate \in {"done", "error"} \/ n = cur'
               /\ decisions'[n].fate = "done" =>
                    Behind(mem.last, n)' /\ decisions'[n].event < pos'
    BY <2>2, <2>3, <2>4, <2>5
  <2>7. ASSUME NEW m \in Decisions', NEW n \in Decisions', m # n,
               decisions'[m].event = decisions'[n].event
        PROVE  "error" \in {decisions'[m].fate, decisions'[n].fate}
    <3>1. CASE m \in Decisions /\ n \in Decisions
      BY <2>2, <2>7, <3>1 DEF OnceInv
    <3>2. CASE m = cur' /\ n \in Decisions
      BY <2>2, <2>5, <2>7, <3>2
    <3>3. CASE n = cur' /\ m \in Decisions
      BY <2>2, <2>5, <2>7, <3>3
    <3> QED BY <2>3, <2>7, <3>1, <3>2, <3>3
  <2>8. decisions'[cur'].event = pos' - 1
    BY <1>0, <2>1, <2>2
  <2> QED BY <2>1, <2>6, <2>7, <2>8 DEF OnceInv
<1>11. ASSUME cur # 0, Raise PROVE OnceInv'
  <2>1. /\ UNCHANGED <<size, pos, mem, disk>> /\ cur' = 0 /\ pc' # "stopped"
        /\ pc # "stopped" /\ cur \in 1..Len(decisions) /\ Fate(cur, "error")
    BY <1>0, <1>11 DEF Raise
  <2>2. /\ Len(decisions') = Len(decisions)
        /\ \A m \in Decisions :
             /\ decisions'[m].event = decisions[m].event
             /\ decisions'[m].fate = IF m = cur THEN "error" ELSE decisions[m].fate
    BY <1>0, <2>1, FateFacts
  <2>3. Decisions' = Decisions
    BY <2>2 DEF Decisions
  <2>4. \A n \in Decisions : Behind(mem.last, n) => Behind(mem.last, n)'
    BY <2>1, <2>2 DEF Behind
  <2> QED BY <2>1, <2>2, <2>3, <2>4 DEF OnceInv
<1>12. CASE AppendVerdictFails \/ AppendBeforeRaise \/ AppendBeforeRaiseFails
  BY <1>0, <1>11, <1>12
     DEF AppendVerdictFails, AppendBeforeRaise, AppendBeforeRaiseFails
<1>13. ASSUME NEW due \in BOOLEAN, NEW saved \in BOOLEAN, Account(due, saved)
       PROVE  OnceInv'
  <2> DEFINE e == decisions[cur].event
  <2>1. /\ UNCHANGED <<size, pos>> /\ cur' = 0 /\ pc' # "stopped"
        /\ pc # "stopped" /\ cur \in 1..Len(decisions) /\ Fate(cur, "done")
        /\ mem'.last = Source[e] /\ cur # 0
    BY <1>0, <1>13 DEF Account
  <2>2. /\ Len(decisions') = Len(decisions)
        /\ \A m \in Decisions :
             /\ decisions'[m].event = decisions[m].event
             /\ decisions'[m].fate = IF m = cur THEN "done" ELSE decisions[m].fate
    BY <1>0, <2>1, FateFacts
  <2>3. Decisions' = Decisions
    BY <2>2 DEF Decisions
  <2>4. e = pos - 1 /\ e \in 1..size /\ cur \in Decisions
    <3>1. decisions[cur] \in DecisionRecords /\ DOMAIN Source = 1..Len(Source)
      BY <1>0, <2>1, SourceAssumption, LenProperties, ElementOfSeq
    <3>2. e \in 1..Len(Source) /\ Len(Source) \in Nat
      BY <3>1, SourceAssumption, LenProperties DEF DecisionRecords
    <3>3. e = pos - 1
      BY <2>1 DEF OnceInv
    <3> HIDE DEF e
    <3> QED BY <1>0, <2>1, <3>2, <3>3
  <2> HIDE DEF e
  <2>5. ASSUME NEW n \in Decisions, decisions'[n].fate = "done"
        PROVE  Behind(mem.last, n)' /\ decisions'[n].event < pos'
    <3>1. decisions[n].event < pos
      <4>1. CASE n = cur
        BY <1>0, <2>4, <4>1 DEF e
      <4>2. CASE n # cur
        BY <2>1, <2>2, <2>5, <4>2 DEF OnceInv
      <4> QED BY <4>1, <4>2
    <3>2. decisions[n].event <= e
      BY <1>0, <2>4, <3>1
    <3>3. Behind(mem.last, n)'
      BY <2>1, <2>2, <2>4, <3>2 DEF Behind
    <3> QED BY <2>1, <2>2, <3>1, <3>3
  <2>6. ASSUME NEW m \in Decisions, NEW n \in Decisions, m # n,
               decisions'[m].event = decisions'[n].event
        PROVE  "error" \in {decisions'[m].fate, decisions'[n].fate}
    <3>1. "error" \in {decisions[m].fate, decisions[n].fate}
      BY <2>2, <2>6 DEF OnceInv
    <3>2. decisions[cur].fate = "running"
      BY <1>0, <2>1 DEF PipelineInv
    <3> QED BY <2>2, <3>1, <3>2
  <2>7. \A n \in Decisions : decisions'[n].fate \in {"done", "error"}
    BY <2>2 DEF OnceInv
  <2> QED BY <2>1, <2>3, <2>5, <2>6, <2>7 DEF OnceInv
<1> QED
  BY <1>2, <1>3, <1>4, <1>5, <1>6, <1>7, <1>8, <1>9, <1>10, <1>12, <1>13
     DEF Next, Restart, Process, Pipeline

RestartInv ==
  /\ LoopInv /\ GaugeInv /\ EmittedInv
  /\ ~lossy /\ DistinctIds => OnceInv

\* A lost checkpoint stays lost.
LEMMA LossyStays == [Next]_vars /\ lossy => lossy'
<1> USE DEF loopVars, pipeVars, auditVars, ricVars, history
<1> SUFFICES ASSUME [Next]_vars, lossy PROVE lossy'
  OBVIOUS
<1>1. CASE Restart \/ Signal \/ Crash \/ LeaveLoop \/ \E saved \in BOOLEAN : Shutdown(saved)
  BY <1>1 DEF Restart, Start, Signal, Crash, LeaveLoop, Shutdown
<1>2. CASE Pipeline
  BY <1>2 DEF Pipeline, Decide, PlanRaises, Put, BreakerRejects, PutFails, PutAnswered,
              EmitRaises, Conclude, Record, RecordFails, Retry, RetryFails,
              AppendVerdict, AppendVerdictFails, AppendBeforeRaise,
              AppendBeforeRaiseFails, Return, Raise, Account
<1>3. CASE \E n \in net : RicAccepts(n) \/ RicRefuses(n)
  BY <1>3 DEF RicAccepts, RicRefuses
<1>4. CASE UNCHANGED vars
  BY <1>4 DEF vars
<1> QED BY <1>1, <1>2, <1>3, <1>4 DEF Next, Process

\* A restart goes on where the last run stood, for any file and any number of
\* starts: nothing processed to its end is sent again while no checkpoint is
\* lost, the checkpoint counts no policy that is not live, and the gauge is the
\* length of the chain (_daemon_main and _CheckpointState, rapp/daemon.py).
THEOREM RestartAlwaysSound == Spec => []RestartSound
<1>1. Init => RestartInv
  <2> SUFFICES ASSUME Init PROVE RestartInv
    OBVIOUS
  <2>1. LoopInv
    BY LoopInit
  <2>2. GaugeInv
    BY DEF Init, GaugeInv
  <2>3. EmittedInv
    <3>1. DoneLive = {} /\ mem.emitted = 0 /\ disk.emitted = 0 /\ pc # "account"
      BY DEF Init, DoneLive, Fresh
    <3>2. Cardinality(DoneLive) = 0
      BY <3>1, FS_EmptySet
    <3> QED BY <3>1, <3>2 DEF EmittedInv
  <2>4. OnceInv
    BY DEF Init, OnceInv, Decisions
  <2> QED BY <2>1, <2>2, <2>3, <2>4 DEF RestartInv
<1>2. RestartInv /\ [Next]_vars => RestartInv'
  <2> SUFFICES ASSUME RestartInv, [Next]_vars PROVE RestartInv'
    OBVIOUS
  <2>1. LoopInv /\ LoopInv'
    BY TypeNext, AuditNext, ReaderNext DEF RestartInv, LoopInv, AuditInv
  <2>2. GaugeInv' /\ EmittedInv'
    BY <2>1, GaugeNext, EmittedNext DEF RestartInv
  <2>3. ASSUME ~lossy', DistinctIds PROVE OnceInv'
    <3>1. ~lossy
      BY <2>3, LossyStays
    <3> QED BY <2>1, <2>3, <3>1, OnceNext DEF RestartInv
  <2> QED BY <2>1, <2>2, <2>3 DEF RestartInv, DistinctIds
<1>3. RestartInv => RestartSound
  <2> SUFFICES ASSUME RestartInv PROVE RestartSound
    OBVIOUS
  <2>1. live \subseteq Decisions
    BY DEF RestartInv, LoopInv, TypeOK
  <2>2. CleanRestart
    BY <2>1 DEF CleanRestart, RestartInv, OnceInv
  <2>3. CheckpointBehind
    BY DEF CheckpointBehind, RestartInv, EmittedInv, DoneLive
  <2>4. GaugeExact
    BY DEF GaugeExact, RestartInv, GaugeInv, AllAudited
  <2> QED BY <2>2, <2>3, <2>4 DEF RestartSound
<1> QED BY <1>1, <1>2, <1>3, PTL DEF Spec
=============================================================================
