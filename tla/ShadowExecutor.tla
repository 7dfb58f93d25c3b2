--------------------------- MODULE ShadowExecutor ----------------------------
(***************************************************************************)
(* The shadow executor (runtime/shadow_executor.py): a candidate model is  *)
(* run beside the active one, its divergence is logged, outcomes are       *)
(* attached to the log by position, and recommendation() says whether to   *)
(* promote it.  The log is locked for each access, not across the two that *)
(* recommendation() makes nor between a prediction and its append.         *)
(*                                                                         *)
(* Predictions and outcomes are tenths, 0..10; the two halves of [0, 1]    *)
(* stand for the calibration bins.                                         *)
(***************************************************************************)
EXTENDS Integers, Sequences, FiniteSets, SequencesExt

CONSTANTS Steppers,      \* threads that call step()
          Readings,      \* predictions and outcomes that occur
          MinShadow,     \* min_samples
          WarnAt,        \* divergence_warn, in tenths
          RejectAt,      \* divergence_reject, in tenths
          MaxSteps       \* calls of step()

ASSUME ShadowAssumption ==
  /\ Readings \subseteq 0..10
  /\ {MinShadow, WarnAt, RejectAt, MaxSteps} \subseteq Nat \ {0}

VARIABLES shLog,      \* _log: [of, active, candidate, outcome]
          shBusy,     \* shBusy[s]: the step s is in, 0 for none
          shCalled,   \* calls of step() so far: the order outcomes come in
          shPreds,    \* ghost: the predictions of each call
          shTruth,    \* ghost: the outcome of each call's decision
          shAsked,    \* recommendation(): the log it has read, as a set
          shAdvice,   \* what it answered last, and from what
          shOverlap   \* ghost: two calls of step() overlapped

shVars == <<shLog, shBusy, shCalled, shPreds, shTruth, shAsked, shAdvice, shOverlap>>

NoOutcome == -1
NoAdvice == [say |-> "none", first |-> <<>>, second |-> <<>>]

ShInit ==
  /\ shLog = <<>>
  /\ shBusy = [s \in Steppers |-> 0]
  /\ shCalled = 0
  /\ shPreds = <<>> /\ shTruth = <<>>
  /\ shAsked = {}
  /\ shAdvice = NoAdvice
  /\ shOverlap = FALSE

Distance(x, y) == IF x > y THEN x - y ELSE y - x
Total(seq) == FoldLeft(LAMBDA sum, x : sum + x, 0, seq)

-----------------------------------------------------------------------------
(* The verdict.                                                            *)

\* _ece, times the number of entries: per bin, how far the predictions' sum is
\* from the outcomes'.  A prediction of 1 falls into the last bin.
Ece(entries, Pred(_)) ==
  LET InBin(b) == SelectSeq(entries, LAMBDA e : (IF Pred(e) >= 5 THEN 1 ELSE 0) = b)
      Off(b) == Distance(Total([i \in DOMAIN InBin(b) |-> Pred(InBin(b)[i])]),
                         Total([i \in DOMAIN InBin(b) |-> InBin(b)[i].outcome]))
  IN  Off(0) + Off(1)

Annotated(log) == SelectSeq(log, LAMBDA e : e.outcome # NoOutcome)

\* ece_delta > 0.05: the candidate is materially worse calibrated.
WorseCalibrated(log) ==
  LET known == Annotated(log)
      Active(e) == e.active
      Candidate(e) == e.candidate
  IN  2 * (Ece(known, Candidate) - Ece(known, Active)) > Len(known)

Divergence(log) == Total([i \in DOMAIN log |-> Distance(log[i].active, log[i].candidate)])

\* recommendation(): the mean divergence of the log it read first, the
\* calibration of the one it read second.
Recommend(first, second) ==
  IF Len(first) < MinShadow THEN "insufficient-data"
  ELSE IF Divergence(first) >= RejectAt * Len(first) THEN "reject"
  ELSE IF WorseCalibrated(second) THEN "reject"
  ELSE IF Divergence(first) < WarnAt * Len(first) THEN "promote"
  ELSE "reject"

\* divergence_histogram, with the two halves for bins.
Histogram(log) ==
  [b \in {0, 1} |->
     Cardinality({i \in DOMAIN log :
       (IF Distance(log[i].active, log[i].candidate) >= 5 THEN 1 ELSE 0) = b})]

-----------------------------------------------------------------------------
\* step() up to the append: both models are run.
Predict(s, a, c, o) ==
  /\ shBusy[s] = 0 /\ shCalled < MaxSteps
  /\ shCalled' = shCalled + 1
  /\ shBusy' = [shBusy EXCEPT ![s] = shCalled']
  /\ shPreds' = Append(shPreds, [active |-> a, candidate |-> c])
  /\ shTruth' = Append(shTruth, o)
  /\ shOverlap' = (shOverlap \/ \E t \in Steppers : shBusy[t] # 0)
  /\ UNCHANGED <<shLog, shAsked, shAdvice>>

\* The append; the sink is called afterwards, and what it raises is swallowed.
LogStep(s) ==
  /\ shBusy[s] # 0
  /\ LET p == shPreds[shBusy[s]]
     IN  shLog' = Append(shLog, [of |-> shBusy[s], active |-> p.active,
                                 candidate |-> p.candidate, outcome |-> NoOutcome])
  /\ shBusy' = [shBusy EXCEPT ![s] = 0]
  /\ UNCHANGED <<shCalled, shPreds, shTruth, shAsked, shAdvice, shOverlap>>

\* Fault: the outcomes are attached from the end of the log.
AnnotateLast(n) ==
  /\ n > 0 /\ n <= shCalled
  /\ shLog' = [i \in DOMAIN shLog |->
                 IF i > Len(shLog) - n
                 THEN [shLog[i] EXCEPT !.outcome = shTruth[i - Len(shLog) + n]]
                 ELSE shLog[i]]
  /\ UNCHANGED <<shBusy, shCalled, shPreds, shTruth, shAsked, shAdvice, shOverlap>>

\* annotate_outcomes with the outcomes of the first n calls: the i-th goes to
\* the i-th entry, what is too much is dropped.
Annotate(n) ==
  /\ n > 0 /\ n <= shCalled
  /\ shLog' = [i \in DOMAIN shLog |->
                 IF i <= n THEN [shLog[i] EXCEPT !.outcome = shTruth[i]]
                 ELSE shLog[i]]
  /\ UNCHANGED <<shBusy, shCalled, shPreds, shTruth, shAsked, shAdvice, shOverlap>>

\* recommendation(): the first read ...
AskAdvice ==
  /\ shAsked = {} /\ shAdvice = NoAdvice
  /\ shAsked' = {shLog}
  /\ UNCHANGED <<shLog, shBusy, shCalled, shPreds, shTruth, shAdvice, shOverlap>>

\* ... and the second, in ece_delta().
GiveAdvice ==
  /\ \E first \in shAsked :
       shAdvice' = [say |-> Recommend(first, shLog), first |-> first, second |-> shLog]
  /\ shAsked' = {}
  /\ UNCHANGED <<shLog, shBusy, shCalled, shPreds, shTruth, shOverlap>>

ShNext ==
  \/ \E s \in Steppers :
       \/ \E a, c, o \in Readings : Predict(s, a, c, o)
       \/ LogStep(s)
  \/ \E n \in 1..MaxSteps : Annotate(n)
  \/ AskAdvice \/ GiveAdvice

ShSpec == ShInit /\ [][ShNext]_shVars

ShTypeOK ==
  /\ Len(shLog) <= shCalled
  /\ shAdvice.say \in {"none", "promote", "reject", "insufficient-data"}
  /\ Histogram(shLog)[0] + Histogram(shLog)[1] = Len(shLog)

-----------------------------------------------------------------------------
\* The truth about the first decisions of the log, by the outcome each really had.
Judged(log) == [i \in DOMAIN log |->
                  IF log[i].outcome = NoOutcome THEN log[i]
                  ELSE [log[i] EXCEPT !.outcome = shTruth[log[i].of]]]

\* Every call of step() that returned is in the log once; and as long as calls of
\* step() do not overlap, the outcomes attached by position are those of the
\* decisions they are attached to, so that a candidate recommended for promotion
\* was not, by what really happened, the worse calibrated one.
PromotedOnTruth ==
  /\ \A i, j \in DOMAIN shLog : shLog[i].of = shLog[j].of => i = j
  /\ {shLog[i].of : i \in DOMAIN shLog}
       = (1..shCalled) \ {shBusy[s] : s \in Steppers}
  /\ ~shOverlap /\ shAdvice.say = "promote" =>
       /\ ~WorseCalibrated(Judged(shAdvice.second))
       /\ Len(shAdvice.first) >= MinShadow
=============================================================================
