------------------------------ MODULE Federated ------------------------------
(***************************************************************************)
(* Federated training with robust aggregation (federated/robust.py),       *)
(* outlier detection, client unlearning with its certificate               *)
(* (federated/unlearning.py) and the erasure of one subject's data         *)
(* (federated/erasure.py).                                                 *)
(*                                                                         *)
(* A model is one number, the aggregators working on each coordinate alike *)
(* (Krum on their distance).  Local training moves half way from where it  *)
(* starts towards what the client's data rewards.  Numbers are integers:   *)
(* a mean is rounded down, as a float's is rounded to a float.             *)
(***************************************************************************)
EXTENDS Integers, Sequences, SequencesExt, FiniteSets, FiniteSetsExt

CONSTANTS Optima,      \* sequences of what each honest client's data rewards
          PoisonRoles, \* roles the last client may play
          TargetQ,     \* the value of craft_poison_q's table
          FedMethods,  \* aggregation methods
          MaxRounds,
          LogClients,  \* clients of a federation trained from logs
          Subjects, Rewards, MaxLog

\* The last client is one of at least three.
ASSUME FedAssumption ==
  /\ \A o \in Optima : o \in Seq(Int) /\ Len(o) >= 2
  /\ PoisonRoles \subseteq {"honest", "reward_poison", "qtable_target"}
  /\ FedMethods \subseteq {"fedavg", "median", "trimmed_mean", "krum"}
  /\ TargetQ \in Int /\ Rewards \subseteq Int /\ {MaxRounds, LogClients} \subseteq Nat

VARIABLES fedClients, \* trace.clients: what each rewards, and its role
          fedMethod, fedF, \* trace.method, and the number of assumed poisoners
          fedRounds,  \* trace.rounds: the uploads of each round
          fedGlobal,  \* the global model, or NoModel
          fedCert,    \* the last UnlearningCertificate
          logs,       \* logs[c]: client c's transitions, a subject and a reward
          erased      \* the last ErasureCertificate

fedVars == <<fedClients, fedMethod, fedF, fedRounds, fedGlobal, fedCert, logs, erased>>

Magnitude(i) == IF i < 0 THEN -i ELSE i
NoModel == <<>>
NoCert == [removed |-> {}, before |-> NoModel, after |-> NoModel, distance |-> 0]
NoErasure == [subject |-> "none", client |-> 0, after |-> NoModel, distance |-> 0]

\* A federation with a recorded trace, or one trained from clients' logs.
FedInit ==
  /\ fedMethod \in FedMethods
  /\ \/ /\ \E o \in Optima, r \in PoisonRoles :
            fedClients = Append([i \in 1..Len(o) |-> [opt |-> o[i], role |-> "honest"]],
                                [opt |-> o[1], role |-> r])
        /\ fedF \in 0..1
        /\ logs = <<>>
     \/ /\ fedClients = <<>> /\ fedF = 0
        /\ logs = [c \in 1..LogClients |-> <<>>]
  /\ fedRounds = <<>> /\ fedGlobal = NoModel
  /\ fedCert = NoCert
  /\ erased = NoErasure

-----------------------------------------------------------------------------
(* The aggregators; a model is a sequence of one number, NoModel where the *)
(* code raises.                                                            *)

TotalOf(s) == FoldLeft(LAMBDA acc, x : acc + x, 0, s)

\* numpy.sort: at place k the value that fewer than k lie below, and k do not
\* exceed.
Sorted(s) ==
  [k \in 1..Len(s) |->
     CHOOSE v \in ToSet(s) : /\ Cardinality({i \in DOMAIN s : s[i] < v}) < k
                            /\ k <= Cardinality({i \in DOMAIN s : s[i] <= v})]

Fedavg(u) == <<TotalOf(u) \div Len(u)>>

CoordinateMedian(u) ==
  LET s == Sorted(u)
      n == Len(u)
  IN  <<(s[(n + 1) \div 2] + s[n \div 2 + 1]) \div 2>>

TrimmedMean(u, beta) ==
  IF Len(u) <= 2 * beta THEN NoModel
  ELSE Fedavg(SubSeq(Sorted(u), beta + 1, Len(u) - beta))

\* krum's score of client i: its m nearest, itself left out.
KrumScore(u, f, i) ==
  LET sq == Sorted([j \in 1..Len(u) |-> (u[i] - u[j]) * (u[i] - u[j])])
  IN  TotalOf(SubSeq(sq, 2, Len(u) - f - 2 + 1))

\* krum: the first client with the least score.
Krum(u, f) ==
  IF Len(u) <= 2 * f + 2 THEN NoModel
  ELSE LET best == Min({KrumScore(u, f, i) : i \in 1..Len(u)})
       IN  <<u[Min({i \in 1..Len(u) : KrumScore(u, f, i) = best})]>>

\* _aggregate, and _agg of the erasure.
AggregateBy(method, u, f) ==
  CASE method = "fedavg" -> Fedavg(u)
    [] method = "median" -> CoordinateMedian(u)
    [] method = "trimmed_mean" -> TrimmedMean(u, IF f > 1 THEN f ELSE 1)
    [] method = "krum" -> Krum(u, f)

-----------------------------------------------------------------------------
(* Training.                                                               *)

\* _local_update: a crafted table, or training from the broadcast model (from
\* zero in the first round) on true or on negated rewards.
LocalUpdate(c, global) ==
  LET from == IF global = NoModel THEN 0 ELSE global[1]
      goal == IF c.role = "honest" THEN c.opt ELSE -c.opt
  IN  IF c.role = "qtable_target" THEN TargetQ ELSE from + ((goal - from) \div 2)

UploadsOf(clients, global) == [i \in 1..Len(clients) |-> LocalUpdate(clients[i], global)]

\* One round of run_federated_training.
TrainRound ==
  LET u == UploadsOf(fedClients, fedGlobal)
      g == AggregateBy(fedMethod, u, fedF)
  IN  /\ fedClients # <<>> /\ Len(fedRounds) < MaxRounds
      /\ fedCert = NoCert
      /\ g # NoModel
      /\ fedRounds' = Append(fedRounds, u)
      /\ fedGlobal' = g
      /\ UNCHANGED <<fedClients, fedMethod, fedF, fedCert, logs, erased>>

-----------------------------------------------------------------------------
(* Unlearning.                                                             *)

\* The items of s whose index is not in removed: _kept.
Kept(s, removed) ==
  LET at == Sorted(SetToSeq((1..Len(s)) \ removed))
  IN  [i \in 1..Len(at) |-> s[at[i]]]

\* retrain_from_scratch, with no poisoner assumed.
Retrain(removed) ==
  LET clients == Kept(fedClients, removed)
  IN  IF clients = <<>> THEN NoModel
      ELSE FoldLeft(LAMBDA g, r :
                      AggregateBy(fedMethod, UploadsOf(clients, g), 0),
                    NoModel, fedRounds)

\* efficient_unlearn: the last round's kept uploads, aggregated again.
EfficientUnlearn(removed) ==
  LET u == Kept(fedRounds[Len(fedRounds)], removed)
  IN  IF u = <<>> THEN NoModel ELSE AggregateBy(fedMethod, u, 0)

\* detect_outliers(uploads, n): the n furthest from the median; of two as far,
\* either.
DetectOutliers(u, n) ==
  LET d(i) == Magnitude(u[i] - CoordinateMedian(u)[1])
  IN  {R \in kSubset(n, 1..Len(u)) :
         \A i \in R, j \in (1..Len(u)) \ R : d(i) >= d(j)}

\* certify_unlearning: the distance to the retrained model, and the signed
\* model.
Certify(removed, after, gold) ==
  fedCert' = [removed |-> removed, before |-> fedGlobal, after |-> after,
              distance |-> Magnitude(after[1] - gold[1])]

\* Detection, both ways of unlearning, and the certificate.
Unlearn(n) ==
  /\ fedRounds # <<>> /\ fedCert = NoCert
  /\ \E removed \in DetectOutliers(fedRounds[Len(fedRounds)], n) :
       /\ EfficientUnlearn(removed) # NoModel /\ Retrain(removed) # NoModel
       /\ Certify(removed, EfficientUnlearn(removed), Retrain(removed))
  /\ UNCHANGED <<fedClients, fedMethod, fedF, fedRounds, fedGlobal, logs, erased>>

-----------------------------------------------------------------------------
(* Erasure of a subject.                                                   *)

\* train_q_from_transitions: the log replayed in its order.
TrainFromLog(log) == FoldLeft(LAMBDA q, t : q + ((t.reward - q) \div 2), 0, log)

WithoutSubject(log, subject) ==
  FoldLeft(LAMBDA kept, t : IF t.subject = subject THEN kept ELSE Append(kept, t), <<>>, log)

\* collect_subject_transitions: one more transition of a subject,
\* before the logs are trained from.
Collect(c, subject, reward) ==
  /\ erased = NoErasure
  /\ TotalOf([i \in 1..Len(logs) |-> Len(logs[i])]) < MaxLog
  /\ logs' = [logs EXCEPT ![c] = Append(@, [subject |-> subject, reward |-> reward])]
  /\ UNCHANGED <<fedClients, fedMethod, fedF, fedRounds, fedGlobal, fedCert, erased>>

\* erase_subject.
EraseSubject(log, subject) == TrainFromLog(WithoutSubject(log, subject))

\* The list of models _agg is called with: each client is trained once.
ModelList(models) == SubSeq(models, 1, Len(models))

\* federated_erase_subject: the logs stay as they are.
EraseFromClient(c, subject) ==
  LET local == [i \in 1..Len(logs) |->
                  IF i = c THEN EraseSubject(logs[i], subject) ELSE TrainFromLog(logs[i])]
      gold == [i \in 1..Len(logs) |->
                 TrainFromLog(IF i = c THEN WithoutSubject(logs[i], subject) ELSE logs[i])]
      after == AggregateBy(fedMethod, ModelList(local), 0)
  IN  /\ logs[c] # <<>>
      /\ after # NoModel
      /\ erased' = [subject |-> subject, client |-> c, after |-> after,
                    distance |-> Magnitude(after[1] - AggregateBy(fedMethod, ModelList(gold), 0)[1])]
      /\ UNCHANGED <<fedClients, fedMethod, fedF, fedRounds, fedGlobal, fedCert, logs>>

FedNext ==
  \/ TrainRound
  \/ \E n \in 1..2 : Unlearn(n)
  \/ \E c \in 1..Len(logs), s \in Subjects :
       \/ \E r \in Rewards : Collect(c, s, r)
       \/ EraseFromClient(c, s)

FedSpec == FedInit /\ [][FedNext]_fedVars

-----------------------------------------------------------------------------
FedTypeOK ==
  /\ \A i \in DOMAIN fedClients : fedClients[i].role \in {"honest"} \cup PoisonRoles
  /\ fedMethod \in FedMethods /\ fedF \in 0..1
  /\ Len(fedRounds) <= MaxRounds
  /\ Len(fedGlobal) = (IF fedRounds = <<>> THEN 0 ELSE 1)
  /\ fedCert.distance >= 0 /\ erased.distance >= 0
  /\ \A c \in DOMAIN logs : \A i \in DOMAIN logs[c] :
       logs[c][i].subject \in Subjects /\ logs[c][i].reward \in Rewards

Honest == {i \in DOMAIN fedClients : fedClients[i].role = "honest"}
Poisoners == DOMAIN fedClients \ Honest
LastUploads == fedRounds[Len(fedRounds)]
HonestUploads == {LastUploads[i] : i \in Honest}
Spread == Max(HonestUploads) - Min(HonestUploads)

\* With no more poisoners than assumed, whatever they upload moves the median
\* and the trimmed mean no further than the honest uploads reach, and Krum's
\* choice lies near an honest one: within sqrt(m / (n - 2f - 1)) times their
\* spread.
InfluenceBounded ==
  fedRounds # <<>> /\ Cardinality(Poisoners) <= fedF =>
    LET g == fedGlobal[1]
        n == Len(fedClients)
    IN  /\ fedMethod \in {"median", "trimmed_mean"} =>
             Min(HonestUploads) <= g /\ g <= Max(HonestUploads)
        /\ fedMethod = "krum" =>
             \E h \in HonestUploads :
               (g - h) * (g - h) * (n - 2 * fedF - 1) <= (n - fedF - 2) * Spread * Spread

\* An upload further from every honest one than those are from each other is
\* always among those detect_outliers flags, when poisoners are a minority.
DetectionFlags ==
  fedCert # NoCert =>
    \A p \in Poisoners :
      (\A h \in HonestUploads : Magnitude(LastUploads[p] - h) > Spread) =>
        p \in fedCert.removed

\* The certified model after one round is exactly the model trained without the
\* removed clients; after more, a removed upload is still not part of it: it
\* lies among the kept clients' uploads.
UnlearnExact ==
  fedCert # NoCert =>
    LET kept == {LastUploads[i] : i \in DOMAIN fedClients \ fedCert.removed}
    IN  /\ Min(kept) <= fedCert.after[1] /\ fedCert.after[1] <= Max(kept)
        /\ Len(fedRounds) = 1 =>
             fedCert.distance = 0 /\ fedCert.after = Retrain(fedCert.removed)

\* An erasure's certificate tells the truth about the subject when only the
\* named client held its data: the model is the one of logs that never had it.
ErasureExact ==
  erased # NoErasure =>
    /\ erased.distance = 0
    /\ (\A c \in DOMAIN logs \ {erased.client} :
          \A i \in DOMAIN logs[c] : logs[c][i].subject # erased.subject) =>
         erased.after =
           AggregateBy(fedMethod,
                       [c \in 1..Len(logs) |->
                          TrainFromLog(WithoutSubject(logs[c], erased.subject))], 0)
=============================================================================
