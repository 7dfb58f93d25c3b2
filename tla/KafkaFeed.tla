------------------------------ MODULE KafkaFeed ------------------------------
(***************************************************************************)
(* The daemon's telemetry source (rapp/daemon.py: the configuration,       *)
(* _open_source and the reading loop; io/connectors/kafka_connector.py),   *)
(* over a topic that other programs append to.  The consumer group's       *)
(* offset is committed in the background and when the consumer stops, and  *)
(* a group without an offset starts at the end of the topic.               *)
(*                                                                         *)
(* A generator that has raised is finished: the read after it ends the     *)
(* loop.  The file source, which skips what does not parse, is part of     *)
(* DecisionLoop.                                                           *)
(***************************************************************************)
EXTENDS Naturals, FiniteSets

CONSTANTS Topic,      \* Topic[i]: "event" or "malformed"
          MaxRuns     \* how often the daemon is started

ASSUME KafkaAssumption ==
  IsFiniteSet(DOMAIN Topic) /\ DOMAIN Topic = 1..Cardinality(DOMAIN Topic)

Ahead == Cardinality(DOMAIN Topic)

VARIABLES kfLen,        \* messages in the topic so far
          kfCommitted,  \* the group's next message, or NoOffset
          kfRun,        \* "down", "reading", "deciding" or "leaving"
          kfPos,        \* the consumer's next message
          kfGen,        \* the generator: "fresh", "raised" or "none"
          kfExit,       \* how the last run ended
          kfHanded,     \* ghost: messages the loop was handed
          kfDecided,    \* ghost: messages whose decision was completed
          kfBad,        \* counters["malformed"], as messages over all runs
          kfFirst,      \* ghost: the first offset ever committed
          kfCrashes,    \* ghost
          kfRuns

kfVars == <<kfLen, kfCommitted, kfRun, kfPos, kfGen, kfExit, kfHanded, kfDecided,
            kfBad, kfFirst, kfCrashes, kfRuns>>

NoOffset == 0

KfInit ==
  /\ kfLen = 0 /\ kfCommitted = NoOffset /\ kfFirst = NoOffset
  /\ kfRun = "down" /\ kfPos = 1 /\ kfGen = "none" /\ kfExit = "none"
  /\ kfHanded = {} /\ kfDecided = {} /\ kfBad = {}
  /\ kfCrashes = 0 /\ kfRuns = 0

\* Another program appends the next message.
Produce ==
  /\ kfLen < Ahead
  /\ kfLen' = kfLen + 1
  /\ UNCHANGED <<kfCommitted, kfRun, kfPos, kfGen, kfExit, kfHanded, kfDecided,
                 kfBad, kfFirst, kfCrashes, kfRuns>>

-----------------------------------------------------------------------------
(* Starting.                                                               *)

\* DaemonConfig.from_yaml: the source block of the file, or the defaults.
SourceTypes == {"file", "synthetic", "kafka", "unknown"}

\* _open_source: what a configuration leads to.  A Kafka source needs a group
\* and a broker, a file has to be there unless this is a smoke test.
Opened(type, good, once) ==
  IF type = "synthetic" THEN "synthetic"
  ELSE IF type = "file" THEN (IF good THEN "file" ELSE IF once THEN "synthetic" ELSE "refused")
  ELSE IF type = "kafka" /\ good THEN "kafka"
  ELSE "refused"

\* KafkaSource.connect: the group's offset, or the end of the topic.
StartOffset == IF kfCommitted # NoOffset THEN kfCommitted ELSE kfLen + 1

\* run_daemon: a source that cannot be opened ends the process with 2.
StartDaemon(type, good, once) ==
  /\ kfRun = "down" /\ kfRuns < MaxRuns
  /\ kfRuns' = kfRuns + 1
  /\ IF Opened(type, good, once) = "kafka"
     THEN /\ kfRun' = "reading" /\ kfGen' = "fresh" /\ kfPos' = StartOffset
          /\ UNCHANGED kfExit
     ELSE /\ kfExit' = IF Opened(type, good, once) = "refused" THEN "2" ELSE "0"
          /\ UNCHANGED <<kfRun, kfGen, kfPos>>
  /\ UNCHANGED <<kfLen, kfCommitted, kfHanded, kfDecided, kfBad, kfFirst, kfCrashes>>

-----------------------------------------------------------------------------
(* Reading.                                                                *)

\* KafkaSource.stream: the next message parses and the loop is handed an event.
NextEvent ==
  /\ kfRun = "reading" /\ kfGen = "fresh" /\ kfPos <= kfLen
  /\ Topic[kfPos] = "event"
  /\ kfPos' = kfPos + 1
  /\ kfHanded' = kfHanded \cup {kfPos}
  /\ kfRun' = "deciding"
  /\ UNCHANGED <<kfLen, kfCommitted, kfGen, kfExit, kfDecided, kfBad, kfFirst,
                 kfCrashes, kfRuns>>

\* It does not: ConnectorIOError, which the loop counts and goes on from.
NextMalformed ==
  /\ kfRun = "reading" /\ kfGen = "fresh" /\ kfPos <= kfLen
  /\ Topic[kfPos] = "malformed"
  /\ kfPos' = kfPos + 1
  /\ kfBad' = kfBad \cup {kfPos}
  /\ kfGen' = "raised"
  /\ UNCHANGED <<kfLen, kfCommitted, kfRun, kfExit, kfHanded, kfDecided, kfFirst,
                 kfCrashes, kfRuns>>

\* The read after it: StopAsyncIteration.
NextEnds ==
  /\ kfRun = "reading" /\ kfGen = "raised"
  /\ kfRun' = "leaving"
  /\ UNCHANGED <<kfLen, kfCommitted, kfPos, kfGen, kfExit, kfHanded, kfDecided,
                 kfBad, kfFirst, kfCrashes, kfRuns>>

\* process_event returns or raises; either way the loop reads on.
DecisionDone ==
  /\ kfRun = "deciding"
  /\ kfRun' = "reading"
  /\ kfDecided' = kfDecided \cup {kfPos - 1}
  /\ UNCHANGED <<kfLen, kfCommitted, kfPos, kfGen, kfExit, kfHanded, kfBad,
                 kfFirst, kfCrashes, kfRuns>>

\* The stop signal, between two events.
StopReading ==
  /\ kfRun = "reading"
  /\ kfRun' = "leaving"
  /\ UNCHANGED <<kfLen, kfCommitted, kfPos, kfGen, kfExit, kfHanded, kfDecided,
                 kfBad, kfFirst, kfCrashes, kfRuns>>

CommitPosition ==
  /\ kfCommitted' = kfPos
  /\ kfFirst' = IF kfFirst = NoOffset THEN kfPos ELSE kfFirst

\* Fault: the consumer commits what it has fetched ahead.
CommitFetched ==
  /\ kfRun \in {"reading", "deciding"}
  /\ kfCommitted' = kfLen + 1
  /\ kfFirst' = IF kfFirst = NoOffset THEN kfPos ELSE kfFirst
  /\ UNCHANGED <<kfLen, kfRun, kfPos, kfGen, kfExit, kfHanded, kfDecided, kfBad,
                 kfCrashes, kfRuns>>

\* enable_auto_commit, at any time while the consumer runs.
AutoCommit ==
  /\ kfRun \in {"reading", "deciding"}
  /\ CommitPosition
  /\ UNCHANGED <<kfLen, kfRun, kfPos, kfGen, kfExit, kfHanded, kfDecided, kfBad,
                 kfCrashes, kfRuns>>

\* The shutdown closes the source, which stops the consumer and commits; a
\* failure is logged.
CloseSource ==
  /\ kfRun = "leaving"
  /\ \/ CommitPosition
     \/ UNCHANGED <<kfCommitted, kfFirst>>
  /\ kfRun' = "down" /\ kfGen' = "none" /\ kfExit' = "0"
  /\ UNCHANGED <<kfLen, kfPos, kfHanded, kfDecided, kfBad, kfCrashes, kfRuns>>

KfCrash ==
  /\ kfRun # "down"
  /\ kfRun' = "down" /\ kfGen' = "none" /\ kfExit' = "killed"
  /\ kfCrashes' = kfCrashes + 1
  /\ UNCHANGED <<kfLen, kfCommitted, kfPos, kfHanded, kfDecided, kfBad, kfFirst,
                 kfRuns>>

KfNext ==
  \/ Produce
  \/ \E type \in SourceTypes, good, once \in BOOLEAN : StartDaemon(type, good, once)
  \/ NextEvent \/ NextMalformed \/ NextEnds \/ DecisionDone \/ StopReading
  \/ AutoCommit \/ CloseSource \/ KfCrash

KfSpec == KfInit /\ [][KfNext]_kfVars

KfTypeOK ==
  /\ kfCommitted \in 0..(Ahead + 1) /\ kfPos \in 1..(Ahead + 1)
  /\ kfRun \in {"down", "reading", "deciding", "leaving"}
  /\ kfHanded \cup kfBad \subseteq 1..kfLen

-----------------------------------------------------------------------------
\* From the group's first committed offset on, no message is passed over: each
\* one behind the committed offset was handed to the loop or counted as
\* malformed, over restarts and crashes; and of those handed over, a crash costs
\* at most one its decision, the one being decided when its offset was already
\* committed.
NoMessagePassedOver ==
  /\ kfCommitted # NoOffset =>
       kfFirst..(kfCommitted - 1) \subseteq kfHanded \cup kfBad
  /\ Cardinality((kfHanded \cap kfFirst..(kfCommitted - 1)) \ kfDecided)
       <= kfCrashes + (IF kfRun = "deciding" THEN 1 ELSE 0)
=============================================================================
