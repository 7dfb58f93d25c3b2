----------------------------- MODULE Connectors ------------------------------
(***************************************************************************)
(* The file and HTTP connectors (io/connector.py, io/connectors/): tasks   *)
(* write messages of several schemas to a JSONL file under an asyncio lock *)
(* while a source replays the file; and a webhook sink driven through the  *)
(* retry helper, whose requests and answers can be lost.                   *)
(***************************************************************************)
EXTENDS Naturals, Sequences, FiniteSets, SequencesExt

CONSTANTS Writers,       \* tasks that write
          Schemas,       \* the schema of each message written, in order
          MaxAttempts,   \* retry_max_attempts
          MaxReplays     \* replays

ASSUME ConnectorsAssumption == MaxAttempts \in Nat /\ Schemas \in Seq(STRING)

VARIABLES cnState,    \* ConnectorState of sink and source
          cnFile,     \* the file: [of, schema, torn] per line
          cnLock,     \* the writer inside the sink's lock, as a set
          cnTask,     \* cnTask[w]: the message w is writing, 0 for none
          cnWritten,  \* messages so far
          cnDone,     \* writes that returned
          cnOut,      \* the last replay: what it yielded, and how it ended
          cnReplays,
          htTry,      \* the webhook call: attempts made, and what became of it
          htGot       \* how often the webhook got the message

cnVars == <<cnState, cnFile, cnLock, cnTask, cnWritten, cnDone, cnOut, cnReplays,
            htTry, htGot>>

fileVars == <<cnState, cnFile, cnLock, cnTask, cnWritten, cnDone, cnOut, cnReplays>>
httpVars == <<htTry, htGot>>

NoReplay == [yielded |-> <<>>, ended |-> "none", len |-> 0]

CnInit ==
  /\ cnState = [c \in {"sink", "source"} |-> "init"]
  /\ cnFile = <<>> /\ cnLock = {}
  /\ cnTask = [w \in Writers |-> 0]
  /\ cnWritten = 0 /\ cnDone = {}
  /\ cnOut = NoReplay /\ cnReplays = 0
  /\ htTry = [made |-> 0, is |-> "calling"] /\ htGot = 0

-----------------------------------------------------------------------------
(* The connector's states.                                                 *)

\* FileSink.connect makes the file; FileSource.connect needs it to be there.
Connect(c) ==
  /\ cnState[c] # "started"
  /\ c = "source" => cnState["sink"] # "init"
  /\ cnState' = [cnState EXCEPT ![c] = "started"]
  /\ UNCHANGED <<cnFile, cnLock, cnTask, cnWritten, cnDone, cnOut, cnReplays, httpVars>>

CloseConnector(c) ==
  /\ cnState[c] = "started"
  /\ cnState' = [cnState EXCEPT ![c] = "stopped"]
  /\ UNCHANGED <<cnFile, cnLock, cnTask, cnWritten, cnDone, cnOut, cnReplays, httpVars>>

-----------------------------------------------------------------------------
(* The file.                                                               *)

\* FileSink.write: refused unless started; close() does not wait for it.
WriteMessage(w) ==
  /\ cnState["sink"] = "started"
  /\ cnTask[w] = 0 /\ cnWritten < Len(Schemas)
  /\ cnWritten' = cnWritten + 1
  /\ cnTask' = [cnTask EXCEPT ![w] = cnWritten']
  /\ UNCHANGED <<cnState, cnFile, cnLock, cnDone, cnOut, cnReplays, httpVars>>

\* The lock is taken and a thread begins the line.
TakeFile(w) ==
  /\ cnTask[w] # 0 /\ cnLock = {}
  /\ cnLock' = {w}
  /\ cnFile' = Append(cnFile, [of |-> cnTask[w], schema |-> Schemas[cnTask[w]],
                               torn |-> TRUE])
  /\ UNCHANGED <<cnState, cnTask, cnWritten, cnDone, cnOut, cnReplays, httpVars>>

\* The line is complete.
LineWritten(w) ==
  /\ w \in cnLock
  /\ cnLock' = cnLock \ {w}
  /\ cnFile' = [i \in DOMAIN cnFile |->
                  IF i = Len(cnFile) THEN [cnFile[i] EXCEPT !.torn = FALSE] ELSE cnFile[i]]
  /\ cnDone' = cnDone \cup {cnTask[w]}
  /\ cnTask' = [cnTask EXCEPT ![w] = 0]
  /\ UNCHANGED <<cnState, cnWritten, cnOut, cnReplays, httpVars>>

\* FileSource.stream, one line of it: the first that does not parse raises, rows
\* of other schemas are skipped.
ReplayLine(r, line) ==
  IF r.ended = "raised" THEN r
  ELSE IF line.torn THEN [r EXCEPT !.ended = "raised"]
  ELSE IF line.schema # "telemetry" THEN r
  ELSE [r EXCEPT !.yielded = Append(@, line.of)]

\* The lines of now.
Replayed(lines) ==
  FoldLeft(ReplayLine, [yielded |-> <<>>, ended |-> "end", len |-> Len(lines)], lines)

ReplayFile ==
  /\ cnState["source"] = "started" /\ cnReplays < MaxReplays
  /\ cnOut' = Replayed(cnFile)
  /\ cnReplays' = cnReplays + 1
  /\ UNCHANGED <<cnState, cnFile, cnLock, cnTask, cnWritten, cnDone, httpVars>>

-----------------------------------------------------------------------------
(* The webhook.                                                            *)

\* HttpRestSink.write under with_retry: an attempt reaches the webhook or not,
\* and its answer is good, bad or lost; at least one attempt is made.
Attempt(arrives, good) ==
  /\ htTry.is = "calling"
  /\ good => arrives
  /\ htGot' = IF arrives THEN htGot + 1 ELSE htGot
  /\ htTry' = [made |-> htTry.made + 1,
               is |-> IF good THEN "returned"
                      ELSE IF htTry.made + 1 >= MaxAttempts THEN "raised" ELSE "calling"]
  /\ UNCHANGED fileVars

CnNext ==
  \/ \E c \in {"sink", "source"} : Connect(c) \/ CloseConnector(c)
  \/ \E w \in Writers : WriteMessage(w) \/ TakeFile(w) \/ LineWritten(w)
  \/ ReplayFile
  \/ \E arrives, good \in BOOLEAN : Attempt(arrives, good)

CnSpec == CnInit /\ [][CnNext]_cnVars

CnTypeOK ==
  /\ cnState \in [{"sink", "source"} -> {"init", "started", "degraded", "stopped"}]
  /\ cnLock \subseteq Writers
  /\ htTry.is \in {"calling", "returned", "raised"}

-----------------------------------------------------------------------------
\* The lines a replay got through: all, or those before the one it raised at.
WholeLines == 1..(IF cnOut.ended = "raised" THEN cnOut.len - 1 ELSE cnOut.len)

\* What the sink wrote is what the source replays, whatever tasks write at once:
\* a replay yields the telemetry of the lines before the first one still being
\* written, each message once and in the order of the file, no line is ever torn
\* for good or shared by two messages, and every write that returned is in the
\* file.
ReplayFaithful ==
  /\ \A i, j \in DOMAIN cnFile : cnFile[i].of = cnFile[j].of => i = j
  /\ \A i \in DOMAIN cnFile : cnFile[i].torn => i = Len(cnFile) /\ cnLock # {}
  /\ cnDone \subseteq {cnFile[i].of : i \in DOMAIN cnFile}
  /\ ToSet(cnOut.yielded) =
       {cnFile[i].of : i \in {i \in WholeLines : cnFile[i].schema = "telemetry"}}
  /\ \A a, b \in DOMAIN cnOut.yielded : a < b =>
       \E i, j \in WholeLines : /\ i < j /\ cnFile[i].of = cnOut.yielded[a]
                                /\ cnFile[j].of = cnOut.yielded[b]

\* A webhook call that returned reached the webhook, at most once per attempt;
\* one that raised may have reached it too, which is why a sink has to be
\* idempotent.
RetryAccounted ==
  /\ htTry.is = "returned" => htGot >= 1
  /\ htGot <= htTry.made
  /\ htTry.made <= IF MaxAttempts > 1 THEN MaxAttempts ELSE 1

\* Nothing the connectors accepted is lost or mixed up.
DeliveryAccounted == ReplayFaithful /\ RetryAccounted
=============================================================================
