---------------------------- MODULE DecisionLoop -----------------------------
(***************************************************************************)
(* The production daemon (rapp/daemon.py), the decision pipeline           *)
(* (rapp/pipeline.py) and the A1 adapter's emit_policy (rapp/a1_adapter.py) *)
(* against a Near-RT RIC that may refuse a policy, answer late or not at   *)
(* all, an audit file that may stop taking rows, and a process that may    *)
(* die at any point and is started again from its checkpoint.              *)
(*                                                                         *)
(* The loop is one coroutine: a step is the code between two places where   *)
(* the process can wait, fail or die.  The RIC and its network are external. *)
(***************************************************************************)
EXTENDS Naturals, Sequences, FiniteSets

CONSTANTS EventIds,      \* event ids
          Source,        \* the telemetry file: a sequence of event ids
          NoEvent,       \* the last_event_id of a fresh checkpoint
          MaxDecisions,  \* bound: decisions made
          MaxRuns        \* bound: starts of the process

ASSUME SourceAssumption == Source \in Seq(EventIds) /\ NoEvent \notin EventIds
ASSUME BoundAssumption == MaxDecisions \in Nat /\ MaxRuns \in Nat

VARIABLES pc,         \* where the daemon's coroutine is
          size,       \* events in the file when the process started
          pos,        \* the position of the next event to read
          stop,       \* SIGTERM or SIGINT was received
          dryRun,     \* HORIZON_A1_DRY_RUN
          mem, disk,  \* the checkpoint in memory and on disk
          gauge,      \* horizon_audit_chain_length
          cur,        \* the decision being processed, 0 between events
          verdict,    \* what its evidence record says became of it
          reply,      \* the RIC's answer that has reached the process
          decisions,  \* decisions[n]: the position of n's event and its fate
          net,        \* PUT requests on their way to the RIC
          live,       \* decisions whose policy the RIC has taken
          audit,      \* the rows of the evidence store
          torn,       \* the store ends in a cut line: every append raises
          unaudited,  \* decisions whose last append raised
          ingested,   \* positions of the events handed to the pipeline
          lossy,      \* a crash or a failed final save lost the checkpoint
          runs        \* starts of the process so far

loopVars == <<pc, size, pos, stop, dryRun, mem, disk, gauge>>
pipeVars == <<cur, verdict, reply, decisions>>
auditVars == <<audit, torn, unaudited>>
ricVars == <<net, live>>
history == <<ingested, lossy, runs>>
vars == <<loopVars, pipeVars, auditVars, ricVars, history>>

Verdicts == {"accepted", "persist_failed", "emit_failed", "blocked", "dry_run"}
Shipped == {"accepted", "persist_failed"}

Fresh == [last |-> NoEvent, processed |-> 0, emitted |-> 0]

\* resume_after: the position of the first event with the checkpointed id
\* among the first n, 0 when there is none and everything is processed.
ResumePoint(last, n) ==
  LET hits == {i \in 1..n : Source[i] = last}
  IN IF hits = {} THEN 0 ELSE CHOOSE i \in hits : \A j \in hits : i <= j

Fate(n, fate) == decisions' = [decisions EXCEPT ![n].fate = fate]

\* Bound: the process fails only as long as it can be started again.
Recoverable == runs < MaxRuns

-----------------------------------------------------------------------------
(* The process starts, is told to stop, stops or dies.                     *)

\* Fault: the event behind the checkpointed one is skipped too.
StartSkipsOne(n, dry) ==
  /\ pc = "stopped"
  /\ Recoverable
  /\ ~torn
  /\ pc' = "next"
  /\ size' = n
  /\ dryRun' = dry
  /\ mem' = disk
  /\ pos' = ResumePoint(disk.last, n) + 2
  /\ gauge' = Len(audit)
  /\ runs' = runs + 1
  /\ UNCHANGED <<stop, disk, pipeVars, auditVars, ricVars, ingested, lossy>>

\* _daemon_main up to the loop: the checkpoint is read, the file's events from
\* the resume point on are queued, and len(store) sets the gauge; a torn store
\* makes it raise, and the process does not come up.
Start(n, dry) ==
  /\ pc = "stopped"
  /\ Recoverable
  /\ ~torn
  /\ pc' = "next"
  /\ size' = n
  /\ dryRun' = dry
  /\ mem' = disk
  /\ pos' = ResumePoint(disk.last, n) + 1
  /\ gauge' = Len(audit)
  /\ runs' = runs + 1
  /\ UNCHANGED <<stop, disk, pipeVars, auditVars, ricVars, ingested, lossy>>

Signal ==
  /\ pc # "stopped"
  /\ ~stop
  /\ stop' = TRUE
  /\ UNCHANGED <<pc, size, pos, dryRun, mem, disk, gauge, pipeVars, auditVars,
                 ricVars, history>>

\* The process is gone, and with it everything it had in memory.
Halt ==
  /\ pc' = "stopped"
  /\ pos' = 1
  /\ stop' = FALSE
  /\ mem' = Fresh
  /\ gauge' = 0
  /\ cur' = 0
  /\ verdict' = "none"
  /\ reply' = "none"
  /\ UNCHANGED <<size, dryRun>>

\* A line on its way to the audit file may be cut.
Crash ==
  /\ pc # "stopped"
  /\ Recoverable
  /\ Halt
  /\ IF cur = 0 THEN UNCHANGED decisions ELSE Fate(cur, "cut")
  /\ torn' \in IF pc \in {"record", "retry", "append", "append_raise"}
               THEN {torn, TRUE} ELSE {torn}
  /\ lossy' = TRUE
  /\ UNCHANGED <<disk, audit, unaudited, ricVars, ingested, runs>>

\* Fault: the signal is not raced against the read of the next event.
LeaveLoopAtEnd ==
  /\ pc = "next"
  /\ pos > size
  /\ pc' = "stopping"
  /\ UNCHANGED <<size, pos, stop, dryRun, mem, disk, gauge, pipeVars, auditVars,
                 ricVars, history>>

\* The loop ends on a signal or at the end of the file.
LeaveLoop ==
  /\ pc = "next"
  /\ stop \/ pos > size
  /\ pc' = "stopping"
  /\ UNCHANGED <<size, pos, stop, dryRun, mem, disk, gauge, pipeVars, auditVars,
                 ricVars, history>>

\* The finally block: the checkpoint is saved, and a failure to save is only
\* logged; then the adapters are shut down.
Shutdown(saved) ==
  /\ pc = "stopping"
  /\ disk' = IF saved THEN mem ELSE disk
  /\ lossy' = (lossy \/ ~saved)
  /\ Halt
  /\ UNCHANGED <<decisions, auditVars, ricVars, ingested, runs>>

-----------------------------------------------------------------------------
(* process_event and emit_policy.                                          *)

\* Fault: the checkpoint moves before the event is processed.
DecideCheckpointFirst(refused) ==
  /\ pc = "next"
  /\ ~stop
  /\ pos <= size
  /\ Len(decisions) < MaxDecisions
  /\ pc' = IF refused \/ dryRun THEN "append" ELSE "emit"
  /\ pos' = pos + 1
  /\ cur' = Len(decisions) + 1
  /\ verdict' = IF refused THEN "blocked" ELSE IF dryRun THEN "dry_run" ELSE "none"
  /\ decisions' = Append(decisions, [event |-> pos, fate |-> "running"])
  /\ ingested' = ingested \cup {pos}
  /\ disk' = [mem EXCEPT !.last = Source[IF pos < size THEN pos + 1 ELSE pos]]
  /\ UNCHANGED <<size, stop, dryRun, mem, gauge, reply, auditVars, ricVars,
                 lossy, runs>>

\* The next event is read and decided on: the Shield, the guards and the power
\* floor refuse it or not, the kill switch holds it back or not.
Decide(refused) ==
  /\ pc = "next"
  /\ ~stop
  /\ pos <= size
  /\ Len(decisions) < MaxDecisions
  /\ pc' = IF refused \/ dryRun THEN "append" ELSE "emit"
  /\ pos' = pos + 1
  /\ cur' = Len(decisions) + 1
  /\ verdict' = IF refused THEN "blocked" ELSE IF dryRun THEN "dry_run" ELSE "none"
  /\ decisions' = Append(decisions, [event |-> pos, fate |-> "running"])
  /\ ingested' = ingested \cup {pos}
  /\ UNCHANGED <<size, stop, dryRun, mem, disk, gauge, reply, auditVars,
                 ricVars, lossy, runs>>

\* Planning or the Shield raises before there is a decision to record: the
\* daemon counts an error and reads on.
PlanRaises ==
  /\ pc = "next"
  /\ ~stop
  /\ pos <= size
  /\ pos' = pos + 1
  /\ ingested' = ingested \cup {pos}
  /\ UNCHANGED <<pc, size, stop, dryRun, mem, disk, gauge, pipeVars, auditVars,
                 ricVars, lossy, runs>>

\* The circuit breaker lets the PUT through, and the coroutine waits.
Put ==
  /\ pc = "emit"
  /\ pc' = "await"
  /\ net' = net \cup {cur}
  /\ UNCHANGED <<size, pos, stop, dryRun, mem, disk, gauge, pipeVars, auditVars,
                 live, history>>

\* The pipeline leaves emit_policy with a verdict to record.
Conclude(where, v) ==
  /\ pc' = where
  /\ verdict' = v
  /\ reply' = "none"
  /\ UNCHANGED <<size, pos, stop, dryRun, mem, disk, gauge, cur, decisions,
                 auditVars, ricVars, history>>

BreakerRejects == pc = "emit" /\ Conclude("append", "emit_failed")

\* httpx.HTTPError: the RIC's error status, or no answer within the timeout.
PutFails ==
  /\ pc = "await"
  /\ reply # "accepted"
  /\ Conclude("append", "emit_failed")

\* Fault: an answer is waited for, but its status is not looked at.
PutAnsweredAnyway == pc = "await" /\ reply # "none" /\ Conclude("record", "accepted")

PutAnswered == pc = "await" /\ reply = "accepted" /\ Conclude("record", "accepted")

\* Any other exception out of emit_policy.
EmitRaises ==
  /\ pc \in {"emit", "await"}
  /\ Conclude("append_raise", "emit_failed")

-----------------------------------------------------------------------------
(* The evidence rows.                                                      *)

Row(v) == [decision |-> cur, verdict |-> v]

\* store.append() returns.
Persist(v) ==
  /\ ~torn
  /\ audit' = Append(audit, Row(v))
  /\ UNCHANGED <<torn, unaudited>>

\* store.append() raises, before the line or in the middle of it.
PersistFails(given) ==
  /\ torn' \in {torn, TRUE}
  /\ unaudited' = IF given THEN unaudited \cup {cur} ELSE unaudited
  /\ UNCHANGED audit

\* process_event returns, or raises and the daemon counts an error.
Return(v) ==
  /\ pc' = "account"
  /\ verdict' = v
  /\ UNCHANGED <<size, pos, stop, dryRun, mem, disk, gauge, cur, reply,
                 decisions, ricVars, history>>

Raise ==
  /\ pc' = "next"
  /\ cur' = 0
  /\ verdict' = "none"
  /\ Fate(cur, "error")
  /\ UNCHANGED <<size, pos, stop, dryRun, mem, disk, gauge, reply, ricVars,
                 history>>

\* emit_policy appends the record of an accepted policy; when that raises the
\* pipeline marks the record and appends it itself, and goes on either way.
Record == pc = "record" /\ Persist("accepted") /\ Return("accepted")

RecordFails ==
  /\ pc = "record"
  /\ PersistFails(FALSE)
  /\ pc' = "retry"
  /\ UNCHANGED <<size, pos, stop, dryRun, mem, disk, gauge, pipeVars, ricVars,
                 history>>

Retry == pc = "retry" /\ Persist("persist_failed") /\ Return("persist_failed")

RetryFails == pc = "retry" /\ PersistFails(TRUE) /\ Return("persist_failed")

\* Fault: a refusal is reported without its evidence record.
AppendVerdictSkipped == pc = "append" /\ Return(verdict) /\ UNCHANGED auditVars

\* The pipeline's own append of a refusal, a dry run or a failed emit.
AppendVerdict == pc = "append" /\ Persist(verdict) /\ Return(verdict)

AppendVerdictFails == pc = "append" /\ PersistFails(TRUE) /\ Raise

\* The best-effort row before an unexpected exception is raised again.
AppendBeforeRaise == pc = "append_raise" /\ Persist(verdict) /\ Raise

AppendBeforeRaiseFails == pc = "append_raise" /\ PersistFails(TRUE) /\ Raise

-----------------------------------------------------------------------------
(* The daemon's accounts.                                                  *)

\* Fault: last_event_id stays behind.
AccountKeepsEventId(due, saved) ==
  /\ pc = "account"
  /\ mem' = [last |-> mem.last,
             processed |-> mem.processed + 1,
             emitted |-> mem.emitted + (IF verdict \in Shipped THEN 1 ELSE 0)]
  /\ disk' = IF due /\ saved THEN mem' ELSE disk
  /\ pc' = IF due /\ ~saved THEN "stopping" ELSE "next"
  /\ gauge' = gauge + 1
  /\ cur' = 0
  /\ verdict' = "none"
  /\ Fate(cur, "done")
  /\ UNCHANGED <<size, pos, stop, dryRun, reply, auditVars, ricVars, history>>

\* The result is counted and the checkpoint moved; it is saved when the
\* interval is due, and a save that raises ends the loop.  The enforcement poll
\* that comes before changes nothing.
Account(due, saved) ==
  /\ pc = "account"
  /\ saved \/ Recoverable
  /\ mem' = [last |-> Source[decisions[cur].event],
             processed |-> mem.processed + 1,
             emitted |-> mem.emitted + (IF verdict \in Shipped THEN 1 ELSE 0)]
  /\ disk' = IF due /\ saved THEN mem' ELSE disk
  /\ pc' = IF due /\ ~saved THEN "stopping" ELSE "next"
  /\ gauge' = gauge + 1
  /\ cur' = 0
  /\ verdict' = "none"
  /\ Fate(cur, "done")
  /\ UNCHANGED <<size, pos, stop, dryRun, reply, auditVars, ricVars, history>>

-----------------------------------------------------------------------------
(* The Near-RT RIC.  An answer reaches the process if it still waits for it *)
(* and is not lost; a request may arrive long after the timeout.            *)

Answer(n, a) ==
  reply' \in IF n = cur /\ pc = "await" THEN {a, "none"} ELSE {reply}

RicAccepts(n) ==
  /\ n \in net
  /\ net' = net \ {n}
  /\ live' = live \cup {n}
  /\ Answer(n, "accepted")
  /\ UNCHANGED <<loopVars, cur, verdict, decisions, auditVars, history>>

RicRefuses(n) ==
  /\ n \in net
  /\ net' = net \ {n}
  /\ Answer(n, "refused")
  /\ UNCHANGED <<loopVars, cur, verdict, decisions, auditVars, live, history>>

-----------------------------------------------------------------------------

Init ==
  /\ pc = "stopped" /\ size = 0 /\ pos = 1 /\ stop = FALSE /\ dryRun = FALSE
  /\ mem = Fresh /\ disk = Fresh /\ gauge = 0
  /\ cur = 0 /\ verdict = "none" /\ reply = "none" /\ decisions = <<>>
  /\ net = {} /\ live = {}
  /\ audit = <<>> /\ torn = FALSE /\ unaudited = {}
  /\ ingested = {} /\ lossy = FALSE /\ runs = 0

Pipeline ==
  \/ \E refused \in BOOLEAN : Decide(refused)
  \/ PlanRaises
  \/ Put
  \/ BreakerRejects
  \/ PutFails
  \/ PutAnswered
  \/ EmitRaises
  \/ Record
  \/ RecordFails
  \/ Retry
  \/ RetryFails
  \/ AppendVerdict
  \/ AppendVerdictFails
  \/ AppendBeforeRaise
  \/ AppendBeforeRaiseFails
  \/ \E due, saved \in BOOLEAN : Account(due, saved)

Process ==
  \/ Pipeline
  \/ LeaveLoop
  \/ \E saved \in BOOLEAN : Shutdown(saved)

Restart == \E n \in size..Len(Source), dry \in BOOLEAN : Start(n, dry)

Next ==
  \/ Restart
  \/ Process
  \/ Signal
  \/ Crash
  \/ \E n \in net : RicAccepts(n) \/ RicRefuses(n)

Spec == Init /\ [][Next]_vars

\* The coroutine runs whenever it can (every wait has a timeout), and the
\* supervisor starts the process again.
Fairness == WF_vars(Process) /\ WF_vars(Restart)

FairSpec == Spec /\ Fairness

-----------------------------------------------------------------------------
(* Properties.                                                             *)

Checkpoints ==
  [last : EventIds \cup {NoEvent}, processed : Nat, emitted : Nat]

Decisions == 1..Len(decisions)

TypeOK ==
  /\ pc \in {"stopped", "next", "emit", "await", "record", "retry", "append",
             "append_raise", "account", "stopping"}
  /\ size \in 0..Len(Source)
  /\ pos \in 1..(size + 1)
  /\ stop \in BOOLEAN /\ dryRun \in BOOLEAN
  /\ mem \in Checkpoints /\ disk \in Checkpoints
  /\ gauge \in Nat
  /\ cur \in 0..Len(decisions)
  /\ (cur = 0) <=> (pc \in {"stopped", "next", "stopping"})
  /\ verdict \in Verdicts \cup {"none"}
  /\ reply \in {"none", "accepted", "refused"}
  /\ decisions \in Seq([event : DOMAIN Source,
                        fate : {"running", "done", "error", "cut"}])
  /\ net \subseteq Decisions /\ live \subseteq Decisions
  /\ audit \in Seq([decision : Nat, verdict : Verdicts])
  /\ \A i \in DOMAIN audit : audit[i].decision \in Decisions
  /\ torn \in BOOLEAN
  /\ unaudited \subseteq Decisions
  /\ ingested \subseteq DOMAIN Source
  /\ lossy \in BOOLEAN /\ runs \in Nat

RowsOf(n) == {i \in DOMAIN audit : audit[i].decision = n}

\* The audit chain never claims too much: a record of an accepted policy is of
\* one that the RIC took, and a refusal or a dry run was never sent, whatever
\* the timing of answers, failed appends and crashes.
VerdictsTrue ==
  \A i \in DOMAIN audit :
    /\ audit[i].verdict \in Shipped => audit[i].decision \in live
    /\ audit[i].verdict \in {"blocked", "dry_run"} =>
         audit[i].decision \notin live \cup net

\* "Evidence record for this decision (persisted on every path)": a decision
\* that came to an end has one row, or none and its last append raised; no
\* decision has two.
OneRowPerDecision ==
  \A n \in Decisions :
    /\ \A i, j \in RowsOf(n) : i = j
    /\ decisions[n].fate \in {"done", "error"} =>
         (RowsOf(n) = {}) <=> (n \in unaudited)

\* A restart skips no event that was never handed to the pipeline.
NoEventSkipped ==
  \A n \in size..Len(Source) :
    \A i \in 1..ResumePoint(disk.last, n) : i \in ingested

\* What VerdictsTrue and OneRowPerDecision rest on: where the pipeline is tells
\* what has been sent, taken and recorded of the current decision.
PipelineInv ==
  /\ cur # 0 => decisions[cur].fate = "running"
  /\ cur # 0 /\ pc # "account" => RowsOf(cur) = {} /\ cur \notin unaudited
  /\ pc = "account" => (RowsOf(cur) = {} <=> cur \in unaudited)
  /\ pc = "emit" => cur \notin net \cup live
  /\ reply = "accepted" => pc = "await" /\ cur \in live
  /\ pc \in {"record", "retry"} => cur \in live
  /\ pc = "append" =>
       \/ verdict = "emit_failed"
       \/ verdict \in {"blocked", "dry_run"} /\ cur \notin net \cup live
  /\ pc = "append_raise" => verdict = "emit_failed"

\* What NoEventSkipped rests on: the events up to the reader, and up to the one
\* a checkpoint names, have all been handed to the pipeline.
Reached(last) ==
  last = NoEvent \/ \E j \in ingested : Source[j] = last /\ 1..j \subseteq ingested

ReaderInv ==
  /\ ingested \subseteq 1..size
  /\ pc # "stopped" => 1..(pos - 1) \subseteq ingested
  /\ cur # 0 => decisions[cur].event < pos
  /\ Reached(mem.last) /\ Reached(disk.last)

\* The ids of the source file are distinct.
DistinctIds ==
  \A i, j \in DOMAIN Source : Source[i] = Source[j] => i = j

\* As long as no checkpoint is lost, an event that was processed to its end is
\* never emitted again: of two live policies for one event, one decision ended
\* in an error.
CleanRestart ==
  ~lossy /\ DistinctIds =>
    \A m, n \in live :
      m # n /\ decisions[m].event = decisions[n].event =>
        "error" \in {decisions[m].fate, decisions[n].fate}

\* The checkpoint never counts a policy that is not live.
CheckpointBehind ==
  disk.emitted <= Cardinality({n \in live : decisions[n].fate = "done"})

\* "an unsafe or un-evidenced policy NEVER ships": the policies of decisions
\* the daemon has accounted for are in the audit chain.
EvidencedOnly ==
  \A n \in live : decisions[n].fate = "done" => RowsOf(n) # {}

\* "Number of DecisionRecords persisted in the evidence chain.": between two
\* events the gauge is the length of the chain, over restarts too, as long as
\* every append succeeded and no decision ended in an error.
GaugeExact ==
  /\ pc = "next"
  /\ unaudited = {}
  /\ \A n \in Decisions : decisions[n].fate # "error"
  => gauge = Len(audit)

\* A restart goes on where the last run stood: nothing finished is sent again
\* while no checkpoint is lost, and neither the checkpoint nor the gauge is ahead
\* of what was done.
RestartSound == CleanRestart /\ CheckpointBehind /\ GaugeExact

\* Every event the daemon finds in the file is handed to the pipeline in the
\* end, over errors, crashes and restarts, unless it is told to stop or the
\* audit file is torn and keeps it from starting.
SourceDrained ==
  \A i \in DOMAIN Source :
    pc # "stopped" /\ i <= size ~> i \in ingested \/ stop \/ torn

\* A signal ends the process from wherever it is.
StopHonoured == stop ~> pc = "stopped"
=============================================================================
