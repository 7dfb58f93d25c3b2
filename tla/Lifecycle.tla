------------------------------ MODULE Lifecycle ------------------------------
(***************************************************************************)
(* The rApp's own entry point (rapp/lifecycle.py): boot, serve, drain,     *)
(* shut down, under run_forever() or --once, with the R1 registration      *)
(* (rapp/r1_adapter.py), the checkpoint file (runtime/state_recovery.py),  *)
(* the systemd notifications (runtime/watchdog.py) and the readiness probe *)
(* (rapp/health.py) that reads it all.                                     *)
(*                                                                         *)
(* The main coroutine, the planner tasks and the checkpointer share one    *)
(* event loop, so a step reaches from one await to the next.  The process  *)
(* may be killed between any two steps.  The degradation controller is     *)
(* here what the probe reads of it: its is_serving().                      *)
(***************************************************************************)
EXTENDS Naturals

CONSTANTS Planners,   \* planner tasks
          MaxEmits,   \* policies emitted over all runs of the process
          MaxStarts   \* how often the process is started

ASSUME LifecycleAssumption == {MaxEmits, MaxStarts} \subseteq Nat

VARIABLES main,       \* where the main coroutine is, or Down
          entry,      \* "forever" or "once"
          rapp,       \* RAppState
          stopSet,    \* _stop_signal, set by SIGTERM and SIGINT
          drainSet,   \* _drain_signal
          planner,    \* planner[t]: "idle", "running" or "cancelling"
          waitFor,    \* shutdown's in_flight
          registered, \* R1Adapter._registered
          smo,        \* whether the SMO holds the registration
          a1Types,    \* whether the policy types were offered to the RIC
          a1Open,     \* whether the A1 client is open
          servers,    \* the servers of this process that answer
          told,       \* the last word to systemd: "none", "READY", "STOPPING"
          watchdogOn, \* whether the watchdog task has begun
          restored,   \* _a1_emitted_count
          emittedHere,\* A1Adapter._policies_emitted
          emittedEver,\* policies emitted over all runs
          disk,       \* the checkpoint file: whether it reads, and its count
          serving,    \* the degradation controller's is_serving()
          starts

lcVars == <<main, entry, rapp, stopSet, drainSet, planner, waitFor, registered,
            smo, a1Types, a1Open, servers, told, watchdogOn, restored,
            emittedHere, emittedEver, disk, serving, starts>>

Down == "down"
RAppStates == {"init", "registering", "running", "degraded", "deregistering",
               "stopped"}

\* What load_state finds: a good file, none, or one that does not parse.
Files == [reads : {"loaded", "missing", "corrupt"}, count : 0..MaxEmits]

LcInit ==
  /\ main = Down
  /\ entry = "forever"
  /\ rapp = "init"
  /\ stopSet = FALSE /\ drainSet = FALSE
  /\ planner = [t \in Planners |-> "idle"]
  /\ waitFor = {}
  /\ registered = FALSE /\ smo = FALSE /\ a1Types = FALSE /\ a1Open = FALSE
  /\ servers = {}
  /\ told = "none"
  /\ watchdogOn = FALSE
  /\ restored = 0 /\ emittedHere = 0 /\ emittedEver = 0
  /\ disk = [reads |-> "missing", count |-> 0]
  /\ serving = TRUE
  /\ starts = 0

-----------------------------------------------------------------------------
(* Checkpoints.                                                            *)

\* load_state and _restore_from_disk: a missing or corrupt file boots from
\* defaults.
RestoredCount == IF disk.reads = "loaded" THEN disk.count ELSE 0

\* _state_snapshot's a1_emitted_count: the restored count, or else the
\* adapter's.
Snapshot == IF restored # 0 THEN restored ELSE emittedHere

\* save_state: written beside the file and renamed over it, or it fails and the
\* file stays; either way the checkpointer goes on.
SaveState == disk' \in {[reads |-> "loaded", count |-> Snapshot], disk}

-----------------------------------------------------------------------------
(* The process and its main coroutine.                                     *)

\* __init__, and the entry point begins.
Launch(kind) ==
  /\ main = Down
  /\ starts < MaxStarts
  /\ starts' = starts + 1
  /\ entry' = kind
  /\ main' = "register"
  /\ rapp' = "registering"
  /\ stopSet' = FALSE /\ drainSet' = FALSE
  /\ planner' = [t \in Planners |-> "idle"]
  /\ waitFor' = {}
  /\ registered' = FALSE /\ a1Types' = FALSE /\ a1Open' = TRUE
  /\ servers' = {}
  /\ told' = "none"
  /\ watchdogOn' = FALSE
  /\ restored' = RestoredCount
  /\ emittedHere' = 0
  /\ serving' = TRUE
  /\ UNCHANGED <<smo, emittedEver, disk>>

mainOnly == <<entry, stopSet, drainSet, planner, waitFor, a1Open, restored,
              emittedHere, emittedEver, serving, starts>>

\* Fault: running is reported before the policy types are offered.
RegisterRAppEarly ==
  /\ main = "register"
  /\ \/ /\ smo' = TRUE /\ registered' = TRUE
        /\ main' = "types"
        /\ rapp' = "running"
        /\ servers' = {"health"}
     \/ /\ smo' \in {smo, TRUE}
        /\ main' = "bootFailed"
        /\ rapp' = "degraded"
        /\ UNCHANGED <<registered, servers>>
  /\ UNCHANGED <<mainOnly, a1Types, told, watchdogOn, disk>>

\* R1Adapter.register: the request may fail before or after the SMO has seen it.
RegisterRApp ==
  /\ main = "register"
  /\ \/ /\ smo' = TRUE /\ registered' = TRUE
        /\ main' = "types"
        /\ UNCHANGED rapp
     \/ /\ smo' \in {smo, TRUE}
        /\ main' = "bootFailed"
        /\ rapp' = "degraded"
        /\ UNCHANGED registered
  /\ UNCHANGED <<mainOnly, a1Types, servers, told, watchdogOn, disk>>

\* register_policy_types: HTTP errors are logged and the next type is tried;
\* any other exception ends the boot.
OfferTypes ==
  /\ main = "types"
  /\ \/ /\ a1Types' = TRUE
        /\ main' = "booted"
        /\ rapp' = "running"
     \/ /\ main' = "bootFailed"
        /\ rapp' = "degraded"
        /\ UNCHANGED a1Types
  /\ UNCHANGED <<mainOnly, registered, smo, servers, told, watchdogOn, disk>>

\* A boot that fails ends run_forever() without a shutdown; --once reports it
\* (mark_degraded) and shuts down.
BootFailed ==
  /\ main = "bootFailed"
  /\ \/ entry = "forever" /\ main' = Down
     \/ entry = "once" /\ main' = "shutdown"
  /\ rapp' = "degraded"
  /\ servers' = {}
  /\ UNCHANGED <<mainOnly, registered, smo, a1Types, told, watchdogOn, disk>>

\* After boot: --once shuts down; run_forever() tells systemd, starts its
\* servers and tasks and waits for the stop signal.  _serve_api returns at once
\* when it is disabled or has no secret.
Serve ==
  /\ main = "booted"
  /\ \/ /\ entry = "once"
        /\ main' = "shutdown"
        /\ UNCHANGED <<servers, told>>
     \/ /\ entry = "forever"
        /\ main' = "serving"
        /\ told' = "READY"
        /\ servers' \in {{"health"}, {"health", "api"}}
  /\ UNCHANGED <<mainOnly, rapp, registered, smo, a1Types, watchdogOn, disk>>

\* The watchdog's first turn; it was scheduled before the checkpointer, so it
\* comes before anything the stop signal lets go on.
WatchdogBegins ==
  /\ main = "serving" /\ ~watchdogOn
  /\ watchdogOn' = TRUE
  /\ UNCHANGED <<mainOnly, main, rapp, registered, smo, a1Types, servers, told, disk>>

\* One turn of the checkpointer.
Checkpoint ==
  /\ main = "serving"
  /\ SaveState
  /\ UNCHANGED <<mainOnly, main, rapp, registered, smo, a1Types, servers, told,
                 watchdogOn>>

\* The stop signal: the checkpointer is cancelled and writes its last snapshot.
LastCheckpoint ==
  /\ main = "serving" /\ stopSet /\ watchdogOn
  /\ SaveState
  /\ main' = "cancelling"
  /\ UNCHANGED <<mainOnly, rapp, registered, smo, a1Types, servers, told, watchdogOn>>

\* Cancel the watchdog, which sends STOPPING, the lag probe and the API server.
StopTasks ==
  /\ main = "cancelling"
  /\ told' = "STOPPING"
  /\ servers' = servers \ {"api"}
  /\ main' = "shutdown"
  /\ UNCHANGED <<mainOnly, rapp, registered, smo, a1Types, watchdogOn, disk>>

shutdownRest == <<entry, stopSet, a1Types, told, watchdogOn, restored,
                  emittedHere, emittedEver, disk, serving, starts>>

\* shutdown() up to its first await: no new work from here on, and the tasks
\* to wait for are collected.
Shutdown ==
  /\ main = "shutdown"
  /\ rapp' = "deregistering"
  /\ drainSet' = TRUE
  /\ waitFor' = {t \in Planners : planner[t] # "idle"}
  /\ main' = "draining"
  /\ UNCHANGED <<shutdownRest, planner, registered, smo, a1Open, servers>>

\* asyncio.wait returns when every task is done ...
Drained ==
  /\ main = "draining"
  /\ \A t \in waitFor : planner[t] = "idle"
  /\ waitFor' = {}
  /\ main' = "deregister"
  /\ UNCHANGED <<shutdownRest, rapp, drainSet, planner, registered, smo, a1Open,
                 servers>>

\* Fault: the deadline passes and shutdown goes on waiting.
DrainWaitsOn ==
  /\ main = "draining"
  /\ \E t \in waitFor : planner[t] = "running"
  /\ UNCHANGED lcVars

\* ... or at the deadline; the rest is cancelled and then awaited.
DrainTimesOut ==
  /\ main = "draining"
  /\ \E t \in waitFor : planner[t] = "running"
  /\ planner' = [t \in Planners |->
                   IF t \in waitFor /\ planner[t] = "running" THEN "cancelling"
                   ELSE planner[t]]
  /\ UNCHANGED <<shutdownRest, main, rapp, drainSet, waitFor, registered, smo,
                 a1Open, servers>>

\* R1Adapter.deregister, skipped without a registration; a failure is logged
\* and the flag stays.
Deregister ==
  /\ main = "deregister"
  /\ \/ /\ registered
        /\ smo' = FALSE /\ registered' = FALSE
     \/ /\ registered
        /\ smo' \in {smo, FALSE}
        /\ UNCHANGED registered
     \/ /\ ~registered
        /\ UNCHANGED <<smo, registered>>
  /\ main' = "close"
  /\ UNCHANGED <<shutdownRest, rapp, drainSet, planner, waitFor, a1Open, servers>>

\* Close both clients, cancel the health server.
Close ==
  /\ main = "close"
  /\ a1Open' = FALSE
  /\ servers' = {}
  /\ rapp' = "stopped"
  /\ main' = Down
  /\ UNCHANGED <<shutdownRest, drainSet, planner, waitFor, registered, smo>>

-----------------------------------------------------------------------------
(* Planner tasks.  A producer stops submitting once the drain signal is set. *)

plannerOnly == <<main, entry, rapp, stopSet, drainSet, waitFor, registered, smo,
                 a1Types, a1Open, servers, told, watchdogOn, restored, disk,
                 serving, starts>>

\* The main coroutine awaits something, so others can run.
AtAwait == main \notin {Down, "bootFailed", "booted", "shutdown"}

\* create_task and track_planner_task.
Track(t) ==
  /\ AtAwait /\ rapp = "running" /\ ~drainSet
  /\ planner[t] = "idle"
  /\ planner' = [planner EXCEPT ![t] = "running"]
  /\ UNCHANGED <<plannerOnly, emittedHere, emittedEver>>

\* The task emits its policy and is done.
Emit(t) ==
  /\ AtAwait
  /\ planner[t] = "running"
  /\ emittedEver < MaxEmits
  /\ planner' = [planner EXCEPT ![t] = "idle"]
  /\ emittedHere' = emittedHere + 1
  /\ emittedEver' = emittedEver + 1
  /\ UNCHANGED plannerOnly

\* The task ends without one: its call failed, or it was cancelled.
EndTask(t) ==
  /\ AtAwait
  /\ planner[t] # "idle"
  /\ planner' = [planner EXCEPT ![t] = "idle"]
  /\ UNCHANGED <<plannerOnly, emittedHere, emittedEver>>

-----------------------------------------------------------------------------
(* What happens to the process.                                            *)

Signal ==
  /\ AtAwait /\ entry = "forever" /\ ~stopSet
  /\ stopSet' = TRUE
  /\ UNCHANGED <<main, entry, rapp, drainSet, planner, waitFor, registered, smo,
                 a1Types, a1Open, servers, told, watchdogOn, restored,
                 emittedHere, emittedEver, disk, serving, starts>>

\* The process is killed: what is left is the file and what the SMO remembers.
Crash ==
  /\ main # Down
  /\ main' = Down
  /\ rapp' = "init"
  /\ servers' = {}
  /\ a1Open' = FALSE
  /\ registered' = FALSE
  /\ told' = "none"
  /\ planner' = [t \in Planners |-> "idle"]
  /\ UNCHANGED <<entry, stopSet, drainSet, waitFor, smo, a1Types, watchdogOn,
                 restored, emittedHere, emittedEver, disk, serving, starts>>

\* The file is lost or damaged while nobody runs.
LoseFile ==
  /\ main = Down
  /\ \E r \in {"missing", "corrupt"} : disk' = [reads |-> r, count |-> 0]
  /\ UNCHANGED <<main, entry, rapp, stopSet, drainSet, planner, waitFor,
                 registered, smo, a1Types, a1Open, servers, told, watchdogOn,
                 restored, emittedHere, emittedEver, serving, starts>>

\* The degradation controller changes its mind.
ServingChanges ==
  /\ main # Down
  /\ serving' = ~serving
  /\ UNCHANGED <<main, entry, rapp, stopSet, drainSet, planner, waitFor,
                 registered, smo, a1Types, a1Open, servers, told, watchdogOn,
                 restored, emittedHere, emittedEver, disk, starts>>

MainStep ==
  \/ RegisterRApp \/ OfferTypes \/ BootFailed \/ Serve \/ LastCheckpoint \/ StopTasks
  \/ Shutdown \/ Drained \/ Deregister \/ Close

LcNext ==
  \/ \E kind \in {"forever", "once"} : Launch(kind)
  \/ MainStep
  \/ WatchdogBegins
  \/ Checkpoint
  \/ DrainTimesOut
  \/ \E t \in Planners : Track(t) \/ Emit(t) \/ EndTask(t)
  \/ Signal
  \/ Crash
  \/ LoseFile
  \/ ServingChanges

LcSpec == LcInit /\ [][LcNext]_lcVars

\* /readyz, with the liveness signals green: 200 only when RUNNING and serving.
Readyz == "health" \in servers /\ rapp = "running" /\ serving

-----------------------------------------------------------------------------
LcTypeOK ==
  /\ main \in {Down, "register", "types", "bootFailed", "booted", "serving",
               "cancelling", "shutdown", "draining", "deregister", "close"}
  /\ entry \in {"forever", "once"}
  /\ rapp \in RAppStates
  /\ planner \in [Planners -> {"idle", "running", "cancelling"}]
  /\ waitFor \subseteq Planners
  /\ servers \subseteq {"health", "api"}
  /\ told \in {"none", "READY", "STOPPING"}
  /\ disk \in Files
  /\ {stopSet, drainSet, registered, smo, a1Types, a1Open, watchdogOn, serving}
       \subseteq BOOLEAN

\* shutdown() closes the adapters only when no planner task is left: every task
\* tracked before the drain signal has ended, was awaited, or was cancelled and
\* awaited, so no emit races the close.
NoEmitAfterClose ==
  main \in {"deregister", "close"} =>
    \A t \in Planners : planner[t] = "idle"

\* What the rApp tells the outside is true, however boot, shutdown and probes
\* interleave: a "ready" answer and READY=1 speak of an rApp the SMO has
\* registered, whose policy types were offered and whose clients are open, and
\* an rApp run by systemd deregisters only after it has said STOPPING=1.
OutsideToldTruth ==
  /\ Readyz \/ told = "READY" => registered /\ smo /\ a1Types /\ a1Open /\ ~drainSet
  /\ rapp \in {"deregistering", "stopped"} /\ entry = "forever" =>
       told = "STOPPING"

\* Over crashes, restarts, failed saves and lost files, the emit count in the
\* checkpoint never claims a policy that was not emitted.
CountNeverAhead == disk.count <= emittedEver

\* A stop signal always ends the process: tasks that do not end in time are
\* cancelled, and no step of the shutdown waits for something that cannot come.
StopEndsProcess == stopSet /\ main # Down ~> main = Down
=============================================================================
